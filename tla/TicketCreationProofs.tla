------------------------ MODULE TicketCreationProofs ------------------------
(***************************************************************************)
(* TicketCreation and Recurrences for every set of calls, keys, messages,  *)
(* documents and sweeping processes: types, one ticket for one request,    *)
(* documents that stay with their ticket, periods of a rule in turn.       *)
(***************************************************************************)
EXTENDS Recurrences, FiniteSetTheorems, WellFoundedInduction, TLAPS

-----------------------------------------------------------------------------
(* Tickets. *)

RequestName == Key \cup {"draft", "mail", "channel", "rule"}

(* The tickets of a request are finitely many. *)
LEMMA TicketsCount ==
  ASSUME tickets \in Seq(RequestName), NEW x
  PROVE  /\ IsFiniteSet({t \in DOMAIN tickets : tickets[t] = x})
         /\ TicketsFor(x) \in Nat
<1>1. DOMAIN tickets = 1..Len(tickets) /\ Len(tickets) \in Nat
  OBVIOUS
<1>2. IsFiniteSet(DOMAIN tickets)
  BY <1>1, FS_Interval
<1>3. {t \in DOMAIN tickets : tickets[t] = x} \in SUBSET DOMAIN tickets
  OBVIOUS
<1>4. IsFiniteSet({t \in DOMAIN tickets : tickets[t] = x})
  BY <1>2, <1>3, FS_Subset
<1>5. QED
  BY <1>4, FS_CardinalityType DEF TicketsFor

(* A ticket that is created is one more for its request, and none for another (create.ts:162). *)
LEMMA CreatesCounts ==
  ASSUME tickets \in Seq(RequestName), NEW r \in RequestName, Creates(r)
  PROVE  /\ tickets' \in Seq(RequestName)
         /\ TicketsFor(r)' = TicketsFor(r) + 1
         /\ \A x : x # r => TicketsFor(x)' = TicketsFor(x)
<1> DEFINE Of(x) == {t \in DOMAIN tickets : tickets[t] = x}
<1>1. /\ tickets' = Append(tickets, r) /\ tickets' \in Seq(RequestName)
      /\ DOMAIN tickets = 1..Len(tickets) /\ Len(tickets) \in Nat
      /\ DOMAIN tickets' = 1..(Len(tickets) + 1)
      /\ tickets'[Len(tickets) + 1] = r
      /\ \A t \in 1..Len(tickets) : tickets'[t] = tickets[t]
  BY DEF Creates
<1>2. Of(r)' = Of(r) \cup {Len(tickets) + 1} /\ Len(tickets) + 1 \notin Of(r)
  BY <1>1
<1>3. IsFiniteSet(Of(r))
  BY TicketsCount
<1>4. Cardinality(Of(r) \cup {Len(tickets) + 1}) = Cardinality(Of(r)) + 1
  BY <1>2, <1>3, FS_AddElement
<1>5. TicketsFor(r)' = TicketsFor(r) + 1
  BY <1>2, <1>4 DEF TicketsFor
<1>6. ASSUME NEW x, x # r PROVE TicketsFor(x)' = TicketsFor(x)
  <2>1. Of(x)' = Of(x)
    BY <1>1, <1>6
  <2>2. QED
    BY <2>1 DEF TicketsFor
<1>7. QED
  BY <1>1, <1>5, <1>6

-----------------------------------------------------------------------------
(* Types. *)

Calls == [Call -> [phase : {"rest", "writing", "retrying", "failing"},
                   key : Key \cup Message \cup {"none"}]]
Removals == [Remover -> [step : {"rest", "update", "choose", "delete", "erase", "drop"},
                         docs : SUBSET Doc]]

(* A call that goes on or ends is a call still, and the others are as they were. *)
LEMMA CallGoes ==
  ASSUME call \in Calls, NEW c \in Call, NEW phase \in {"rest", "writing", "retrying", "failing"},
         NEW key \in Key \cup Message \cup {"none"}, Goes(c, phase, key)
  PROVE  /\ call' \in Calls
         /\ call'[c].phase = phase /\ call'[c].key = key
         /\ \A d \in Call \ {c} : call'[d] = call[d]
BY DEF Goes, Calls

\* What a call that comes to rest leaves.
LEMMA CallEnds ==
  ASSUME call \in Calls, NEW c \in Call, Ends(c)
  PROVE  /\ call' \in Calls
         /\ call'[c].phase = "rest"
         /\ \A d \in Call \ {c} : call'[d] = call[d]
BY DEF Ends, Calls, Resting

(* Every step of the calls keeps every type. *)
LEMMA CallTypesKept == TypeOK /\ OneWriter /\ WritersHold /\ CallNext => TypeOK'
<1> SUFFICES ASSUME TypeOK, WritersHold, CallNext PROVE TypeOK'
  OBVIOUS
<1>1. /\ source \in {"portal", "draft", "mail", "channel", "rule"}
      /\ tickets \in Seq(RequestName)
      /\ claim \in [Key -> Nat] /\ lapsed \subseteq Key /\ lapses \in [Key -> Nat]
      /\ draft \in [status : {"open", "submitted", "discarded", "deleted"}, ticket : Nat]
      /\ mail \in [status : {"absent", "failed", "processed"}, attempts : Nat, acked : BOOLEAN]
      /\ thread \in [ticket : Nat, seen : SUBSET Message]
      /\ call \in Calls
      /\ overlapped \in BOOLEAN /\ calls \in Nat
      /\ stored \subseteq Doc /\ bytes \subseteq Doc /\ linked \in [Doc -> SUBSET {"draft", "ticket"}]
      /\ uploading \subseteq Doc
      /\ removing \in Removals
      /\ NewTicket \in Nat /\ NoTicket \in Nat
  BY DEF TypeOK, RequestName, Calls, Removals, NewTicket, NoTicket
<1>2. TypeOK' <=>
      /\ source' \in {"portal", "draft", "mail", "channel", "rule"}
      /\ tickets' \in Seq(RequestName)
      /\ claim' \in [Key -> Nat] /\ lapsed' \subseteq Key /\ lapses' \in [Key -> Nat]
      /\ draft' \in [status : {"open", "submitted", "discarded", "deleted"}, ticket : Nat]
      /\ mail' \in [status : {"absent", "failed", "processed"}, attempts : Nat, acked : BOOLEAN]
      /\ thread' \in [ticket : Nat, seen : SUBSET Message]
      /\ call' \in Calls
      /\ overlapped' \in BOOLEAN /\ calls' \in Nat
      /\ stored' \subseteq Doc /\ bytes' \subseteq Doc /\ linked' \in [Doc -> SUBSET {"draft", "ticket"}]
      /\ uploading' \subseteq Doc
      /\ removing' \in Removals
  BY DEF TypeOK, RequestName, Calls, Removals
<1>3. PICK c \in Call :
        \/ RollsBack(c) \/ PortalCommits(c) \/ SubmitCommits(c) \/ IngestCommits(c)
        \/ MailArrives(c) \/ MailTakenUp(c) \/ MailCommits(c) \/ MailFailureRecorded(c)
        \/ \E k \in Key : PortalClaims(c, k) \/ SubmitClaims(c, k)
        \/ \E m \in Message : IngestClaims(c, m)
  BY DEF CallNext
<1>4. ASSUME NEW k \in Key, NEW ticket \in Nat, Claims(k, ticket)
      PROVE  claim' \in [Key -> Nat] /\ lapsed' \subseteq Key /\ lapses' \in [Key -> Nat]
  BY <1>1, <1>4 DEF Claims
<1>5. {"rule", "draft", "mail", "channel"} \cup Key \subseteq RequestName
  BY DEF RequestName
<1>6. CASE RollsBack(c)
  BY <1>1, <1>2, <1>6, CallGoes, CallEnds DEF RollsBack, rowVars, claimVars, docVars
<1>7. CASE PortalCommits(c)
  <2>1. call[c].key \in Key
    BY <1>7 DEF PortalCommits, WritersHold
  <2>2. /\ claim' \in [Key -> Nat] /\ lapsed' \subseteq Key /\ lapses' \in [Key -> Nat]
        /\ tickets' \in Seq(RequestName) /\ call' \in Calls
    BY <1>1, <1>4, <1>5, <1>7, <2>1, CreatesCounts, CallEnds DEF PortalCommits
  <2>3. QED
    BY <1>1, <1>2, <1>7, <2>2 DEF PortalCommits, docVars
<1>8. CASE SubmitCommits(c)
  <2>1. call[c].key \in Key
    BY <1>8 DEF SubmitCommits, WritersHold
  <2>2. call' \in Calls /\ linked' \in [Doc -> SUBSET {"draft", "ticket"}]
    BY <1>1, <1>8, CallEnds DEF SubmitCommits, Moved
  <2>3. CASE Free(call[c].key)
    <3>1. /\ claim' \in [Key -> Nat] /\ lapsed' \subseteq Key /\ lapses' \in [Key -> Nat]
          /\ tickets' \in Seq(RequestName)
      BY <1>1, <1>4, <1>5, <1>8, <2>1, <2>3, CreatesCounts DEF SubmitCommits
    <3>2. draft' = [status |-> "submitted", ticket |-> NewTicket]
      BY <1>8, <2>3 DEF SubmitCommits
    <3>3. QED
      BY <1>1, <1>2, <1>8, <2>2, <3>1, <3>2 DEF SubmitCommits
  <2>4. CASE ~Free(call[c].key)
    <3>1. draft' = [status |-> "submitted", ticket |-> claim[call[c].key]] /\ UNCHANGED <<tickets, claimVars>>
      BY <1>8, <2>4 DEF SubmitCommits
    <3>2. QED
      BY <1>1, <1>2, <1>8, <2>1, <2>2, <3>1 DEF SubmitCommits, claimVars
  <2>5. QED
    BY <2>3, <2>4
<1>9. CASE IngestCommits(c)
  <2>1. call[c].key \in Message
    BY <1>9 DEF IngestCommits, WritersHold
  <2>2. call' \in Calls /\ tickets' \in Seq(RequestName)
    BY <1>1, <1>5, <1>9, CreatesCounts, CallEnds DEF IngestCommits
  <2>3. thread' \in [ticket : Nat, seen : SUBSET Message]
    BY <1>1, <1>9, <2>1 DEF IngestCommits
  <2>4. QED
    BY <1>1, <1>2, <1>9, <2>2, <2>3 DEF IngestCommits, claimVars, docVars
<1>10. CASE MailArrives(c)
  <2>1. call' \in Calls
    BY <1>1, <1>10, CallGoes DEF MailArrives
  <2>2. mail' \in [status : {"absent", "failed", "processed"}, attempts : Nat, acked : BOOLEAN]
    BY <1>1, <1>10 DEF MailArrives
  <2>3. QED
    BY <1>1, <1>2, <1>10, <2>1, <2>2 DEF MailArrives, Arrives, claimVars, docVars
<1>11. CASE MailTakenUp(c)
  <2>1. call' \in Calls
    BY <1>1, <1>11, CallGoes DEF MailTakenUp
  <2>2. QED
    BY <1>1, <1>2, <1>11, <2>1 DEF MailTakenUp, rowVars, claimVars, docVars
<1>12. CASE MailCommits(c)
  <2>1. call' \in Calls /\ tickets' \in Seq(RequestName)
    BY <1>1, <1>5, <1>12, CreatesCounts, CallEnds DEF MailCommits
  <2>2. mail' \in [status : {"absent", "failed", "processed"}, attempts : Nat, acked : BOOLEAN]
    BY <1>1, <1>12 DEF MailCommits
  <2>3. QED
    BY <1>1, <1>2, <1>12, <2>1, <2>2 DEF MailCommits, claimVars, docVars
<1>13. CASE MailFailureRecorded(c)
  <2>1. call' \in Calls
    BY <1>1, <1>13, CallEnds DEF MailFailureRecorded
  <2>2. mail' \in [status : {"absent", "failed", "processed"}, attempts : Nat, acked : BOOLEAN]
    <3>1. mail.attempts + 1 \in Nat /\ mail.status \in {"absent", "failed", "processed"}
      BY <1>1
    <3>2. \/ mail' = mail
          \/ mail' = [mail EXCEPT !.status = IF @ = "absent" THEN "failed" ELSE @, !.attempts = @ + 1]
      BY <1>13 DEF MailFailureRecorded
    <3>3. QED
      BY <1>1, <3>1, <3>2
  <2>3. QED
    BY <1>1, <1>2, <1>13, <2>1, <2>2 DEF MailFailureRecorded, claimVars, docVars
<1>14. ASSUME NEW k \in Key, PortalClaims(c, k) \/ SubmitClaims(c, k) PROVE TypeOK'
  <2>1. call' \in Calls
    BY <1>1, <1>14, CallGoes DEF PortalClaims, SubmitClaims
  <2>2. QED
    BY <1>1, <1>2, <1>14, <2>1 DEF PortalClaims, SubmitClaims, Arrives, rowVars, claimVars, docVars
<1>15. ASSUME NEW m \in Message, IngestClaims(c, m) PROVE TypeOK'
  <2>1. call' \in Calls
    BY <1>1, <1>15, CallGoes DEF IngestClaims
  <2>2. QED
    BY <1>1, <1>2, <1>15, <2>1 DEF IngestClaims, Arrives, rowVars, claimVars, docVars
<1>16. QED
  BY <1>3, <1>6, <1>7, <1>8, <1>9, <1>10, <1>11, <1>12, <1>13, <1>14, <1>15

(* Every step of a draft's documents keeps every type. *)
LEMMA DocumentTypesKept == TypeOK /\ DocumentNext => TypeOK'
<1> SUFFICES ASSUME TypeOK, DocumentNext PROVE TypeOK'
  OBVIOUS
<1>1. /\ draft \in [status : {"open", "submitted", "discarded", "deleted"}, ticket : Nat]
      /\ stored \subseteq Doc /\ bytes \subseteq Doc /\ linked \in [Doc -> SUBSET {"draft", "ticket"}]
      /\ uploading \subseteq Doc
      /\ removing \in Removals
      /\ "discard" \in Remover /\ "sweep" \in Remover
  BY DEF TypeOK, Removals, Remover
<1>2. /\ draft' \in [status : {"open", "submitted", "discarded", "deleted"}, ticket : Nat]
      /\ stored' \subseteq Doc /\ bytes' \subseteq Doc /\ linked' \in [Doc -> SUBSET {"draft", "ticket"}]
      /\ uploading' \subseteq Doc
      /\ removing' \in Removals
  <2>1. ASSUME NEW r \in Remover,
               NEW step \in {"rest", "update", "choose", "delete", "erase", "drop"}, StepsTo(r, step)
        PROVE  removing' \in Removals
    BY <1>1, <2>1 DEF StepsTo, Removals
  <2>2. ASSUME NEW d \in Doc, UploadChecks(d) \/ UploadCommits(d)
        PROVE  <1>2!:
    BY <1>1, <2>2 DEF UploadChecks, UploadCommits, rowVars
  <2>3. ASSUME NEW r \in Remover, ChooseDocuments(r) \/ DeleteDocuments(r) \/ EraseBytes(r)
        PROVE  <1>2!:
    <3>1. removing[r].docs \subseteq Doc
      BY <1>1 DEF Removals
    <3>2. CASE ChooseDocuments(r)
      BY <1>1, <3>2 DEF ChooseDocuments, rowVars, Removals
    <3>3. CASE DeleteDocuments(r)
      <4>1. PICK gone \in SUBSET Doc :
              /\ stored' = stored \ gone
              /\ linked' = IF removing[r].docs = {} THEN linked
                           ELSE [d \in Doc |-> IF d \in gone THEN {} ELSE linked[d] \ {"draft"}]
              /\ removing' = [removing EXCEPT ![r] = [step |-> "erase", docs |-> gone]]
        BY <3>1, <3>3 DEF DeleteDocuments
      <4>2. removing' \in Removals
        BY <1>1, <4>1 DEF Removals
      <4>3. QED
        BY <1>1, <3>3, <4>1, <4>2 DEF DeleteDocuments, rowVars
    <3>4. CASE EraseBytes(r)
      BY <1>1, <3>4 DEF EraseBytes, rowVars, Removals
    <3>5. QED
      BY <2>3, <3>2, <3>3, <3>4
  <2>4. CASE DiscardChecks
    BY <1>1, <2>1, <2>4 DEF DiscardChecks, rowVars
  <2>5. CASE DiscardUpdates
    BY <1>1, <2>1, <2>5 DEF DiscardUpdates
  <2>6. CASE SweepSelects
    BY <1>1, <2>1, <2>6 DEF SweepSelects, rowVars
  <2>7. CASE SweepDeletes
    BY <1>1, <2>1, <2>7 DEF SweepDeletes
  <2>8. QED
    BY <2>2, <2>3, <2>4, <2>5, <2>6, <2>7 DEF DocumentNext
<1>3. UNCHANGED <<source, tickets, claimVars, mail, thread, callVars>>
  BY DEF DocumentNext, UploadChecks, UploadCommits, ChooseDocuments, DeleteDocuments, EraseBytes,
         DiscardChecks, DiscardUpdates, SweepSelects, SweepDeletes, rowVars
<1>4. QED
  BY <1>2, <1>3 DEF TypeOK, claimVars, callVars, Removals

(* Every step keeps every type. *)
LEMMA CreationTypesKept == TypeOK /\ OneWriter /\ WritersHold /\ [Next]_vars => TypeOK'
<1> SUFFICES ASSUME TypeOK, OneWriter, WritersHold, [Next]_vars PROVE TypeOK'
  OBVIOUS
<1>1. CASE Restart
  <2>1. /\ call' = [c \in Call |-> Resting] /\ uploading' = {}
        /\ removing' = [r \in Remover |-> NotRemoving]
        /\ UNCHANGED <<source, rowVars, overlapped, calls, stored, bytes, linked>>
    BY <1>1 DEF Restart
  <2>2. call' \in Calls /\ removing' \in Removals
    BY <2>1 DEF Calls, Removals, Resting, NotRemoving
  <2>3. QED
    BY <2>1, <2>2 DEF TypeOK, rowVars, claimVars, Calls, Removals
<1>2. ASSUME NEW k \in Key, ClaimLapses(k) PROVE TypeOK'
  BY <1>2 DEF ClaimLapses, TypeOK, callVars, docVars
<1>3. CASE UNCHANGED vars
  BY <1>3 DEF TypeOK, vars, rowVars, claimVars, callVars, docVars
<1>4. QED
  BY <1>1, <1>2, <1>3, CallTypesKept, DocumentTypesKept DEF Next

-----------------------------------------------------------------------------
(* The invariant of TicketCreation, step by step. *)

Rest == OneWriter /\ WritersHold /\ TicketsAreKnown /\ LinkedIsStored /\ HandledOnce
Parts == TypeOK /\ Rest

(* Before anything is asked for there is no ticket, no writer and no document. *)
LEMMA BlankHolds ==
  ASSUME source \in {"portal", "draft", "mail", "channel", "rule"}, Blank
  PROVE  Parts
<1>1. TypeOK
  <2>1. call \in Calls /\ removing \in Removals
    BY DEF Blank, Resting, NotRemoving, Calls, Removals
  <2>2. tickets \in Seq(RequestName)
    BY DEF Blank
  <2>3. QED
    BY <2>1, <2>2 DEF Blank, TypeOK, NoTicket, Calls, Removals, RequestName
<1>2. \A c \in Call : call[c].phase = "rest"
  BY DEF Blank, Resting
<1>3. \A x : TicketsFor(x) = 0
  <2>1. DOMAIN tickets = {}
    BY DEF Blank
  <2>2. \A x : {t \in DOMAIN tickets : tickets[t] = x} = {}
    BY <2>1
  <2>3. QED
    BY <2>2, FS_EmptySet DEF TicketsFor
<1>4. OneWriter /\ WritersHold /\ TicketsAreKnown /\ LinkedIsStored
  BY <1>2, <1>3 DEF OneWriter, WritersHold, TicketsAreKnown, LinkedIsStored, At, Blank
<1>5. HandledOnce
  BY <1>3 DEF HandledOnce, Blank
<1>6. QED
  BY <1>1, <1>4, <1>5 DEF Parts, Rest

(* A call that ends, fails or has yet to take its row leaves the rows as they were. *)
LEMMA LeaveKeeps ==
  ASSUME Parts, UNCHANGED <<source, rowVars, overlapped, linked, stored>>,
         \A d \in Call : \/ call'[d] = call[d]
                         \/ /\ call'[d].phase # "writing"
                            /\ call'[d].phase \in {"retrying", "failing"} => source = "mail"
  PROVE  Rest'
<1>1. UNCHANGED <<tickets, claim, lapsed, lapses, draft, mail, thread>>
  BY DEF rowVars, claimVars
<1>2. \A d \in Call : At(d, "writing")' => At(d, "writing") /\ call'[d] = call[d]
  BY DEF At
<1>3. OneWriter'
  BY <1>2 DEF Parts, Rest, OneWriter
<1>4. WritersHold'
  BY <1>1, <1>2 DEF Parts, Rest, WritersHold, Free
<1>5. TicketsAreKnown' /\ LinkedIsStored' /\ HandledOnce'
  BY <1>1 DEF Parts, Rest, TicketsAreKnown, LinkedIsStored, HandledOnce, TicketsFor
<1>6. QED
  BY <1>3, <1>4, <1>5 DEF Rest

(* A call takes its row or its key while nobody else holds it, and what it checks holds. *)
LEMMA EnterKeeps ==
  ASSUME Parts, NEW c \in Call, UNCHANGED <<source, rowVars, linked, stored>>,
         overlapped \in BOOLEAN, overlapped => overlapped',
         call'[c].phase = "writing", \A d \in Call \ {c} : call'[d] = call[d],
         \A d \in Call \ {c} : At(d, "writing") => source = "portal" /\ call[d].key # call'[c].key,
         source = "portal" => call'[c].key \in Key /\ Free(call'[c].key),
         source = "draft" => call'[c].key \in Key /\ draft.status = "open",
         source = "channel" => call'[c].key \in Message,
         source = "mail" /\ mail.status = "processed" => overlapped'
  PROVE  Rest'
<1>1. UNCHANGED <<tickets, claim, lapsed, lapses, draft, mail, thread>>
  BY DEF rowVars, claimVars
<1>2. OneWriter'
  BY DEF Parts, Rest, OneWriter, At
<1>3. WritersHold'
  BY <1>1 DEF Parts, Rest, WritersHold, At, Free
<1>4. TicketsAreKnown' /\ LinkedIsStored'
  BY <1>1 DEF Parts, Rest, TicketsAreKnown, LinkedIsStored, TicketsFor
<1>5. HandledOnce'
  BY <1>1 DEF Parts, Rest, HandledOnce, TicketsFor
<1>6. QED
  BY <1>2, <1>3, <1>4, <1>5 DEF Rest

(* A form's commit creates the ticket of its key, whose claim is free because nobody else    *)
(* holds the key (create.ts:118).                                                            *)
LEMMA PortalCommitKeeps ==
  ASSUME Parts, NEW c \in Call, PortalCommits(c)
  PROVE  Rest'
<1>0. PICK k : k = call[c].key
  OBVIOUS
<1>1. /\ At(c, "writing") /\ k \in Key /\ Free(k) /\ source = "portal"
      /\ Creates(k) /\ Claims(k, NewTicket) /\ Ends(c)
      /\ UNCHANGED <<source, draft, mail, thread, overlapped, linked, stored>>
      /\ tickets \in Seq(RequestName) /\ call \in Calls
      /\ claim \in [Key -> Nat] /\ lapsed \subseteq Key /\ lapses \in [Key -> Nat]
      /\ k \in RequestName /\ k \notin {"draft", "mail", "channel"}
  BY <1>0, CreationAssumption
     DEF PortalCommits, Parts, Rest, WritersHold, docVars, TypeOK, RequestName, Calls
<1>2. /\ TicketsFor(k)' = TicketsFor(k) + 1
      /\ \A x : x # k => TicketsFor(x)' = TicketsFor(x)
      /\ TicketsFor(k) \in Nat /\ NewTicket \in Nat /\ NewTicket # NoTicket
  <2>1. TicketsFor(k)' = TicketsFor(k) + 1 /\ \A x : x # k => TicketsFor(x)' = TicketsFor(x)
    BY <1>1, CreatesCounts
  <2>2. TicketsFor(k) \in Nat
    BY <1>1, TicketsCount
  <2>3. QED
    BY <1>1, <2>1, <2>2 DEF NewTicket, NoTicket
<1>3. /\ claim'[k] # NoTicket /\ k \notin lapsed'
      /\ lapses'[k] = lapses[k] + (IF k \in lapsed THEN 1 ELSE 0)
      /\ \A j \in Key \ {k} : /\ claim'[j] = claim[j] /\ lapses'[j] = lapses[j]
                              /\ j \in lapsed' <=> j \in lapsed
  BY <1>1, <1>2 DEF Claims
<1>4. \A d \in Call : /\ At(d, "writing")' => d # c /\ At(d, "writing")
                      /\ d # c => call'[d] = call[d]
                      /\ call'[d].phase \in {"retrying", "failing"} => call'[d] = call[d]
  BY <1>1, CallEnds DEF At
<1>5. OneWriter'
  BY <1>1, <1>4 DEF Parts, Rest, OneWriter
<1>6. WritersHold'
  <2>1. \A d \in Call : At(d, "writing")' => call[d].key # k
    BY <1>0, <1>1, <1>4 DEF Parts, Rest, OneWriter
  <2>2. \A d \in Call : At(d, "writing")' => call'[d].key \in Key /\ Free(call[d].key)'
    BY <1>1, <1>3, <1>4, <2>1 DEF Parts, Rest, WritersHold, Free
  <2>3. QED
    BY <1>1, <1>4, <2>2 DEF Parts, Rest, WritersHold
<1>7. TicketsAreKnown'
  BY <1>1, <1>2, <1>3 DEF Parts, Rest, TicketsAreKnown
<1>8. HandledOnce'
  <2>1. TicketsFor(k)' <= 1 + lapses'[k]
    <3>1. CASE claim[k] = NoTicket
      BY <1>1, <1>2, <1>3, <3>1 DEF Parts, Rest, TicketsAreKnown
    <3>2. CASE claim[k] # NoTicket
      <4>1. k \in lapsed /\ TicketsFor(k) <= 1 + lapses[k] /\ lapses[k] \in Nat
        BY <1>1, <3>2 DEF Free, Parts, Rest, HandledOnce
      <4>2. QED
        BY <1>2, <1>3, <4>1
    <3>3. QED
      BY <3>1, <3>2
  <2>2. \A j \in Key : TicketsFor(j)' <= 1 + lapses'[j]
    BY <1>2, <1>3, <2>1 DEF Parts, Rest, HandledOnce
  <2>3. QED
    BY <1>1, <1>2, <2>2 DEF Parts, Rest, HandledOnce
<1>9. LinkedIsStored'
  BY <1>1 DEF Parts, Rest, LinkedIsStored
<1>10. QED
  BY <1>5, <1>6, <1>7, <1>8, <1>9 DEF Rest

(* A submission's commit takes the draft out of 'open' for good; whoever writes holds its    *)
(* row, so the draft is open still (intake/submit.ts:115).                                   *)
LEMMA SubmitCommitKeeps ==
  ASSUME Parts, NEW c \in Call, SubmitCommits(c)
  PROVE  Rest'
<1> DEFINE k == call[c].key
<1>1. /\ At(c, "writing") /\ k \in Key /\ source = "draft" /\ draft.status = "open"
      /\ Ends(c) /\ linked' = Moved
      /\ UNCHANGED <<source, mail, thread, overlapped, stored>>
      /\ tickets \in Seq(RequestName) /\ call \in Calls
      /\ claim \in [Key -> Nat] /\ lapsed \subseteq Key /\ lapses \in [Key -> Nat]
      /\ "draft" \in RequestName /\ k # "draft" /\ "draft" \notin Key
      /\ linked \in [Doc -> SUBSET {"draft", "ticket"}]
  BY CreationAssumption
     DEF SubmitCommits, Parts, Rest, WritersHold, TypeOK, RequestName, Calls
<1>2. draft'.status = "submitted"
  BY <1>1 DEF SubmitCommits
<1>3. \A d \in Call : /\ ~At(d, "writing")'
                      /\ call'[d].phase \in {"retrying", "failing"} => call'[d] = call[d]
  BY <1>1, CallEnds DEF At, Parts, Rest, OneWriter
<1>4. /\ TicketsFor("draft")' <= 1
      /\ \A x : x # "draft" => TicketsFor(x)' = TicketsFor(x)
      /\ \A j \in Key : /\ lapses[j] <= lapses'[j] /\ lapses[j] \in Nat /\ lapses'[j] \in Nat
                        /\ claim'[j] = NoTicket => claim[j] = NoTicket /\ j \notin lapsed'
  <2>1. CASE Free(k)
    <3>1. Creates("draft") /\ Claims(k, NewTicket) /\ NewTicket \in Nat /\ NewTicket # NoTicket
      BY <1>1, <2>1 DEF SubmitCommits, NewTicket, NoTicket
    <3>2. /\ TicketsFor("draft")' = 1
          /\ \A x : x # "draft" => TicketsFor(x)' = TicketsFor(x)
      BY <1>1, <3>1, CreatesCounts DEF Parts, Rest, TicketsAreKnown
    <3>3. \A j \in Key : /\ lapses[j] <= lapses'[j] /\ lapses[j] \in Nat /\ lapses'[j] \in Nat
                         /\ claim'[j] = NoTicket => claim[j] = NoTicket /\ j \notin lapsed'
      BY <1>1, <3>1 DEF Claims, Parts, Rest, TicketsAreKnown
    <3>4. QED
      BY <3>2, <3>3
  <2>2. CASE ~Free(k)
    <3>1. UNCHANGED <<tickets, claim, lapsed, lapses>>
      BY <1>1, <2>2 DEF SubmitCommits, claimVars
    <3>2. \A x : TicketsFor(x)' = TicketsFor(x)
      BY <3>1 DEF TicketsFor
    <3>3. TicketsFor("draft") <= 1 /\ \A j \in Key : claim[j] = NoTicket => j \notin lapsed
      BY DEF Parts, Rest, HandledOnce, TicketsAreKnown
    <3>4. \A j \in Key : lapses[j] \in Nat /\ lapses[j] <= lapses'[j]
      BY <1>1, <3>1
    <3>5. QED
      BY <3>1, <3>2, <3>3, <3>4
  <2>3. QED
    BY <2>1, <2>2
<1>5. OneWriter' /\ WritersHold'
  BY <1>1, <1>3 DEF Parts, Rest, OneWriter, WritersHold
<1>6. TicketsAreKnown'
  BY <1>1, <1>2, <1>4, CreationAssumption DEF Parts, Rest, TicketsAreKnown
<1>7. HandledOnce'
  <2>1. ASSUME NEW j \in Key PROVE TicketsFor(j)' <= 1 + lapses'[j]
    <3>1. /\ TicketsFor(j)' = TicketsFor(j) /\ TicketsFor(j) <= 1 + lapses[j]
          /\ TicketsFor(j) \in Nat /\ lapses[j] <= lapses'[j] /\ lapses[j] \in Nat /\ lapses'[j] \in Nat
      BY <1>1, <1>4, TicketsCount DEF Parts, Rest, HandledOnce
    <3>2. QED
      BY <3>1
  <2>2. QED
    BY <1>1, <1>4, <2>1 DEF Parts, Rest, HandledOnce
<1>8. LinkedIsStored'
  BY <1>1 DEF Parts, Rest, LinkedIsStored, Moved
<1>9. QED
  BY <1>5, <1>6, <1>7, <1>8 DEF Rest

(* The first message of a thread creates its ticket, the others find it (routers/mail.ts:163).   *)
LEMMA IngestCommitKeeps ==
  ASSUME Parts, NEW c \in Call, IngestCommits(c)
  PROVE  Rest'
<1>1. /\ At(c, "writing") /\ source = "channel" /\ Ends(c)
      /\ UNCHANGED <<source, claim, lapsed, lapses, draft, mail, overlapped, linked, stored>>
      /\ tickets \in Seq(RequestName) /\ call \in Calls
      /\ "channel" \in RequestName /\ "channel" \notin Key
      /\ thread'.ticket = IF thread.ticket = NoTicket THEN NewTicket ELSE thread.ticket
      /\ NewTicket \in Nat /\ NewTicket # NoTicket
  BY CreationAssumption
     DEF IngestCommits, claimVars, docVars, Parts, TypeOK, RequestName, Calls, NewTicket, NoTicket
<1>2. \A d \in Call : /\ ~At(d, "writing")'
                      /\ call'[d].phase \in {"retrying", "failing"} => call'[d] = call[d]
  BY <1>1, CallEnds DEF At, Parts, Rest, OneWriter
<1>3. /\ TicketsFor("channel")' <= 1
      /\ \A x : x # "channel" => TicketsFor(x)' = TicketsFor(x)
  <2>1. CASE thread.ticket = NoTicket
    BY <1>1, <2>1, CreatesCounts DEF IngestCommits, Parts, Rest, TicketsAreKnown
  <2>2. CASE thread.ticket # NoTicket
    BY <1>1, <2>2 DEF IngestCommits, TicketsFor, Parts, Rest, HandledOnce
  <2>3. QED
    BY <2>1, <2>2
<1>4. OneWriter' /\ WritersHold'
  BY <1>1, <1>2 DEF Parts, Rest, OneWriter, WritersHold
<1>5. TicketsAreKnown' /\ HandledOnce' /\ LinkedIsStored'
  BY <1>1, <1>3, CreationAssumption
     DEF Parts, Rest, TicketsAreKnown, HandledOnce, LinkedIsStored
<1>6. QED
  BY <1>4, <1>5 DEF Rest

(* A mail's commit creates its only ticket, unless it was processed when it was taken up.    *)
LEMMA MailCommitKeeps ==
  ASSUME Parts, NEW c \in Call, MailCommits(c)
  PROVE  Rest'
<1>1. /\ At(c, "writing") /\ source = "mail" /\ Ends(c)
      /\ UNCHANGED <<source, claim, lapsed, lapses, draft, thread, overlapped, linked, stored>>
      /\ tickets \in Seq(RequestName) /\ call \in Calls
      /\ "mail" \in RequestName /\ "mail" \notin Key
      /\ mail'.status = "processed"
      /\ Creates("mail") \/ UNCHANGED tickets
      /\ mail.status = "processed" => overlapped
  BY CreationAssumption
     DEF MailCommits, claimVars, docVars, Parts, Rest, WritersHold, TypeOK, RequestName, Calls
<1>2. \A d \in Call : /\ ~At(d, "writing")'
                      /\ call'[d].phase \in {"retrying", "failing"} => call'[d] = call[d]
  BY <1>1, CallEnds DEF At, Parts, Rest, OneWriter
<1>3. /\ TicketsFor("mail")' <= 1 \/ overlapped
      /\ \A x : x # "mail" => TicketsFor(x)' = TicketsFor(x)
  <2>1. CASE Creates("mail")
    BY <1>1, <2>1, CreatesCounts DEF Parts, Rest, TicketsAreKnown
  <2>2. CASE UNCHANGED tickets
    BY <2>2 DEF TicketsFor, Parts, Rest, HandledOnce
  <2>3. QED
    BY <1>1, <2>1, <2>2
<1>4. OneWriter' /\ WritersHold'
  BY <1>1, <1>2 DEF Parts, Rest, OneWriter, WritersHold
<1>5. TicketsAreKnown' /\ HandledOnce' /\ LinkedIsStored'
  BY <1>1, <1>3, CreationAssumption
     DEF Parts, Rest, TicketsAreKnown, HandledOnce, LinkedIsStored
<1>6. QED
  BY <1>4, <1>5 DEF Rest

(* A mail that arrives again, or fails, goes on from what its row says. *)
LEMMA MailStepKeeps ==
  ASSUME Parts, NEW c \in Call, MailArrives(c) \/ MailTakenUp(c) \/ MailFailureRecorded(c)
  PROVE  Rest'
<1>1. call \in Calls /\ overlapped \in BOOLEAN
      /\ mail \in [status : {"absent", "failed", "processed"}, attempts : Nat, acked : BOOLEAN]
  BY DEF Parts, TypeOK, Calls
<1>2. ASSUME UNCHANGED <<source, tickets, claimVars, draft, thread, overlapped, linked, stored>>,
             \A d \in Call : At(d, "writing")' => At(d, "writing") /\ call'[d] = call[d],
             \A d \in Call : call'[d].phase \in {"retrying", "failing"} => call'[d] = call[d],
             mail'.status # "processed" => mail.status # "processed",
             mail'.status = "processed" => mail.status = "processed",
             mail'.acked => mail'.status = "processed" \/ mail'.attempts >= AttemptLimit
      PROVE  Rest'
  <2>1. OneWriter' /\ WritersHold'
    BY <1>2 DEF Parts, Rest, OneWriter, WritersHold, Free, claimVars
  <2>2. TicketsAreKnown' /\ LinkedIsStored' /\ HandledOnce'
    BY <1>2 DEF Parts, Rest, TicketsAreKnown, LinkedIsStored, HandledOnce, TicketsFor, claimVars
  <2>3. QED
    BY <2>1, <2>2 DEF Rest
<1>3. CASE MailArrives(c)
  <2>1. /\ source = "mail" /\ UNCHANGED <<source, tickets, claimVars, draft, thread, overlapped, linked, stored>>
    BY <1>3 DEF MailArrives, docVars
  <2>2. CASE mail.status = "absent" /\ ~RowHeld /\ Goes(c, "writing", "none") /\ UNCHANGED mail
    <3>1. call'[c].phase = "writing" /\ \A d \in Call \ {c} : call'[d] = call[d]
      BY <1>1, <2>2, CallGoes
    <3>2. QED
      BY <1>1, <2>1, <2>2, <3>1, EnterKeeps DEF RowHeld, rowVars
  <2>3. CASE Goes(c, "retrying", "none") /\ UNCHANGED mail
    <3>1. call'[c].phase = "retrying" /\ \A d \in Call \ {c} : call'[d] = call[d]
      BY <1>1, <2>3, CallGoes
    <3>2. QED
      BY <2>1, <2>3, <3>1, LeaveKeeps DEF rowVars
  <2>4. CASE mail.status # "absent" /\ ~Retriable /\ mail' = [mail EXCEPT !.acked = TRUE] /\ UNCHANGED call
    <3>1. mail.status = "processed" \/ mail.attempts >= AttemptLimit
      BY <1>1, <2>4 DEF Retriable, AttemptLimit
    <3>2. QED
      BY <1>1, <1>2, <2>1, <2>4, <3>1 DEF At
  <2>5. QED
    BY <1>3, <2>2, <2>3, <2>4 DEF MailArrives
<1>4. CASE MailTakenUp(c)
  <2>1. /\ ~RowHeld /\ Goes(c, "writing", "none") /\ source = "mail"
        /\ overlapped' = (overlapped \/ mail.status = "processed")
        /\ UNCHANGED <<source, rowVars, linked, stored>>
    BY <1>4 DEF MailTakenUp, At, docVars, Parts, Rest, WritersHold
  <2>2. call'[c].phase = "writing" /\ \A d \in Call \ {c} : call'[d] = call[d]
    BY <1>1, <2>1, CallGoes
  <2>3. QED
    BY <1>1, <2>1, <2>2, EnterKeeps DEF RowHeld
<1>5. CASE MailFailureRecorded(c)
  <2>1. /\ ~RowHeld /\ Ends(c) /\ UNCHANGED <<source, tickets, claimVars, draft, thread, overlapped, linked, stored>>
    BY <1>5 DEF MailFailureRecorded, docVars
  <2>2. /\ mail'.status = "processed" <=> mail.status = "processed"
        /\ mail'.acked = mail.acked /\ mail.attempts <= mail'.attempts /\ mail'.attempts \in Nat
    <3>1. \/ mail' = mail
          \/ mail' = [mail EXCEPT !.status = IF @ = "absent" THEN "failed" ELSE @, !.attempts = @ + 1]
      BY <1>5 DEF MailFailureRecorded
    <3>2. mail.attempts \in Nat /\ mail.attempts + 1 \in Nat /\ mail.attempts <= mail.attempts + 1
      BY <1>1
    <3>3. CASE mail' = mail
      BY <3>2, <3>3
    <3>4. CASE mail' = [mail EXCEPT !.status = IF @ = "absent" THEN "failed" ELSE @, !.attempts = @ + 1]
      <4>1. /\ mail'.attempts = mail.attempts + 1 /\ mail'.acked = mail.acked
            /\ mail'.status = IF mail.status = "absent" THEN "failed" ELSE mail.status
        BY <1>1, <3>4
      <4>2. QED
        BY <3>2, <4>1
    <3>5. QED
      BY <3>1, <3>3, <3>4
  <2>3. \A d \in Call : /\ At(d, "writing")' => At(d, "writing") /\ call'[d] = call[d]
                        /\ call'[d].phase \in {"retrying", "failing"} => call'[d] = call[d]
    BY <1>1, <2>1, CallEnds DEF At
  <2>4. mail'.acked => mail'.status = "processed" \/ mail'.attempts >= AttemptLimit
    BY <1>1, <2>2 DEF Parts, Rest, HandledOnce, AttemptLimit
  <2>5. QED
    BY <1>2, <2>1, <2>2, <2>3, <2>4
<1>6. QED
  BY <1>3, <1>4, <1>5

(* Nobody but a submission changes a draft while one writes it, and nobody opens one again; *)
(* what a removal deletes has lost its links (intake/vision.ts:62).                          *)
LEMMA DocumentKeeps ==
  ASSUME Parts, DocumentNext
  PROVE  Rest'
<1>1. /\ draft \in [status : {"open", "submitted", "discarded", "deleted"}, ticket : Nat]
      /\ linked \in [Doc -> SUBSET {"draft", "ticket"}] /\ LinkedIsStored
  BY DEF Parts, Rest, TypeOK
<1>2. UNCHANGED <<source, tickets, claim, lapsed, lapses, mail, thread, call, overlapped>>
  BY DEF DocumentNext, UploadChecks, UploadCommits, ChooseDocuments, DeleteDocuments, EraseBytes,
         DiscardChecks, DiscardUpdates, SweepSelects, SweepDeletes, rowVars, callVars, claimVars
<1>3. /\ draft'.status = "open" => draft.status = "open"
      /\ draft' = draft \/ ~RowHeld
  <2>1. CASE DiscardUpdates
    BY <1>1, <2>1 DEF DiscardUpdates
  <2>2. CASE SweepDeletes
    BY <1>1, <2>2 DEF SweepDeletes
  <2>3. CASE ~DiscardUpdates /\ ~SweepDeletes
    BY <2>3 DEF DocumentNext, UploadChecks, UploadCommits, ChooseDocuments, DeleteDocuments, EraseBytes,
         DiscardChecks, SweepSelects, rowVars
  <2>4. QED
    BY <2>1, <2>2, <2>3
<1>4. LinkedIsStored'
  <2>1. CASE UNCHANGED <<linked, stored>>
    BY <1>1, <2>1 DEF LinkedIsStored
  <2>2. ASSUME NEW d \in Doc, UploadCommits(d) PROVE LinkedIsStored'
    BY <1>1, <2>2 DEF UploadCommits, LinkedIsStored
  <2>3. ASSUME NEW r \in Remover, DeleteDocuments(r) PROVE LinkedIsStored'
    <3>1. PICK gone : /\ gone \subseteq removing[r].docs
                      /\ stored' = stored \ gone
                      /\ linked' = IF removing[r].docs = {} THEN linked
                                   ELSE [d \in Doc |-> IF d \in gone THEN {} ELSE linked[d] \ {"draft"}]
      BY <2>3 DEF DeleteDocuments
    <3>2. CASE removing[r].docs = {}
      BY <1>1, <3>1, <3>2 DEF LinkedIsStored
    <3>3. CASE removing[r].docs # {}
      BY <1>1, <3>1, <3>3 DEF LinkedIsStored
    <3>4. QED
      BY <3>2, <3>3
  <2>4. QED
    BY <2>1, <2>2, <2>3 DEF DocumentNext, UploadChecks, ChooseDocuments, EraseBytes,
         DiscardChecks, DiscardUpdates, SweepSelects, SweepDeletes
<1>5. OneWriter' /\ WritersHold'
  BY <1>2, <1>3 DEF Parts, Rest, OneWriter, WritersHold, RowHeld, At, Free
<1>6. TicketsAreKnown' /\ HandledOnce'
  BY <1>2, <1>3 DEF Parts, Rest, TicketsAreKnown, HandledOnce, TicketsFor
<1>7. QED
  BY <1>4, <1>5, <1>6 DEF Rest

(* Every step of a call keeps the rest. *)
LEMMA CallKeeps ==
  ASSUME Parts, NEW c \in Call,
         \/ RollsBack(c) \/ PortalCommits(c) \/ SubmitCommits(c) \/ IngestCommits(c)
         \/ MailArrives(c) \/ MailTakenUp(c) \/ MailCommits(c) \/ MailFailureRecorded(c)
         \/ \E k \in Key : PortalClaims(c, k) \/ SubmitClaims(c, k)
         \/ \E m \in Message : IngestClaims(c, m)
  PROVE  Rest'
<1>1. call \in Calls /\ overlapped \in BOOLEAN
  BY DEF Parts, TypeOK, Calls
<1>2. CASE RollsBack(c)
  <2>1. /\ UNCHANGED <<source, rowVars, overlapped, linked, stored>>
        /\ \/ source = "mail" /\ Goes(c, "failing", "none")
           \/ Ends(c)
    BY <1>2 DEF RollsBack, docVars
  <2>2. \A d \in Call : \/ call'[d] = call[d]
                        \/ /\ call'[d].phase # "writing"
                           /\ call'[d].phase \in {"retrying", "failing"} => source = "mail"
    BY <1>1, <2>1, CallGoes, CallEnds
  <2>3. QED
    BY <2>1, <2>2, LeaveKeeps
<1>3. ASSUME UNCHANGED <<source, rowVars, overlapped, linked, stored>>, UNCHANGED call PROVE Rest'
  BY <1>3, LeaveKeeps
<1>4. ASSUME NEW k \in Key, PortalClaims(c, k) PROVE Rest'
  <2>1. source = "portal" /\ ~KeyHeld(k) /\ UNCHANGED <<source, rowVars, overlapped, linked, stored>>
    BY <1>4 DEF PortalClaims, docVars
  <2>2. CASE Free(k) /\ Goes(c, "writing", k)
    <3>1. call'[c].phase = "writing" /\ call'[c].key = k /\ \A d \in Call \ {c} : call'[d] = call[d]
      BY <1>1, <2>2, CallGoes
    <3>2. QED
      BY <1>1, <2>1, <2>2, <3>1, EnterKeeps DEF KeyHeld
  <2>3. QED
    BY <1>3, <1>4, <2>1, <2>2 DEF PortalClaims
<1>5. ASSUME NEW k \in Key, SubmitClaims(c, k) PROVE Rest'
  <2>1. source = "draft" /\ ~RowHeld /\ UNCHANGED <<source, rowVars, overlapped, linked, stored>>
    BY <1>5 DEF SubmitClaims, docVars
  <2>2. CASE Submittable /\ Goes(c, "writing", k)
    <3>1. call'[c].phase = "writing" /\ call'[c].key = k /\ \A d \in Call \ {c} : call'[d] = call[d]
      BY <1>1, <2>2, CallGoes
    <3>2. QED
      BY <1>1, <2>1, <2>2, <3>1, EnterKeeps DEF RowHeld, Submittable
  <2>3. QED
    BY <1>3, <1>5, <2>1, <2>2 DEF SubmitClaims
<1>6. ASSUME NEW m \in Message, IngestClaims(c, m) PROVE Rest'
  <2>1. source = "channel" /\ ~RowHeld /\ UNCHANGED <<source, rowVars, overlapped, linked, stored>>
    BY <1>6 DEF IngestClaims, docVars
  <2>2. CASE Goes(c, "writing", m)
    <3>1. call'[c].phase = "writing" /\ call'[c].key = m /\ \A d \in Call \ {c} : call'[d] = call[d]
      BY <1>1, <2>2, CallGoes
    <3>2. QED
      BY <1>1, <2>1, <3>1, EnterKeeps DEF RowHeld
  <2>3. QED
    BY <1>3, <1>6, <2>1, <2>2 DEF IngestClaims
<1>7. QED
  BY <1>2, <1>4, <1>5, <1>6, PortalCommitKeeps, SubmitCommitKeeps, IngestCommitKeeps, MailCommitKeeps,
     MailStepKeeps

(* Every step of TicketCreation keeps the invariant. *)
LEMMA CreationStepKeeps == Parts /\ [Next]_vars => Parts'
<1> SUFFICES ASSUME Parts, [Next]_vars PROVE Parts'
  OBVIOUS
<1>1. TypeOK'
  BY CreationTypesKept DEF Parts, Rest
<1> SUFFICES Rest'
  BY <1>1 DEF Parts
<1>2. CASE CallNext
  BY <1>2, CallKeeps DEF CallNext
<1>3. CASE DocumentNext
  BY <1>3, DocumentKeeps
<1>4. CASE Restart
  <2>1. /\ UNCHANGED <<source, rowVars, overlapped, linked, stored>>
        /\ \A d \in Call : call'[d].phase = "rest"
    BY <1>4 DEF Restart, Resting
  <2>2. QED
    BY <2>1, LeaveKeeps
<1>5. ASSUME NEW k \in Key, ClaimLapses(k) PROVE Rest'
  <2>1. /\ UNCHANGED <<source, tickets, claim, lapses, draft, mail, thread, call, overlapped, linked, stored>>
        /\ lapsed' = lapsed \cup {k} /\ claim[k] # NoTicket
    BY <1>5 DEF ClaimLapses, callVars, docVars
  <2>2. OneWriter' /\ WritersHold'
    BY <2>1 DEF Parts, Rest, OneWriter, WritersHold, At, Free
  <2>3. TicketsAreKnown' /\ HandledOnce' /\ LinkedIsStored'
    BY <2>1 DEF Parts, Rest, TicketsAreKnown, HandledOnce, LinkedIsStored, TicketsFor
  <2>4. QED
    BY <2>2, <2>3 DEF Rest
<1>6. CASE UNCHANGED vars
  BY <1>6, LeaveKeeps DEF vars, callVars, docVars
<1>7. QED
  BY <1>2, <1>3, <1>4, <1>5, <1>6 DEF Next

(* The documents that stay: no step of TicketCreation unlinks a document from its ticket,    *)
(* deletes its row or, unless its removal had begun, erases its contents.                    *)
LEMMA StepKeepsDocuments ==
  ASSUME Parts, [Next]_vars, NEW d \in Doc, "ticket" \in linked[d]
  PROVE  /\ "ticket" \in linked'[d] /\ d \in stored'
         /\ d \in bytes /\ ~Doomed(d) => d \in bytes'
<1>1. /\ linked \in [Doc -> SUBSET {"draft", "ticket"}] /\ d \in stored
  BY DEF Parts, Rest, TypeOK, LinkedIsStored
<1>2. CASE UNCHANGED <<linked, stored, bytes>>
  BY <1>1, <1>2
<1>3. ASSUME NEW c \in Call, SubmitCommits(c)
      PROVE  "ticket" \in linked'[d] /\ d \in stored' /\ bytes' = bytes
  BY <1>1, <1>3 DEF SubmitCommits, Moved
<1>4. ASSUME NEW e \in Doc, UploadCommits(e)
      PROVE  "ticket" \in linked'[d] /\ d \in stored' /\ bytes \subseteq bytes'
  BY <1>1, <1>4 DEF UploadCommits
<1>5. ASSUME NEW r \in Remover, DeleteDocuments(r)
      PROVE  "ticket" \in linked'[d] /\ d \in stored' /\ bytes' = bytes
  <2>1. PICK gone : /\ gone = {e \in removing[r].docs : Orphaned(e)}
                    /\ stored' = stored \ gone
                    /\ linked' = IF removing[r].docs = {} THEN linked
                                 ELSE [e \in Doc |-> IF e \in gone THEN {} ELSE linked[e] \ {"draft"}]
                    /\ bytes' = bytes
    BY <1>5 DEF DeleteDocuments
  <2>2. d \notin gone
    BY <2>1 DEF Orphaned
  <2>3. QED
    BY <1>1, <2>1, <2>2
<1>6. ASSUME NEW r \in Remover, EraseBytes(r)
      PROVE  /\ "ticket" \in linked'[d] /\ d \in stored'
             /\ d \in bytes /\ ~Doomed(d) => d \in bytes'
  BY <1>1, <1>6 DEF EraseBytes, Doomed
<1>7. QED
  BY <1>1, <1>2, <1>3, <1>4, <1>5, <1>6
     DEF Next, CallNext, DocumentNext, RollsBack, PortalCommits, IngestCommits, MailArrives, MailTakenUp,
         MailCommits, MailFailureRecorded, PortalClaims, SubmitClaims, IngestClaims, UploadChecks,
         ChooseDocuments, DiscardChecks, DiscardUpdates, SweepSelects, SweepDeletes, Restart, ClaimLapses,
         vars, docVars

-----------------------------------------------------------------------------
(* Ordinals and instants. *)

(* A set of naturals that is not empty has a least element. *)
LEMMA Least ==
  ASSUME NEW S, S \subseteq Nat, S # {}
  PROVE  \E x \in S : \A y \in S : x <= y
<1>1. IsWellFoundedOn({ss \in Nat \X Nat : ss[1] < ss[2]}, Nat)
  BY NatLessThanWellFounded, Zenon DEF OpToRel
<1>2. PICK R : R = {ss \in Nat \X Nat : ss[1] < ss[2]}
  OBVIOUS
<1>3. \E x \in S : \A y \in S : ~ (<<y, x>> \in R)
  BY <1>1, <1>2, WFMin, Zenon
<1>4. \A x, y \in Nat : <<y, x>> \in R <=> y < x
  BY <1>2
<1>5. PICK x \in S : \A y \in S : ~ (<<y, x>> \in R)
  BY <1>3
<1>6. ASSUME NEW y \in S PROVE x <= y
  <2>1. x \in Nat /\ y \in Nat /\ ~ (<<y, x>> \in R)
    BY <1>5
  <2>2. ~(y < x)
    BY <1>4, <2>1
  <2>3. QED
    BY <2>1, <2>2
<1>7. QED
  BY <1>6

(* A set of ordinals that is not empty has a greatest element. *)
LEMMA Greatest ==
  ASSUME NEW S, S \subseteq Ordinal, S # {}
  PROVE  \E x \in S : \A y \in S : y <= x
<1> DEFINE Gap == {n \in Nat : \E o \in S : n = MaxTime - o}
<1>1. MaxTime \in Nat /\ \A o \in S : o \in Nat /\ o <= MaxTime
  BY RecurrenceAssumption DEF Ordinal
<1>2. Gap # {} /\ Gap \subseteq Nat
  <2>1. PICK o \in S : TRUE
    OBVIOUS
  <2>2. MaxTime - o \in Gap
    BY <1>1
  <2>3. QED
    BY <2>2
<1>3. PICK n \in Gap : \A m \in Gap : n <= m
  <2> HIDE DEF Gap
  <2> QED
    BY <1>2, Least
<1>4. PICK x \in S : n = MaxTime - x
  OBVIOUS
<1>5. ASSUME NEW y \in S PROVE y <= x
  <2>1. MaxTime - y \in Gap
    BY <1>1
  <2>2. n <= MaxTime - y
    BY <1>3, <2>1
  <2>3. QED
    BY <1>1, <1>4, <2>2
<1>6. QED
  BY <1>5

(* A later ordinal of a rule names a later instant, and back (scheduling.ts:98). *)
LEMMA OrdinalsAscend ==
  ASSUME NEW r \in [start : Nat, every : Nat \ {0}], NEW o \in Nat, NEW p \in Nat
  PROVE  /\ OccurrenceAt(r, o) \in Nat /\ r.start <= OccurrenceAt(r, o)
         /\ o < p <=> OccurrenceAt(r, o) < OccurrenceAt(r, p)
         /\ o = p <=> OccurrenceAt(r, o) = OccurrenceAt(r, p)
         /\ (OccurrenceAt(r, o) - r.start) \div r.every = o
<1>1. PICK e \in Nat, a \in Nat : e = r.every /\ a = r.start /\ e > 0
  OBVIOUS
<1>2. o * e \in Nat /\ p * e \in Nat
  BY <1>1
<1>3. o < p => o * e < p * e
  BY <1>1
<1>4. p < o => p * e < o * e
  BY <1>1
<1>5. (o * e) \div e = o
  BY <1>1
<1>6. OccurrenceAt(r, o) = a + o * e /\ OccurrenceAt(r, p) = a + p * e
  BY <1>1 DEF OccurrenceAt
<1>7. QED
  BY <1>1, <1>2, <1>3, <1>4, <1>5, <1>6

(* A page's next ordinal is the least of what it has left. *)
LEMMA TurnIsLeast ==
  ASSUME NEW s \in Sweeper, sweep[s].todo \subseteq Ordinal, sweep[s].todo # {}
  PROVE  Turn(s) \in sweep[s].todo /\ \A p \in sweep[s].todo : Turn(s) <= p
<1>1. sweep[s].todo \subseteq Nat
  BY DEF Ordinal
<1>2. \E o \in sweep[s].todo : \A p \in sweep[s].todo : o <= p
  BY <1>1, Least
<1>3. QED
  BY <1>2 DEF Turn

(* Before any edit the cursor stands right behind the greatest ordinal that is claimed       *)
(* (occurrenceOrdinalAfter, scheduling.ts:75).                                          *)
LEMMA CursorFollows ==
  ASSUME RecurrenceTypeOK, OrdinalsHold, edits = 0, Claimed # {}
  PROVE  \E m \in Claimed : /\ \A o \in Claimed : o <= m
                            /\ StartOrdinal(rule) = m + 1
<1>1. /\ rule \in [start : Nat, every : Nat \ {0}] /\ Claimed \subseteq Ordinal
      /\ \A o \in Claimed : o \in Nat /\ occurrence[o].at = OccurrenceAt(rule, o)
  BY DEF RecurrenceTypeOK, OrdinalsHold, Claimed, Ordinal
<1>2. PICK m \in Claimed : \A o \in Claimed : o <= m
  BY <1>1, Greatest
<1>3. PICK i : i = OccurrenceAt(rule, m)
  OBVIOUS
<1>4. i \in Nat /\ i \in Instants
  BY <1>1, <1>3, OrdinalsAscend DEF Instants
<1>5. ASSUME NEW u \in Instants PROVE u \in Nat /\ u <= i
  <2>1. PICK o \in Claimed : u = OccurrenceAt(rule, o)
    BY <1>1 DEF Instants
  <2>2. o \in Nat /\ m \in Nat /\ o <= m
    BY <1>1, <1>2
  <2>3. o < m \/ o = m
    BY <2>2
  <2>4. QED
    BY <1>1, <1>3, <2>1, <2>2, <2>3, OrdinalsAscend
<1>6. LastOccurrence = i
  <2>1. LastOccurrence \in Instants /\ \A u \in Instants : u <= LastOccurrence
    BY <1>4, <1>5 DEF LastOccurrence
  <2>2. QED
    BY <1>4, <1>5, <2>1
<1>7. m \in Nat /\ rule.start <= i /\ (i - rule.start) \div rule.every = m /\ rule.start \in Nat
  BY <1>1, <1>3, OrdinalsAscend
<1>8. StartOrdinal(rule) = m + 1
  <2>1. Instants # {} /\ ~(LastOccurrence < rule.start)
    BY <1>4, <1>6, <1>7
  <2>2. QED
    BY <1>6, <1>7, <2>1 DEF StartOrdinal
<1>9. QED
  BY <1>2, <1>8

(* What is due is due, and what comes before it is claimed or due as well. *)
LEMMA DueHasNoGap ==
  ASSUME RecurrenceTypeOK, NEW r \in [start : Nat, every : Nat \ {0}], NEW now \in 0..MaxTime
  PROVE  /\ Due(r, now) \subseteq Ordinal
         /\ \A o \in Due(r, now) : OccurrenceAt(r, o) <= now
         /\ edits = 0 /\ r = rule /\ OrdinalsHold /\ NoGap =>
              \A o \in Due(r, now), p \in Ordinal : p < o => p \in Claimed \cup Due(r, now)
<1> DEFINE known == {o \in Claimed : occurrence[o].at >= LastOccurrence /\ occurrence[o].at <= now}
           all == {o \in Ordinal : o >= StartOrdinal(r) /\ OccurrenceAt(r, o) <= now} \ known
           Before(o) == {q \in all : q < o}
<1>1. Due(r, now) = {o \in all : Cardinality(Before(o)) < Budget}
  BY DEF Due
<1>2. all \subseteq Ordinal /\ \A o \in all : OccurrenceAt(r, o) <= now
  OBVIOUS
<1>3. ASSUME edits = 0, r = rule, OrdinalsHold, NoGap,
             NEW o \in Due(r, now), NEW p \in Ordinal, p < o
      PROVE  p \in Claimed \cup Due(r, now)
  <2>1. o \in all /\ Cardinality(Before(o)) < Budget
    BY <1>1, <1>3
  <2>2. o \in Nat /\ p \in Nat /\ OccurrenceAt(r, p) < OccurrenceAt(r, o)
    BY <1>2, <1>3, <2>1, OrdinalsAscend DEF Ordinal
  <2>3. OccurrenceAt(r, p) <= now
    BY <1>2, <2>1, <2>2, OrdinalsAscend, RecurrenceAssumption
  <2>4. p >= StartOrdinal(r) \/ p \in Claimed
    <3>1. CASE Claimed = {}
      BY <2>2, <3>1 DEF StartOrdinal, Instants
    <3>2. CASE Claimed # {}
      <4>1. PICK m \in Claimed : StartOrdinal(rule) = m + 1
        BY <1>3, <3>2, CursorFollows
      <4>2. m \in Nat /\ (p >= m + 1 \/ p = m \/ p < m)
        BY <2>2, <4>1 DEF Claimed, Ordinal
      <4>3. QED
        BY <1>3, <4>1, <4>2 DEF NoGap
    <3>3. QED
      BY <3>1, <3>2
  <2>5. CASE p \in all
    <3>1. Before(p) \subseteq Before(o)
      BY <1>2, <1>3, <2>2 DEF Ordinal
    <3>2. IsFiniteSet(Before(o))
      <4>1. IsFiniteSet(Ordinal)
        BY RecurrenceAssumption, FS_Interval DEF Ordinal
      <4>2. Before(o) \subseteq Ordinal
        OBVIOUS
      <4>3. QED
        BY <4>1, <4>2, FS_Subset
    <3> HIDE DEF Before
    <3>3. /\ Cardinality(Before(p)) <= Cardinality(Before(o))
          /\ Cardinality(Before(p)) \in Nat /\ Cardinality(Before(o)) \in Nat
      BY <3>1, <3>2, FS_Subset, FS_CardinalityType
    <3>4. Cardinality(Before(p)) < Budget
      BY <2>1, <3>3, RecurrenceAssumption
    <3>5. QED
      BY <1>1, <2>5, <3>4
  <2>6. CASE p \notin all
    BY <1>3, <2>3, <2>4, <2>6
  <2>7. QED
    BY <2>5, <2>6
<1>4. QED
  BY <1>1, <1>2, <1>3

-----------------------------------------------------------------------------
(* The invariant of Recurrences, step by step. *)

RuleState == [start : Nat, every : Nat \ {0}]
Sweeps == [Sweeper -> [step : {"rest", "read", "going", "writing"}, rule : RuleState,
                       now : 0..MaxTime, todo : SUBSET Ordinal]]
RuleTypes ==
  /\ rule \in RuleState /\ edits \in Nat
  /\ occurrence \in [Ordinal -> [at : Nat, ticket : Nat]]
  /\ sweep \in Sweeps

(* A ticket of the rule for at most every period that is claimed. *)
Counted == edits = 0 => TicketsFor("rule") <= Cardinality(Claimed)
RuleRest == PageIsDue /\ OrdinalsHold /\ NoGap /\ OneCommits /\ Counted
RuleParts == Parts /\ RuleTypes /\ RuleRest

(* What an administrator may give a rule is a rule. *)
LEMMA EditedRules == [start : Starts, every : Intervals] \subseteq RuleState
<1>1. ASSUME NEW r \in [start : Starts, every : Intervals] PROVE r \in RuleState
  <2>1. r.start \in Nat /\ r.every \in Nat \ {0} /\ r = [start |-> r.start, every |-> r.every]
    BY RecurrenceAssumption
  <2>2. QED
    BY <2>1 DEF RuleState
<1>2. QED
  BY <1>1

(* The periods that are claimed are finitely many ordinals. *)
LEMMA ClaimedFinite ==
  /\ Claimed \subseteq Ordinal /\ IsFiniteSet(Claimed) /\ Cardinality(Claimed) \in Nat
<1>1. Claimed \subseteq Ordinal
  BY DEF Claimed
<1>2. IsFiniteSet(Ordinal)
  BY RecurrenceAssumption, FS_Interval DEF Ordinal
<1>3. QED
  BY <1>1, <1>2, FS_Subset, FS_CardinalityType

(* A sweep that goes on has its new page, or is over; the others are as they were. *)
LEMMA SweepGoesOn ==
  ASSUME sweep \in Sweeps, NEW s \in Sweeper, NEW todo \in SUBSET Ordinal, GoesOn(s, todo)
  PROVE  /\ sweep' \in Sweeps
         /\ \A t \in Sweeper \ {s} : sweep'[t] = sweep[t]
         /\ sweep'[s].todo = todo
         /\ todo = {} => sweep'[s].step = "rest"
         /\ todo # {} => /\ sweep'[s].step = "going" /\ sweep'[s].rule = sweep[s].rule
                         /\ sweep'[s].now = sweep[s].now
<1>1. CASE todo = {}
  <2>1. Asleep \in [step : {"rest", "read", "going", "writing"}, rule : RuleState,
                    now : 0..MaxTime, todo : SUBSET Ordinal]
    BY RecurrenceAssumption DEF Asleep, RuleState
  <2>2. sweep' = [sweep EXCEPT ![s] = Asleep] /\ Asleep.todo = {} /\ Asleep.step = "rest"
    BY <1>1 DEF GoesOn, Asleep
  <2>3. QED
    BY <1>1, <2>1, <2>2 DEF Sweeps
<1>2. CASE todo # {}
  <2>1. sweep' = [sweep EXCEPT ![s].step = "going", ![s].todo = todo]
    BY <1>2 DEF GoesOn
  <2>2. QED
    BY <1>2, <2>1 DEF Sweeps
<1>3. QED
  BY <1>1, <1>2

(* Nothing is claimed and nobody sweeps before the first sweep. *)
LEMMA RuleInitHolds == RecurrenceInit => RuleParts
<1> SUFFICES ASSUME RecurrenceInit PROVE RuleParts
  OBVIOUS
<1>1. Parts
  BY BlankHolds DEF RecurrenceInit, Init
<1>2. rule \in RuleState
  <2>1. CASE rule = [start |-> 0, every |-> 1]
    BY <2>1 DEF RuleState
  <2>2. CASE rule \in [start : Starts, every : Intervals]
    BY <2>2, EditedRules
  <2>3. QED
    BY <2>1, <2>2 DEF RecurrenceInit, Asleep
<1>3. /\ \A o \in Ordinal : occurrence[o] = Unclaimed
      /\ occurrence \in [Ordinal -> [at : Nat, ticket : Nat]]
      /\ edits = 0
  BY RecurrenceAssumption DEF RecurrenceInit, Unclaimed, NoTicket
<1>4. sweep \in Sweeps /\ \A s \in Sweeper : sweep[s].step = "rest" /\ sweep[s].todo = {}
  BY RecurrenceAssumption DEF RecurrenceInit, Asleep, RuleState, Sweeps
<1>5. Claimed = {}
  BY <1>3 DEF Claimed
<1>6. TicketsFor("rule") = 0
  <2>1. {t \in DOMAIN tickets : tickets[t] = "rule"} = {}
    BY DEF RecurrenceInit, Init, Blank
  <2>2. QED
    BY <2>1, FS_EmptySet DEF TicketsFor
<1>7. RuleRest
  BY <1>4, <1>5, <1>6, FS_EmptySet
     DEF RuleRest, PageIsDue, OrdinalsHold, NoGap, OneCommits, Counted
<1>8. QED
  BY <1>1, <1>2, <1>3, <1>4, <1>7 DEF RuleParts, RuleTypes

(* Nobody else creates tickets of a rule. *)
LEMMA OthersCreateNone ==
  ASSUME Parts, [Next]_vars
  PROVE  TicketsFor("rule")' = TicketsFor("rule")
<1>1. tickets \in Seq(RequestName) /\ {"draft", "mail", "channel"} \cup Key \subseteq RequestName
      /\ "rule" \notin {"draft", "mail", "channel"} \cup Key
  BY CreationAssumption DEF Parts, TypeOK, RequestName
<1>2. ASSUME NEW x \in {"draft", "mail", "channel"} \cup Key, Creates(x)
      PROVE  TicketsFor("rule")' = TicketsFor("rule")
  BY <1>1, <1>2, CreatesCounts
<1>3. CASE tickets' = tickets
  BY <1>3 DEF TicketsFor
<1>4. ASSUME NEW c \in Call, PortalCommits(c)
      PROVE  \E x \in {"draft", "mail", "channel"} \cup Key : Creates(x)
  BY <1>4 DEF PortalCommits, Parts, Rest, WritersHold
<1>5. ASSUME NEW c \in Call, SubmitCommits(c) \/ IngestCommits(c) \/ MailCommits(c)
      PROVE  tickets' = tickets \/ \E x \in {"draft", "mail", "channel"} \cup Key : Creates(x)
  BY <1>5 DEF SubmitCommits, IngestCommits, MailCommits
<1>6. QED
  BY <1>2, <1>3, <1>4, <1>5
     DEF Next, CallNext, DocumentNext, RollsBack, MailArrives, MailTakenUp,
         MailFailureRecorded, PortalClaims, SubmitClaims, IngestClaims, UploadChecks, UploadCommits,
         ChooseDocuments, DeleteDocuments, EraseBytes, DiscardChecks, DiscardUpdates, SweepSelects,
         SweepDeletes, Restart, ClaimLapses, vars, rowVars

(* A ticket of the rule leaves every other request's tickets as they were. *)
LEMMA RuleCreates ==
  ASSUME Parts, Creates("rule") \/ UNCHANGED tickets,
         UNCHANGED <<source, claimVars, draft, mail, thread, callVars, docVars>>
  PROVE  /\ Parts'
         /\ TicketsFor("rule") \in Nat /\ TicketsFor("rule")' \in Nat
         /\ TicketsFor("rule")' <= TicketsFor("rule") + 1
<1>1. tickets \in Seq(RequestName) /\ "rule" \in RequestName
      /\ "rule" \notin {"draft", "mail", "channel"} \cup Key
      /\ TicketsFor("rule") \in Nat
  BY CreationAssumption, TicketsCount DEF Parts, TypeOK, RequestName
<1>2. /\ tickets' \in Seq(RequestName)
      /\ \A x : x # "rule" => TicketsFor(x)' = TicketsFor(x)
      /\ TicketsFor("rule")' = TicketsFor("rule") \/ TicketsFor("rule")' = TicketsFor("rule") + 1
  <2>1. CASE Creates("rule")
    BY <1>1, <2>1, CreatesCounts
  <2>2. CASE UNCHANGED tickets
    BY <1>1, <2>2 DEF TicketsFor
  <2>3. QED
    BY <2>1, <2>2
<1>3. TypeOK'
  BY <1>2 DEF Parts, TypeOK, RequestName, claimVars, callVars, docVars
<1>4. OneWriter' /\ WritersHold' /\ LinkedIsStored'
  BY DEF Parts, Rest, OneWriter, WritersHold, LinkedIsStored, At, Free, claimVars, callVars, docVars
<1>5. TicketsAreKnown' /\ HandledOnce'
  BY <1>1, <1>2 DEF Parts, Rest, TicketsAreKnown, HandledOnce, claimVars, callVars
<1>6. QED
  BY <1>1, <1>2, <1>3, <1>4, <1>5 DEF Parts, Rest

(* A sweep that goes on with what is due and leaves no gap keeps the order of the periods. *)
LEMMA GoingOnKeeps ==
  ASSUME RuleParts, Parts', UNCHANGED <<rule, edits, occurrence>>,
         TicketsFor("rule")' = TicketsFor("rule"),
         NEW s \in Sweeper, NEW todo \in SUBSET Ordinal, GoesOn(s, todo), sweep[s].step # "rest",
         \A o \in todo : OccurrenceAt(sweep[s].rule, o) <= sweep[s].now,
         edits = 0 => \A o \in todo, p \in Ordinal : p < o => p \in Claimed \cup todo
  PROVE  RuleParts'
<1>1. sweep \in Sweeps /\ Claimed' = Claimed
  BY DEF RuleParts, RuleTypes, Claimed
<1>2. /\ sweep' \in Sweeps
      /\ \A t \in Sweeper \ {s} : sweep'[t] = sweep[t]
      /\ sweep'[s].todo = todo
      /\ todo = {} => sweep'[s].step = "rest"
      /\ todo # {} => /\ sweep'[s].step = "going" /\ sweep'[s].rule = sweep[s].rule
                      /\ sweep'[s].now = sweep[s].now
  BY <1>1, SweepGoesOn
<1>3. RuleTypes'
  BY <1>2 DEF RuleParts, RuleTypes
<1>4. PageIsDue'
  BY <1>2 DEF RuleParts, RuleRest, PageIsDue
<1>5. OrdinalsHold'
  BY <1>1, <1>2 DEF RuleParts, RuleRest, OrdinalsHold
<1>6. NoGap'
  BY <1>1, <1>2 DEF RuleParts, RuleRest, NoGap
<1>7. OneCommits'
  BY <1>1, <1>2 DEF RuleParts, RuleRest, OneCommits, Turn
<1>8. Counted'
  BY <1>1 DEF RuleParts, RuleRest, Counted
<1>9. QED
  BY <1>3, <1>4, <1>5, <1>6, <1>7, <1>8 DEF RuleParts, RuleRest

(* What a sweep's turn is, and that what comes before it is claimed before any edit. *)
LEMMA TurnFacts ==
  ASSUME RuleParts, NEW s \in Sweeper, sweep[s].step \in {"going", "writing"}
  PROVE  /\ Turn(s) \in sweep[s].todo /\ sweep[s].todo \subseteq Ordinal
         /\ Turn(s) \in Ordinal /\ Slot(s) \in Nat /\ Slot(s) <= sweep[s].now /\ Slot(s) <= MaxTime
         /\ \A p \in sweep[s].todo : Turn(s) <= p
         /\ edits = 0 => /\ sweep[s].rule = rule /\ Slot(s) = OccurrenceAt(rule, Turn(s))
                         /\ \A p \in Ordinal : p < Turn(s) => p \in Claimed
<1>1. /\ sweep[s].todo \subseteq Ordinal /\ sweep[s].todo # {} /\ sweep[s].rule \in RuleState
      /\ sweep[s].now \in 0..MaxTime /\ MaxTime \in Nat
  BY RecurrenceAssumption DEF RuleParts, RuleTypes, RuleRest, Sweeps, PageIsDue
<1>2. Turn(s) \in sweep[s].todo /\ \A p \in sweep[s].todo : Turn(s) <= p
  BY <1>1, TurnIsLeast
<1>3. Slot(s) = OccurrenceAt(sweep[s].rule, Turn(s)) /\ Slot(s) <= sweep[s].now
  BY <1>2 DEF Slot, RuleParts, RuleRest, PageIsDue
<1>4. Turn(s) \in Nat /\ Slot(s) \in Nat
  BY <1>1, <1>2, <1>3, OrdinalsAscend DEF Ordinal, RuleState
<1>5. Slot(s) <= MaxTime
  BY <1>1, <1>3, <1>4
<1>6. ASSUME edits = 0
      PROVE  /\ sweep[s].rule = rule
             /\ \A p \in Ordinal : p < Turn(s) => p \in Claimed
  <2>1. sweep[s].rule = rule
    BY <1>6 DEF RuleParts, RuleRest, OrdinalsHold
  <2>2. ASSUME NEW p \in Ordinal, p < Turn(s) PROVE p \in Claimed
    <3>1. p \in Claimed \cup sweep[s].todo
      BY <1>2, <1>6, <2>2 DEF RuleParts, RuleRest, NoGap
    <3>2. p \notin sweep[s].todo
      BY <1>2, <1>4, <2>2 DEF Ordinal
    <3>3. QED
      BY <3>1, <3>2
  <2>3. QED
    BY <2>1, <2>2
<1>7. QED
  BY <1>1, <1>2, <1>3, <1>4, <1>5, <1>6

(* A period that somebody has claimed is skipped; one that nobody has is written by one      *)
(* process at a time, since the key holds back the others (scheduling-runtime.ts:76).        *)
LEMMA ClaimPeriodKeeps ==
  ASSUME RuleParts, NEW s \in Sweeper, ClaimPeriod(s)
  PROVE  RuleParts'
<1>1. /\ UNCHANGED <<vars, rule, edits, occurrence>> /\ sweep[s].step = "going" /\ ~SlotHeld(s)
      /\ sweep \in Sweeps
  BY DEF ClaimPeriod, RuleParts, RuleTypes
<1>2. Parts' /\ TicketsFor("rule")' = TicketsFor("rule")
  BY <1>1, CreationStepKeeps, OthersCreateNone DEF RuleParts
<1>3. /\ Turn(s) \in sweep[s].todo /\ sweep[s].todo \subseteq Ordinal /\ Turn(s) \in Ordinal
      /\ edits = 0 => /\ sweep[s].rule = rule /\ Slot(s) = OccurrenceAt(rule, Turn(s))
                      /\ \A p \in Ordinal : p < Turn(s) => p \in Claimed
  BY <1>1, TurnFacts
<1>4. edits = 0 /\ Slot(s) \in Instants => Turn(s) \in Claimed
  <2>1. SUFFICES ASSUME edits = 0, NEW o \in Claimed, occurrence[o].at = Slot(s)
                 PROVE  Turn(s) \in Claimed
    BY DEF Instants
  <2>2. OccurrenceAt(rule, o) = OccurrenceAt(rule, Turn(s)) /\ o \in Nat /\ Turn(s) \in Nat
    BY <1>3, <2>1 DEF RuleParts, RuleRest, OrdinalsHold, Claimed, Ordinal
  <2>3. rule \in [start : Nat, every : Nat \ {0}]
    BY DEF RuleParts, RuleTypes, RuleState
  <2>4. QED
    BY <2>1, <2>2, <2>3, OrdinalsAscend
<1>5. CASE Turn(s) \in Claimed \/ Slot(s) \in Instants
  <2>1. GoesOn(s, sweep[s].todo \ {Turn(s)})
    BY <1>5 DEF ClaimPeriod
  <2>2. PICK todo \in SUBSET Ordinal : todo = sweep[s].todo \ {Turn(s)}
    BY <1>3
  <2>3. \A o \in todo : OccurrenceAt(sweep[s].rule, o) <= sweep[s].now
    BY <2>2 DEF RuleParts, RuleRest, PageIsDue
  <2>4. edits = 0 => \A o \in todo, p \in Ordinal : p < o => p \in Claimed \cup todo
    BY <1>4, <1>5, <2>2 DEF RuleParts, RuleRest, NoGap
  <2>5. QED
    BY <1>1, <1>2, <2>1, <2>2, <2>3, <2>4, GoingOnKeeps
<1>6. CASE Turn(s) \notin Claimed /\ Slot(s) \notin Instants
  <2>1. sweep' = [sweep EXCEPT ![s].step = "writing"]
    BY <1>6 DEF ClaimPeriod
  <2>2. /\ sweep' \in Sweeps
        /\ sweep'[s].step = "writing" /\ Claimed' = Claimed
        /\ \A t \in Sweeper : /\ sweep'[t].todo = sweep[t].todo /\ sweep'[t].rule = sweep[t].rule
                              /\ sweep'[t].now = sweep[t].now
                              /\ t # s => sweep'[t].step = sweep[t].step
                              /\ Turn(t)' = Turn(t)
    BY <1>1, <2>1 DEF Sweeps, Claimed, Turn
  <2>3. RuleTypes'
    BY <1>1, <2>2 DEF RuleParts, RuleTypes
  <2>4. PageIsDue'
    BY <1>1, <2>2 DEF RuleParts, RuleRest, PageIsDue
  <2>5. OrdinalsHold'
    BY <1>1, <2>2 DEF RuleParts, RuleRest, OrdinalsHold
  <2>6. NoGap'
    BY <1>1, <2>2 DEF RuleParts, RuleRest, NoGap
  <2>7. OneCommits'
    <3>1. ASSUME edits = 0, NEW t \in Sweeper \ {s} PROVE sweep[t].step # "writing"
      <4>1. SUFFICES ASSUME sweep[t].step = "writing" PROVE FALSE
        OBVIOUS
      <4>2. /\ Turn(t) \notin Claimed /\ Turn(t) \in Ordinal
            /\ \A p \in Ordinal : p < Turn(t) => p \in Claimed
        BY <3>1, <4>1, TurnFacts DEF RuleParts, RuleRest, OneCommits
      <4>3. Turn(t) = Turn(s)
        BY <1>3, <1>6, <3>1, <4>2 DEF Ordinal
      <4>4. QED
        BY <1>1, <4>1, <4>3 DEF SlotHeld
    <3>2. QED
      BY <1>1, <1>6, <2>2, <3>1 DEF RuleParts, RuleRest, OneCommits
  <2>8. Counted'
    BY <1>1, <1>2, <2>2 DEF RuleParts, RuleRest, Counted
  <2>9. QED
    BY <1>2, <2>3, <2>4, <2>5, <2>6, <2>7, <2>8 DEF RuleParts, RuleRest
<1>7. QED
  BY <1>5, <1>6

(* The period that is claimed is the first that was not, and brings at most one ticket.      *)
LEMMA CommitPeriodKeeps ==
  ASSUME RuleParts, NEW s \in Sweeper, CommitPeriod(s)
  PROVE  RuleParts'
<1>1. /\ UNCHANGED <<source, claimVars, draft, mail, thread, callVars, docVars, rule, edits>>
      /\ sweep[s].step = "writing" /\ sweep \in Sweeps
      /\ Creates("rule") \/ UNCHANGED tickets
      /\ GoesOn(s, sweep[s].todo \ {Turn(s)})
      /\ occurrence \in [Ordinal -> [at : Nat, ticket : Nat]]
  BY DEF CommitPeriod, RuleParts, RuleTypes
<1>2. /\ Parts' /\ TicketsFor("rule") \in Nat /\ TicketsFor("rule")' \in Nat
      /\ TicketsFor("rule")' <= TicketsFor("rule") + 1
  BY <1>1, RuleCreates DEF RuleParts
<1>3. /\ Turn(s) \in sweep[s].todo /\ sweep[s].todo \subseteq Ordinal /\ Turn(s) \in Ordinal
      /\ Slot(s) \in Nat /\ Slot(s) <= MaxTime
      /\ edits = 0 => /\ sweep[s].rule = rule /\ Slot(s) = OccurrenceAt(rule, Turn(s))
                      /\ \A p \in Ordinal : p < Turn(s) => p \in Claimed
  BY <1>1, TurnFacts
<1>4. PICK o \in Ordinal, todo \in SUBSET Ordinal : o = Turn(s) /\ todo = sweep[s].todo \ {o}
  BY <1>3
<1>5. /\ occurrence' \in [Ordinal -> [at : Nat, ticket : Nat]]
      /\ occurrence'[o].at = Slot(s)
      /\ \A p \in Ordinal \ {o} : occurrence'[p] = occurrence[p]
  <2>1. NewTicket \in Nat /\ NoTicket \in Nat
    BY DEF NewTicket, NoTicket, RuleParts, Parts, TypeOK
  <2>2. PICK ticket \in Nat : occurrence' = [occurrence EXCEPT ![o] = [at |-> Slot(s), ticket |-> ticket]]
    BY <1>4, <2>1 DEF CommitPeriod
  <2>3. QED
    BY <1>1, <1>3, <2>2
<1>6. Claimed' = Claimed \cup {o}
  <2>1. occurrence'[o] # Unclaimed
    <3>1. Unclaimed.at = MaxTime + 1
      BY DEF Unclaimed
    <3>2. QED
      BY <1>3, <1>5, <3>1, RecurrenceAssumption
  <2>2. QED
    BY <1>5, <2>1 DEF Claimed
<1>7. /\ sweep' \in Sweeps
      /\ \A t \in Sweeper \ {s} : sweep'[t] = sweep[t]
      /\ sweep'[s].todo = todo
      /\ todo = {} => sweep'[s].step = "rest"
      /\ todo # {} => /\ sweep'[s].step = "going" /\ sweep'[s].rule = sweep[s].rule
                      /\ sweep'[s].now = sweep[s].now
  BY <1>1, <1>4, SweepGoesOn
<1>8. RuleTypes'
  BY <1>1, <1>5, <1>7 DEF RuleParts, RuleTypes
<1>9. PageIsDue'
  BY <1>1, <1>4, <1>7 DEF RuleParts, RuleRest, PageIsDue
<1>10. OrdinalsHold'
  <2>1. edits = 0 => occurrence'[o].at = OccurrenceAt(rule, o)
    BY <1>3, <1>4, <1>5
  <2>2. edits = 0 => \A p \in Claimed \ {o} : occurrence'[p].at = OccurrenceAt(rule, p)
    BY <1>5, ClaimedFinite DEF RuleParts, RuleRest, OrdinalsHold
  <2>3. edits = 0 => \A t \in Sweeper : sweep'[t].step # "rest" => sweep'[t].rule = rule
    BY <1>1, <1>7 DEF RuleParts, RuleRest, OrdinalsHold
  <2>4. QED
    BY <1>1, <1>6, <2>1, <2>2, <2>3 DEF OrdinalsHold
<1>11. NoGap'
  <2>1. edits = 0 => \A q \in Claimed', p \in Ordinal : p < q => p \in Claimed'
    BY <1>3, <1>4, <1>6 DEF RuleParts, RuleRest, NoGap
  <2>2. ASSUME edits = 0, NEW t \in Sweeper, NEW q \in sweep'[t].todo, NEW p \in Ordinal, p < q
        PROVE  p \in Claimed' \cup sweep'[t].todo
    <3>1. q \in sweep[t].todo
      BY <1>4, <1>7, <2>2
    <3>2. p \in Claimed \cup sweep[t].todo
      BY <2>2, <3>1 DEF RuleParts, RuleRest, NoGap
    <3>3. QED
      BY <1>4, <1>6, <1>7, <3>2
  <2>3. QED
    BY <1>1, <2>1, <2>2 DEF NoGap
<1>12. OneCommits'
  BY <1>1, <1>7 DEF RuleParts, RuleRest, OneCommits
<1>13. Counted'
  <2>1. SUFFICES ASSUME edits = 0 PROVE TicketsFor("rule")' <= Cardinality(Claimed')
    BY <1>1 DEF Counted
  <2>2. o \notin Claimed
    BY <1>1, <1>4, <2>1 DEF RuleParts, RuleRest, OneCommits
  <2>3. Cardinality(Claimed \cup {o}) = Cardinality(Claimed) + 1
    BY <2>2, ClaimedFinite, FS_AddElement
  <2>4. TicketsFor("rule") <= Cardinality(Claimed) /\ Cardinality(Claimed) \in Nat
    BY <2>1, ClaimedFinite DEF RuleParts, RuleRest, Counted
  <2>5. QED
    BY <1>2, <1>6, <2>3, <2>4
<1>14. QED
  BY <1>2, <1>8, <1>9, <1>10, <1>11, <1>12, <1>13 DEF RuleParts, RuleRest

(* Every step of the sweeps and of an administrator keeps the invariant. *)
LEMMA RuleNextKeeps ==
  ASSUME RuleParts, RuleNext
  PROVE  RuleParts'
<1>1. /\ sweep \in Sweeps /\ rule \in RuleState /\ edits \in Nat
      /\ \A s \in Sweeper : sweep[s].rule \in RuleState /\ sweep[s].now \in 0..MaxTime
  BY DEF RuleParts, RuleTypes, Sweeps
<1>2. UNCHANGED vars => Parts' /\ TicketsFor("rule")' = TicketsFor("rule")
  BY CreationStepKeeps, OthersCreateNone DEF RuleParts
<1>3. ASSUME NEW s \in Sweeper, NEW now \in 0..MaxTime, ReadRule(s, now) PROVE RuleParts'
  <2>1. /\ UNCHANGED <<vars, rule, edits, occurrence>> /\ Claimed' = Claimed
        /\ sweep' = [sweep EXCEPT ![s] = [step |-> "read", rule |-> rule, now |-> now, todo |-> {}]]
    BY <1>3 DEF ReadRule, Claimed
  <2>2. /\ sweep' \in Sweeps
        /\ \A t \in Sweeper \ {s} : sweep'[t] = sweep[t]
        /\ sweep'[s].step = "read" /\ sweep'[s].rule = rule /\ sweep'[s].todo = {}
    BY <1>1, <2>1 DEF Sweeps
  <2>3. RuleTypes' /\ PageIsDue' /\ OrdinalsHold'
    BY <2>1, <2>2 DEF RuleParts, RuleTypes, RuleRest, PageIsDue, OrdinalsHold
  <2>4. NoGap' /\ OneCommits'
    BY <2>1, <2>2 DEF RuleParts, RuleRest, NoGap, OneCommits, Turn
  <2>5. Counted'
    BY <1>2, <2>1 DEF RuleParts, RuleRest, Counted
  <2>6. QED
    BY <1>2, <2>1, <2>3, <2>4, <2>5 DEF RuleParts, RuleRest
<1>4. ASSUME NEW s \in Sweeper, ReadCursor(s) PROVE RuleParts'
  <2>1. /\ UNCHANGED <<vars, rule, edits, occurrence>> /\ sweep[s].step = "read"
        /\ GoesOn(s, Due(sweep[s].rule, sweep[s].now))
        /\ edits = 0 => sweep[s].rule = rule
    BY <1>4 DEF ReadCursor, RuleParts, RuleRest, OrdinalsHold
  <2>2. PICK todo : todo = Due(sweep[s].rule, sweep[s].now)
    OBVIOUS
  <2>3. RecurrenceTypeOK
    BY DEF RuleParts, Parts, RuleTypes, RecurrenceTypeOK, Sweeps, RuleState
  <2>4. /\ todo \subseteq Ordinal
        /\ \A o \in todo : OccurrenceAt(sweep[s].rule, o) <= sweep[s].now
        /\ edits = 0 => \A o \in todo, p \in Ordinal : p < o => p \in Claimed \cup todo
    BY <1>1, <2>1, <2>2, <2>3, DueHasNoGap DEF RuleParts, RuleRest, RuleState
  <2>5. QED
    BY <1>2, <2>1, <2>2, <2>4, GoingOnKeeps
<1>5. ASSUME NEW s \in Sweeper, SweepFails(s) PROVE RuleParts'
  <2>1. /\ UNCHANGED <<vars, rule, edits, occurrence>> /\ sweep[s].step # "rest"
        /\ GoesOn(s, {})
    BY <1>5 DEF SweepFails, LeftAfterFailure
  <2>2. QED
    BY <1>2, <2>1, GoingOnKeeps
<1>6. ASSUME NEW r \in [start : Starts, every : Intervals], EditRule(r) PROVE RuleParts'
  <2>1. /\ UNCHANGED <<vars, occurrence, sweep>> /\ rule' = r /\ r \in RuleState
        /\ edits' \in Nat /\ edits' # 0
    BY <1>1, <1>6, EditedRules DEF EditRule
  <2>2. RuleTypes'
    BY <2>1 DEF RuleParts, RuleTypes
  <2>3. RuleRest'
    BY <2>1 DEF RuleParts, RuleRest, PageIsDue, OrdinalsHold, NoGap, OneCommits, Counted
  <2>4. QED
    BY <1>2, <2>1, <2>2, <2>3 DEF RuleParts
<1>7. QED
  BY <1>3, <1>4, <1>5, <1>6, ClaimPeriodKeeps, CommitPeriodKeeps DEF RuleNext

(* Every step keeps the invariant. *)
LEMMA RuleStepKeeps ==
  RuleParts /\ [RuleNext \/ (Next /\ UNCHANGED recurrenceVars)]_<<vars, recurrenceVars>> => RuleParts'
<1> SUFFICES ASSUME RuleParts, RuleNext \/ ([Next]_vars /\ UNCHANGED recurrenceVars)
             PROVE  RuleParts'
  OBVIOUS
<1>1. CASE [Next]_vars /\ UNCHANGED recurrenceVars
  <2>1. Parts' /\ TicketsFor("rule")' = TicketsFor("rule")
    BY <1>1, CreationStepKeeps, OthersCreateNone DEF RuleParts
  <2>2. UNCHANGED <<rule, edits, occurrence, sweep>> /\ Claimed' = Claimed
        /\ \A s \in Sweeper : Turn(s)' = Turn(s)
    BY <1>1 DEF recurrenceVars, Claimed, Turn
  <2>3. RuleTypes'
    BY <2>2 DEF RuleParts, RuleTypes
  <2>4. PageIsDue' /\ OrdinalsHold' /\ NoGap'
    BY <2>2 DEF RuleParts, RuleRest, PageIsDue, OrdinalsHold, NoGap
  <2>5. OneCommits' /\ Counted'
    BY <2>1, <2>2 DEF RuleParts, RuleRest, OneCommits, Counted
  <2>6. QED
    BY <2>1, <2>3, <2>4, <2>5 DEF RuleParts, RuleRest
<1>2. QED
  BY <1>1, RuleNextKeeps

-----------------------------------------------------------------------------
(* The theorems. *)

(* Of TicketCreation alone: whoever writes holds its key or its row alone, and a request      *)
(* whose row shows no ticket has none (tickets/create.ts:108-315).                            *)
THEOREM CreationInvariant == Spec => []CreationInv
<1>1. Init => Parts
  BY BlankHolds DEF Init
<1>2. Parts => CreationInv
  BY DEF Parts, Rest, CreationInv
<1>3. QED
  BY <1>1, <1>2, CreationStepKeeps, PTL DEF Spec

(* The periods follow from the ordinals: they name instants in their order. *)
LEMMA PeriodsFollow == RuleParts => RecurrenceInv
<1> SUFFICES ASSUME RuleParts PROVE RecurrenceInv
  OBVIOUS
<1>1. RecurrenceTypeOK /\ CreationInv
  BY DEF RuleParts, Parts, Rest, RuleTypes, RecurrenceTypeOK, CreationInv, Sweeps, RuleState
<1>2. ASSUME edits = 0, NEW o \in Claimed, NEW p \in Claimed, occurrence[o].at = occurrence[p].at
      PROVE  o = p
  <2>1. /\ o \in Nat /\ p \in Nat /\ rule \in [start : Nat, every : Nat \ {0}]
        /\ OccurrenceAt(rule, o) = OccurrenceAt(rule, p)
    BY <1>2, ClaimedFinite DEF RuleParts, RuleTypes, RuleRest, RuleState, OrdinalsHold, Ordinal
  <2>2. QED
    BY <2>1, OrdinalsAscend
<1>3. PeriodsInTurn
  BY <1>2 DEF PeriodsInTurn, RuleParts, RuleRest, NoGap, Counted
<1>4. QED
  BY <1>1, <1>3 DEF RuleParts, RuleRest, RecurrenceInv

(* The inductive invariant of the rules' sweeps beside every other source of tickets: what    *)
(* is claimed and what a sweep has left leaves no gap (scheduling-runtime.ts:24-128).         *)
THEOREM RecurrenceInvariant == RecurrenceSpec => []RecurrenceInv
<1>1. RecurrenceSpec => []RuleParts
  BY RuleInitHolds, RuleStepKeeps, PTL DEF RecurrenceSpec
<1>2. QED
  BY <1>1, PeriodsFollow, PTL

(* One request, one ticket, however its calls overlap, fail and come again.                   *)
THEOREM HandledOnceHolds == RecurrenceSpec => []HandledOnce
<1>1. RecurrenceInv => HandledOnce
  BY DEF RecurrenceInv, CreationInv
<1>2. QED
  BY <1>1, RecurrenceInvariant, PTL

(* No period of an unedited rule is passed over and none comes twice, however many processes  *)
(* sweep and wherever they fail.                                                              *)
THEOREM PeriodsInTurnHolds == RecurrenceSpec => []PeriodsInTurn
<1>1. RecurrenceInv => PeriodsInTurn
  BY DEF RecurrenceInv
<1>2. QED
  BY <1>1, RecurrenceInvariant, PTL

(* A document that moved to its ticket stays with it, whatever a discard or a sweep had       *)
(* chosen before (intake/vision.ts:62-102).                                                   *)
THEOREM TicketKeepsDocumentsHolds == RecurrenceSpec => TicketKeepsDocuments
<1> DEFINE Kept == \A d \in Doc :
                     "ticket" \in linked[d] =>
                       /\ "ticket" \in linked'[d] /\ d \in stored'
                       /\ d \in bytes /\ ~Doomed(d) => d \in bytes'
           Step == RuleNext \/ (Next /\ UNCHANGED recurrenceVars)
<1>1. ASSUME RecurrenceInv, [Step]_<<vars, recurrenceVars>> PROVE [Kept]_vars
  <2>1. Parts
    BY <1>1 DEF RecurrenceInv, CreationInv, Parts, Rest
  <2>2. CASE [Next]_vars
    BY <2>1, <2>2, StepKeepsDocuments
  <2>3. CASE RuleNext
    <3>1. UNCHANGED <<linked, stored, bytes>>
      BY <2>3 DEF RuleNext, ReadRule, ReadCursor, ClaimPeriod, CommitPeriod, SweepFails, EditRule, vars, docVars
    <3>2. QED
      BY <2>1, <3>1 DEF Parts, Rest, LinkedIsStored
  <2>4. QED
    BY <1>1, <2>2, <2>3
<1>2. QED
  BY <1>1, RecurrenceInvariant, PTL DEF RecurrenceSpec, TicketKeepsDocuments
=============================================================================
