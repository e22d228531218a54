--------------------------- MODULE TicketCreation ---------------------------
(***************************************************************************)
(* How one request becomes one ticket (api/src/server/tickets/create.ts and *)
(* its adapters).  A request reaches the API several times: a form that is *)
(* sent again with its idempotency key, an intake draft that is submitted  *)
(* again (intake/submit.ts), a mail that is delivered again (mail/db.ts),  *)
(* messages of one channel thread (routers/mail.ts).  Each call is one     *)
(* transaction; what it claims first decides whether it creates a ticket.  *)
(* Beside them a draft's documents are uploaded, moved to the ticket by    *)
(* its submission, and removed by a discard and by the draft sweep.        *)
(*                                                                         *)
(* Transactions run at READ COMMITTED: a statement that meets a row or a   *)
(* key another transaction has written waits for that one to end.          *)
(***************************************************************************)
EXTENDS Integers, Sequences, FiniteSets

CONSTANTS
  Call,      \* the requests in flight at the API
  Key,       \* idempotency keys
  Message,   \* the messages of the channel thread
  Doc,       \* contents a person may attach
  MaxLapses, MaxCalls    \* bounds: takeovers of a claim, calls that come in

ASSUME CreationAssumption ==
  MaxLapses \in Nat /\ MaxCalls \in Nat /\ {"draft", "mail", "channel", "rule", "none"} \cap Key = {}

NoTicket == 0
AttemptLimit == 3
Remover == {"discard", "sweep"}

VARIABLES
  source,    \* where the request of this behaviour comes from
  tickets,   \* what each ticket was created for: a key or the source; a ticket is its place
  claim,     \* ticket_creation_claims: the ticket of each key
  lapsed,    \* the claims whose expiresAt has passed
  lapses,    \* how often each key's claim was taken over after it lapsed
  draft,     \* ticket_drafts: the draft's status and ticket
  mail,      \* inbound_emails: the mail's status and attempts, and whether it is acknowledged
  thread,    \* messaging_threads.ticketId, and the messages of the thread that are stored
  call,      \* the transaction of each call, with its key or message
  overlapped,\* history: a delivery took up a mail that another one had processed meanwhile
  calls,     \* count for the bound
  stored,    \* the rows of documents
  bytes,     \* the contents in the document store
  linked,    \* document_links: of each document, to the draft and to its ticket
  uploading, \* uploads to the draft between their check and their transaction
  removing   \* discardDraft and sweepIntakeDrafts: the next step, the documents chosen

claimVars == <<claim, lapsed, lapses>>
rowVars   == <<tickets, claimVars, draft, mail, thread>>
callVars  == <<call, overlapped, calls>>
docVars   == <<stored, bytes, linked, uploading, removing>>
vars == <<source, rowVars, callVars, docVars>>

Resting == [phase |-> "rest", key |-> "none"]
NotRemoving == [step |-> "rest", docs |-> {}]

\* Nothing has been asked for yet.
Blank ==
  /\ tickets = <<>>
  /\ claim = [k \in Key |-> NoTicket] /\ lapsed = {} /\ lapses = [k \in Key |-> 0]
  /\ draft = [status |-> "open", ticket |-> NoTicket]
  /\ mail = [status |-> "absent", attempts |-> 0, acked |-> FALSE]
  /\ thread = [ticket |-> NoTicket, seen |-> {}]
  /\ call = [c \in Call |-> Resting] /\ overlapped = FALSE /\ calls = 0
  /\ stored = {} /\ bytes = {} /\ linked = [d \in Doc |-> {}] /\ uploading = {}
  /\ removing = [r \in Remover |-> NotRemoving]

Init == source \in {"portal", "draft", "mail", "channel"} /\ Blank

-----------------------------------------------------------------------------
(* A transaction: what it holds, how it ends. *)

At(c, phase) == call[c].phase = phase

\* Another transaction has written the row of the draft, of the mail, of the channel.
RowHeld == \E c \in Call : At(c, "writing")

\* Another transaction has inserted the claim of the key.
KeyHeld(k) == \E c \in Call : At(c, "writing") /\ call[c].key = k

Arrives(c) ==
  /\ At(c, "rest")
  /\ calls < MaxCalls /\ calls' = calls + 1

Goes(c, phase, key) == call' = [call EXCEPT ![c] = [phase |-> phase, key |-> key]]
Ends(c) == call' = [call EXCEPT ![c] = Resting]

\* ON CONFLICT DO UPDATE ... WHERE expiresAt <= now.
Free(k) == claim[k] = NoTicket \/ k \in lapsed

NewTicket == Len(tickets) + 1
Creates(request) == tickets' = Append(tickets, request)

\* The claim of the key is stored with its ticket.
Claims(k, ticket) ==
  /\ claim' = [claim EXCEPT ![k] = ticket] /\ lapsed' = lapsed \ {k}
  /\ lapses' = [lapses EXCEPT ![k] = @ + (IF k \in lapsed THEN 1 ELSE 0)]

\* A statement fails, or the input is refused: only a mail's failure is written down.
RollsBack(c) ==
  /\ At(c, "writing")
  /\ IF source = "mail" THEN Goes(c, "failing", "none") ELSE Ends(c)
  /\ UNCHANGED <<source, rowVars, overlapped, calls, docVars>>

\* The process dies: what has not committed is gone.
Restart ==
  /\ call' = [c \in Call |-> Resting] /\ uploading' = {}
  /\ removing' = [r \in Remover |-> NotRemoving]
  /\ UNCHANGED <<source, rowVars, overlapped, calls, stored, bytes, linked>>

ClaimLapses(k) ==
  /\ claim[k] # NoTicket /\ k \notin lapsed /\ lapses[k] < MaxLapses
  /\ lapsed' = lapsed \cup {k}
  /\ UNCHANGED <<source, tickets, claim, lapses, draft, mail, thread, callVars, docVars>>

-----------------------------------------------------------------------------
(* A form with an idempotency key: routers/tickets.ts, createTicket. *)

\* A claim that is taken and has not lapsed answers the call with its ticket.
PortalClaims(c, k) ==
  /\ source = "portal" /\ Arrives(c) /\ ~KeyHeld(k)
  /\ IF Free(k) THEN Goes(c, "writing", k) ELSE UNCHANGED call
  /\ UNCHANGED <<source, rowVars, overlapped, docVars>>

PortalCommits(c) ==
  /\ source = "portal" /\ At(c, "writing")
  /\ Creates(call[c].key) /\ Claims(call[c].key, NewTicket)
  /\ Ends(c)
  /\ UNCHANGED <<source, draft, mail, thread, overlapped, calls, docVars>>

-----------------------------------------------------------------------------
(* An intake draft: intake/submit.ts, intake/index.ts. *)

\* A plausible bug: the status is not part of the claim.
AnyDraft == draft.status # "deleted"

\* UPDATE ticket_drafts SET status = 'submitted' ... WHERE status = 'open'.
Submittable == draft.status = "open"

\* A draft that is not open is settled: answered with its ticket, or refused.
SubmitClaims(c, k) ==
  /\ source = "draft" /\ Arrives(c) /\ ~RowHeld
  /\ IF Submittable THEN Goes(c, "writing", k) ELSE UNCHANGED call
  /\ UNCHANGED <<source, rowVars, overlapped, docVars>>

\* reparentDraftDocuments: a link to the draft becomes one to the ticket.
Moved == [d \in Doc |-> IF "draft" \in linked[d] THEN {"ticket"} ELSE linked[d]]

\* A key whose claim is taken brings its ticket, and no other is created.
SubmitCommits(c) ==
  /\ source = "draft" /\ At(c, "writing")
  /\ LET k == call[c].key
         ticket == IF Free(k) THEN NewTicket ELSE claim[k]
     IN /\ IF Free(k) THEN Creates("draft") /\ Claims(k, ticket)
           ELSE UNCHANGED <<tickets, claimVars>>
        /\ draft' = [status |-> "submitted", ticket |-> ticket]
  /\ linked' = Moved
  /\ Ends(c)
  /\ UNCHANGED <<source, mail, thread, overlapped, calls, stored, bytes, uploading, removing>>

\* uploadDocument: the draft is open when it is checked, and linked to whatever it is later.
UploadChecks(d) ==
  /\ source = "draft" /\ draft.status = "open" /\ d \notin uploading
  /\ uploading' = uploading \cup {d}
  /\ UNCHANGED <<source, rowVars, callVars, stored, bytes, linked, removing>>

UploadCommits(d) ==
  /\ d \in uploading /\ uploading' = uploading \ {d}
  /\ stored' = stored \cup {d} /\ bytes' = bytes \cup {d}
  /\ linked' = [linked EXCEPT ![d] = @ \cup {"draft"}]
  /\ UNCHANGED <<source, rowVars, callVars, removing>>

StepsTo(r, step) == removing' = [removing EXCEPT ![r].step = step]

\* discardDraft looks at the status, and then updates the draft whatever it is by then.
DiscardChecks ==
  /\ source = "draft" /\ draft.status = "open" /\ removing["discard"].step = "rest"
  /\ StepsTo("discard", "update")
  /\ UNCHANGED <<source, rowVars, callVars, stored, bytes, linked, uploading>>

DiscardUpdates ==
  /\ removing["discard"].step = "update" /\ ~RowHeld
  /\ draft' = IF draft.status = "deleted" THEN draft ELSE [draft EXCEPT !.status = "discarded"]
  /\ StepsTo("discard", "choose")
  /\ UNCHANGED <<source, tickets, claimVars, mail, thread, callVars, stored, bytes, linked, uploading>>

\* sweepIntakeDrafts: the draft has not been changed for its time to live, nor submitted.
Sweepable == draft.status \in {"open", "discarded"}

SweepSelects ==
  /\ source = "draft" /\ Sweepable /\ removing["sweep"].step = "rest"
  /\ StepsTo("sweep", "choose")
  /\ UNCHANGED <<source, rowVars, callVars, stored, bytes, linked, uploading>>

\* removeOrphanedIntakeBlobs: the documents of the draft are chosen ...
ChooseDocuments(r) ==
  /\ removing[r].step = "choose"
  /\ removing' = [removing EXCEPT ![r] = [step |-> "delete",
                                          docs |-> {d \in Doc : "draft" \in linked[d]}]]
  /\ UNCHANGED <<source, rowVars, callVars, stored, bytes, linked, uploading>>

\* A plausible bug: what was chosen is deleted, whoever has linked it meanwhile.
Chosen(d) == d \in Doc

\* Once the links to the draft are gone, none is left.
Orphaned(d) == linked[d] \subseteq {"draft"}

\* ... and, under their locks, the draft's links go, and those of them that nothing links to.
DeleteDocuments(r) ==
  /\ removing[r].step = "delete"
  /\ LET gone == {d \in removing[r].docs : Orphaned(d)}
     IN /\ stored' = stored \ gone
        /\ linked' = IF removing[r].docs = {} THEN linked
                     ELSE [d \in Doc |-> IF d \in gone THEN {} ELSE linked[d] \ {"draft"}]
        /\ removing' = [removing EXCEPT ![r] = [step |-> "erase", docs |-> gone]]
  /\ UNCHANGED <<source, rowVars, callVars, bytes, uploading>>

\* Their contents are removed once the rows are gone, under no lock.
EraseBytes(r) ==
  /\ removing[r].step = "erase"
  /\ bytes' = bytes \ removing[r].docs
  /\ removing' = [removing EXCEPT ![r] = [step |-> IF r = "sweep" THEN "drop" ELSE "rest",
                                          docs |-> {}]]
  /\ UNCHANGED <<source, rowVars, callVars, stored, linked, uploading>>

\* The draft is deleted if it still is open or discarded.
SweepDeletes ==
  /\ removing["sweep"].step = "drop" /\ ~RowHeld
  /\ draft' = IF Sweepable THEN [draft EXCEPT !.status = "deleted"] ELSE draft
  /\ StepsTo("sweep", "rest")
  /\ UNCHANGED <<source, tickets, claimVars, mail, thread, callVars, stored, bytes, linked, uploading>>

-----------------------------------------------------------------------------
(* A message of a channel: routers/mail.ts, ingestChannelMessage. *)

\* The upsert of the channel's row holds back every other message of the channel; a message
\* that is stored already is answered with the thread's ticket.
IngestClaims(c, m) ==
  /\ source = "channel" /\ Arrives(c) /\ ~RowHeld
  /\ IF m \in thread.seen THEN UNCHANGED call ELSE Goes(c, "writing", m)
  /\ UNCHANGED <<source, rowVars, overlapped, docVars>>

\* The first message of the thread creates its ticket, the others are added to it.
IngestCommits(c) ==
  /\ source = "channel" /\ At(c, "writing")
  /\ IF thread.ticket = NoTicket THEN Creates("channel") ELSE UNCHANGED tickets
  /\ thread' = [ticket |-> IF thread.ticket = NoTicket THEN NewTicket ELSE thread.ticket,
                seen |-> thread.seen \cup {call[c].key}]
  /\ Ends(c)
  /\ UNCHANGED <<source, claimVars, draft, mail, overlapped, calls, docVars>>

-----------------------------------------------------------------------------
(* A mail: mail/poller.ts and mail/http.ts, which deliver it, and mail/db.ts. *)

\* A failed mail is taken up again, until it has failed three times.
Retriable == mail.status = "failed" /\ mail.attempts < AttemptLimit

\* INSERT ... ON CONFLICT DO NOTHING waits for a transaction that inserts the same row; a row
\* that is there is read as it was committed.  What is neither new nor to be retried is
\* ignored as a duplicate, and acknowledged.
MailArrives(c) ==
  /\ source = "mail" /\ Arrives(c)
  /\ \/ /\ mail.status = "absent" /\ ~RowHeld
        /\ Goes(c, "writing", "none") /\ UNCHANGED mail
     \/ /\ mail.status # "absent" /\ Retriable
        /\ Goes(c, "retrying", "none") /\ UNCHANGED mail
     \/ /\ mail.status # "absent" /\ ~Retriable
        /\ mail' = [mail EXCEPT !.acked = TRUE] /\ UNCHANGED call
  /\ UNCHANGED <<source, tickets, claimVars, draft, thread, overlapped, docVars>>

\* UPDATE inbound_emails SET status = 'received' WHERE id: it waits for another delivery that
\* has taken the row up, and then takes it from whatever status that one left.
MailTakenUp(c) ==
  /\ At(c, "retrying") /\ ~RowHeld
  /\ overlapped' = (overlapped \/ mail.status = "processed")
  /\ Goes(c, "writing", "none")
  /\ UNCHANGED <<source, rowVars, calls, docVars>>

\* The mail is threaded onto a ticket it names, or creates one; the delivery is acknowledged.
MailCommits(c) ==
  /\ source = "mail" /\ At(c, "writing")
  /\ Creates("mail") \/ UNCHANGED tickets
  /\ mail' = [mail EXCEPT !.status = "processed", !.acked = TRUE]
  /\ Ends(c)
  /\ UNCHANGED <<source, claimVars, draft, thread, overlapped, calls, docVars>>

\* The catch block records the failure in a transaction of its own, unless that fails too.
\* The error leaves the delivery unacknowledged.
MailFailureRecorded(c) ==
  /\ At(c, "failing") /\ ~RowHeld
  /\ \/ mail' = [mail EXCEPT !.status = IF @ = "absent" THEN "failed" ELSE @,
                             !.attempts = @ + 1]
     \/ UNCHANGED mail
  /\ Ends(c)
  /\ UNCHANGED <<source, tickets, claimVars, draft, thread, overlapped, calls, docVars>>

-----------------------------------------------------------------------------
CallNext ==
  \E c \in Call :
    \/ RollsBack(c) \/ PortalCommits(c) \/ SubmitCommits(c) \/ IngestCommits(c)
    \/ MailArrives(c) \/ MailTakenUp(c) \/ MailCommits(c) \/ MailFailureRecorded(c)
    \/ \E k \in Key : PortalClaims(c, k) \/ SubmitClaims(c, k)
    \/ \E m \in Message : IngestClaims(c, m)

DocumentNext ==
  \/ \E d \in Doc : UploadChecks(d) \/ UploadCommits(d)
  \/ \E r \in Remover : ChooseDocuments(r) \/ DeleteDocuments(r) \/ EraseBytes(r)
  \/ DiscardChecks \/ DiscardUpdates \/ SweepSelects \/ SweepDeletes

Next == CallNext \/ DocumentNext \/ Restart \/ \E k \in Key : ClaimLapses(k)

Spec == Init /\ [][Next]_vars

-----------------------------------------------------------------------------
(* What is promised. *)

TypeOK ==
  /\ source \in {"portal", "draft", "mail", "channel", "rule"}
  /\ tickets \in Seq(Key \cup {"draft", "mail", "channel", "rule"})
  /\ claim \in [Key -> Nat] /\ lapsed \subseteq Key /\ lapses \in [Key -> Nat]
  /\ draft \in [status : {"open", "submitted", "discarded", "deleted"}, ticket : Nat]
  /\ mail \in [status : {"absent", "failed", "processed"}, attempts : Nat, acked : BOOLEAN]
  /\ thread \in [ticket : Nat, seen : SUBSET Message]
  /\ call \in [Call -> [phase : {"rest", "writing", "retrying", "failing"},
                        key : Key \cup Message \cup {"none"}]]
  /\ overlapped \in BOOLEAN /\ calls \in Nat
  /\ stored \subseteq Doc /\ bytes \subseteq Doc /\ linked \in [Doc -> SUBSET {"draft", "ticket"}]
  /\ uploading \subseteq Doc
  /\ removing \in [Remover -> [step : {"rest", "update", "choose", "delete", "erase", "drop"},
                               docs : SUBSET Doc]]

TicketsFor(request) == Cardinality({t \in DOMAIN tickets : tickets[t] = request})

\* A request is handled once, however its calls overlap, fail and come again.  It has one
\* ticket: a key as long as its claim has not lapsed, a mail as long as no delivery takes it up
\* a second time after another has processed it (the update that takes it up is not guarded by
\* the status).  And a provider that was told a mail is taken, and so will not deliver it
\* again, was told the truth: the mail has been processed, or was given up after three failures.
HandledOnce ==
  /\ \A k \in Key : TicketsFor(k) <= 1 + lapses[k]
  /\ TicketsFor("draft") <= 1 /\ TicketsFor("channel") <= 1
  /\ TicketsFor("mail") <= 1 \/ overlapped
  /\ mail.acked => mail.status = "processed" \/ mail.attempts >= AttemptLimit

\* A removal that deleted the document's row has yet to erase its contents.
Doomed(d) == \E r \in Remover : removing[r].step = "erase" /\ d \in removing[r].docs

\* A document that is linked to the ticket stays linked, stored and readable, whatever a
\* discard or a sweep had chosen before the submission moved it -- except that a removal
\* which deleted its row erases the contents even if they were uploaded again meanwhile.
TicketKeepsDocuments ==
  [][\A d \in Doc :
       "ticket" \in linked[d] =>
         /\ "ticket" \in linked'[d] /\ d \in stored'
         /\ d \in bytes /\ ~Doomed(d) => d \in bytes']_vars

\* The inductive invariant behind these two.
\* Whoever writes holds its key or its row alone, and what its claim found is still so.
OneWriter ==
  \A c, d \in Call :
    At(c, "writing") /\ At(d, "writing") /\ c # d => source = "portal" /\ call[c].key # call[d].key
WritersHold ==
  \A c \in Call :
    /\ At(c, "writing") =>
         /\ source = "portal" => call[c].key \in Key /\ Free(call[c].key)
         /\ source = "draft" => call[c].key \in Key /\ draft.status = "open"
         /\ source = "channel" => call[c].key \in Message
         /\ source = "mail" /\ mail.status = "processed" => overlapped
    /\ call[c].phase \in {"retrying", "failing"} => source = "mail"
\* A request whose row shows no ticket has none.
TicketsAreKnown ==
  /\ \A k \in Key : claim[k] = NoTicket => k \notin lapsed /\ TicketsFor(k) = 0
  /\ draft.status = "open" => TicketsFor("draft") = 0
  /\ thread.ticket = NoTicket => TicketsFor("channel") = 0
  /\ mail.status # "processed" => TicketsFor("mail") = 0
\* What is linked has its row.
LinkedIsStored == \A d \in Doc : linked[d] # {} => d \in stored
CreationInv ==
  TypeOK /\ OneWriter /\ WritersHold /\ TicketsAreKnown /\ LinkedIsStored /\ HandledOnce
=============================================================================
