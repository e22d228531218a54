----------------------------- MODULE MCAxelLoop -----------------------------
(* Two deployments, one patched also by name of another environment, and a    *)
(* device with an action that one of its two facets shows.                    *)
EXTENDS AxelLoop

Ask(tool, on, does, facets, environment) ==
  [tool |-> tool, on |-> on, does |-> does, facets |-> facets, environment |-> environment]

MCResources == {"d1", "d2", "laptop", "ci"}
MCCallLimits == {2, 5}
MCFacets == {"resolver", "storage"}
MCActionFacets == [flush_dns |-> {"resolver"}]
MCRequests ==
  {Ask("cluster_patch_image", "d1", "none", {}, NoEnv)}
  \cup {Ask("cluster_read_deployment", "d1", "none", {}, NoEnv),
        Ask("cluster_read_deployment", "d2", "none", {}, RunEnv),
        Ask("cluster_read_deployment", "d1", "none", {}, "other"),
        Ask("device_run_action", "laptop", "flush_dns", {}, NoEnv),
        Ask("device_read_state", "laptop", "none", {"resolver"}, NoEnv),
        Ask("device_read_state", "laptop", "none", {"storage"}, NoEnv),
        Ask("cmdb_record_observation", "ci", "none", {}, NoEnv)}
=============================================================================
