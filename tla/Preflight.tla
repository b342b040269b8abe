------------------------------ MODULE Preflight ------------------------------
(***************************************************************************)
(* ToolPreflight::preflight (sb-tools preflight.rs, mapping.rs) builds the *)
(* sandbox request of a tool call from the tool's manifest: the grant      *)
(* (build_grant), the sandbox manifest (to_sandbox_manifest) and the       *)
(* policy (build_policy_config), all three with the capabilities of        *)
(* manifest_to_capabilities and the whitelists of build_whitelists; it     *)
(* checks the call's consent, plans the ops from the call's arguments      *)
(* (plan_exec_ops), builds the profile and validates every capability     *)
(* with the guard.  Every planned op of an admitted call is then one      *)
(* Sandbox::execute (SandboxPolicy) with that grant, manifest and policy.  *)
(*                                                                         *)
(* A tool manifest is [decls, consentRequired, maxTtl, scoped, bytesIn,    *)
(* depth, timeout]: decls is its capability declarations in order, each    *)
(* [domain, action, resource]; maxTtl and scoped say whether the consent   *)
(* spec has a max_ttl_ms and the manifest non-empty scopes.  A call is     *)
(* [consent, path, revoked]: consent is "none", "valid", "expired",        *)
(* "long" (valid, expiring beyond any max_ttl_ms) or "unscoped" (valid,    *)
(* lacking the manifest's scopes); path is args.path or None; revoked is   *)
(* whether the revocation watcher has the grant revoked.                   *)
(* Registry lookup, the idempotency and visibility checks, argument        *)
(* schema validation and authorization precede these steps and are         *)
(* ToolInvoke's Preflight; here they are taken to allow the call.          *)
(***************************************************************************)
EXTENDS SandboxPolicy

Cap(k, p, t) == [kind |-> k, path |-> p, tool |-> t]

(* manifest_to_capabilities: fs read, write and list, tmp and proc         *)
(* declarations become capabilities in order; others are dropped (no       *)
(* network or browser capabilities here).                                  *)
CapOf(d) ==
  CASE d.domain = "fs" /\ d.action = "read"  -> Cap("FsRead", d.resource, "")
    [] d.domain = "fs" /\ d.action = "write" -> Cap("FsWrite", d.resource, "")
    [] d.domain = "fs" /\ d.action = "list"  -> Cap("FsList", d.resource, "")
    [] d.domain = "tmp"                      -> Cap("TmpUse", <<>>, "")
    [] d.domain = "proc"                     -> Cap("ProcExec", <<>>, d.resource)
    [] OTHER                                 -> None

ManifestToCapabilities(decls) ==
  LET kept == SelectSeq(decls, LAMBDA d : CapOf(d) # None)
  IN  [i \in 1..Len(kept) |-> CapOf(kept[i])]

(* build_whitelists: the raw resource of every fs declaration is a path    *)
(* and of every proc declaration a tool; None (all lists empty) when no    *)
(* declaration populated one.                                              *)
BuildWhitelists(decls) ==
  LET ds == {decls[i] : i \in DOMAIN decls}
  IN  [paths |-> {d.resource : d \in {x \in ds : x.domain = "fs"}},
       tools |-> {d.resource : d \in {x \in ds : x.domain = "proc"}}]

Limits(tm) == [bytesIn |-> tm.bytesIn, depth |-> tm.depth]

(* to_sandbox_manifest: no mappings, every limit present.                  *)
ToSandboxManifest(tm) ==
  [caps |-> Range(ManifestToCapabilities(tm.decls)), wl |-> BuildWhitelists(tm.decls),
   root |-> None, limits |-> Limits(tm), timeout |-> tm.timeout]

(* build_policy_config: the manifest's capabilities, whitelists, limits    *)
(* and timeout again; mappings None and PolicyDefaults::default(), whose   *)
(* derived timeout_ms is None.                                             *)
BuildPolicyConfig(tm) ==
  [caps |-> Range(ManifestToCapabilities(tm.decls)), wl |-> BuildWhitelists(tm.decls),
   root |-> None, limits |-> Limits(tm), timeout |-> tm.timeout, defaultTimeout |-> None]

(* build_grant: expires_at 0, which ensure_grant_active never takes as     *)
(* expired; budget.bytes_in is the manifest's max_bytes_in; the consent    *)
(* is the call's.                                                          *)
BuildGrant(tm, call) ==
  [caps |-> ManifestToCapabilities(tm.decls), budget |-> [bytesIn |-> tm.bytesIn],
   consent |-> call.consent, expired |-> FALSE, revoked |-> call.revoked]

(* preflight.rs ensure_consent: with consent required, the call's consent  *)
(* must be present, not expired, within max_ttl_ms when one is set, and    *)
(* hold the manifest's scopes when it has some.                            *)
PreflightConsentOk(tm, call) ==
  tm.consentRequired =>
    /\ call.consent \notin {"none", "expired"}
    /\ tm.maxTtl => call.consent # "long"
    /\ tm.scoped => call.consent # "unscoped"

(* plan_exec_ops: an op per fs read or write and per tmp declaration, in   *)
(* order, the fs ops on args.path; proc and fs list declarations plan      *)
(* nothing.                                                                *)
OpOf(d, path) ==
  CASE d.domain = "fs" /\ d.action = "read"  -> [kind |-> "FsRead", path |-> path, tool |-> ""]
    [] d.domain = "fs" /\ d.action = "write" -> [kind |-> "FsWrite", path |-> path, tool |-> ""]
    [] d.domain = "tmp"                      -> [kind |-> "TmpAlloc", path |-> <<>>, tool |-> ""]
    [] OTHER                                 -> None

PlanExecOps(decls, path) ==
  LET planned == SelectSeq(decls, LAMBDA d : OpOf(d, path) # None)
  IN  [i \in 1..Len(planned) |-> OpOf(planned[i], path)]

(* plan_fs_read and plan_fs_write fail on a missing args.path, failing     *)
(* plan_exec_ops.                                                          *)
PlanFails(decls, path) ==
  path = None /\ \E i \in DOMAIN decls : decls[i].domain = "fs" /\ decls[i].action \in {"read", "write"}

(* ToolPreflight::preflight from ensure_consent on: consent, a non-empty  *)
(* plan, a profile with capabilities (build), and the guard admitting     *)
(* every capability of the manifest.  The result is the requests of the   *)
(* planned ops, none when the call is denied or fails.                    *)
PreflightRequests(tm, call) ==
  LET g    == BuildGrant(tm, call)
      m    == ToSandboxManifest(tm)
      p    == BuildPolicyConfig(tm)
      prof == BuildProfile(g, m, p)
      ops  == PlanExecOps(tm.decls, call.path)
      caps == ManifestToCapabilities(tm.decls)
  IN  IF /\ PreflightConsentOk(tm, call)
         /\ ~PlanFails(tm.decls, call.path) /\ ops # <<>>
         /\ prof.caps # <<>>
         /\ \A i \in DOMAIN caps : GuardAllows(prof, caps[i])
      THEN {[grant |-> g, manifest |-> m, policy |-> p, op |-> ops[i]] : i \in DOMAIN ops}
      ELSE {}

=============================================================================
