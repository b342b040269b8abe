--------------------------- MODULE SandboxPolicy ---------------------------
(***************************************************************************)
(* The admission part of Sandbox::execute (sb-sandbox/src/manager.rs):     *)
(* the grant checks, DefaultProfileBuilder::build (profile.rs), the        *)
(* capability selection and consent check of the manager, and              *)
(* DefaultPolicyGuard::validate with normalize_path (guard.rs); then the   *)
(* file the FS executor (exec/fs.rs) opens for an admitted op.             *)
(*                                                                         *)
(* A path, as Path::components yields it, is a sequence of components     *)
(* (root, ".", "..", or a name).  Strings the code compares with           *)
(* starts_with are sequences of characters: CharsOf gives a name's.        *)
(* The request is the caller's input and is chosen in Init; the one step   *)
(* is the call.  Each call of execute is independent of the others.        *)
(***************************************************************************)
EXTENDS Naturals, Sequences, SequencesExt, FiniteSets

CONSTANTS
  Names,         \* the path segment names
  CharsOf,       \* CharsOf[n]: the characters of name n
  Cwd,           \* the process's working directory, a sequence of names
  Requests,      \* the ExecuteRequests (grant, manifest, policy, op) a caller passes
  Registered,    \* the capability kinds with an executor (with_executor)
  None           \* Option::None

VARIABLES
  req,           \* the ExecuteRequest of this call
  last           \* None before the call; after it, what execute decided

vars == <<req, last>>

Root == [k |-> "root", n |-> ""]
CurDir == [k |-> "cur", n |-> ""]
ParentDir == [k |-> "parent", n |-> ""]
Normal(n) == [k |-> "normal", n |-> n]

-----------------------------------------------------------------------------
(* Variant: ".." is skipped like ".".                                      *)
StepNoParent(segs, c) ==
  CASE c.k = "root"   -> <<<<>>>>
    [] c.k \in {"cur", "parent"} -> segs
    [] OTHER          -> Append(segs, CharsOf[c.n])

(* guard.rs normalize_path.  A root clears the segments and pushes the     *)
(* empty segment, ".." pops (nothing on empty), a name is pushed; the       *)
(* segments joined with "/" are prefixed with "/" unless they start with  *)
(* it, and an empty result is "/".                                          *)
Step(segs, c) ==
  CASE c.k = "root"   -> <<<<>>>>
    [] c.k = "cur"    -> segs
    [] c.k = "parent" -> IF segs = <<>> THEN segs ELSE Front(segs)
    [] OTHER          -> Append(segs, CharsOf[c.n])

Join(segs) ==
  IF segs = <<>> THEN <<>>
  ELSE FoldLeft(LAMBDA acc, s : acc \o <<"/">> \o s, Head(segs), Tail(segs))

Segments(path) == FoldLeft(Step, <<>>, path)

NormalizePath(path) ==
  LET v == Join(Segments(path))
  IN  CASE Segments(path) = <<>> -> <<"/">>
        [] v = <<>>             -> <<"/">>
        [] Head(v) = "/"        -> v
        [] OTHER                -> <<"/">> \o v

-----------------------------------------------------------------------------
(* Variant: the policy's list is not consulted.                           *)
IntersectCapabilitiesNoPolicy(g, m, p) == SelectSeq(g, LAMBDA c : c \in m)

(* profile.rs intersect_capabilities: the grant's capabilities, in its     *)
(* order, that the manifest has and the policy has (the manifest's when   *)
(* the policy lists none).                                                 *)
IntersectCapabilities(g, m, p) ==
  LET pol == IF p = {} THEN m ELSE p
  IN  SelectSeq(g, LAMBDA c : c \in m /\ c \in pol)

(* min_opt of two Option<u64>.                                             *)
MinOpt(a, b) ==
  CASE a = None -> b
    [] b = None -> a
    [] OTHER    -> IF a <= b THEN a ELSE b

(* Variant: a zero budget value bounds the limit as well.                *)
MergeLimitsZeroBudget(ml, pl, budget) ==
  [bytesIn |-> MinOpt(MinOpt(ml.bytesIn, pl.bytesIn), budget.bytesIn),
   depth   |-> MinOpt(ml.depth, pl.depth)]

(* merge_limits: the per-field minimum of manifest and policy; a positive  *)
(* budget value bounds the result too (0 is ignored).                      *)
MergeLimits(ml, pl, budget) ==
  LET bi == MinOpt(ml.bytesIn, pl.bytesIn)
  IN  [bytesIn |-> IF budget.bytesIn > 0 THEN MinOpt(bi, budget.bytesIn) ELSE bi,
       depth   |-> MinOpt(ml.depth, pl.depth)]

(* intersect_list: an empty side yields the other side.                    *)
IntersectList(a, b) ==
  CASE a = {} -> b
    [] b = {} -> a
    [] OTHER  -> a \cap b

(* merge_whitelists (manifest and policy whitelists; None is all lists     *)
(* empty, for which intersect_list gives the same result).                 *)
MergeWhitelists(mw, pw) ==
  [paths |-> IntersectList(mw.paths, pw.paths), tools |-> IntersectList(mw.tools, pw.tools)]

(* merge_mappings: the policy's root_fs, else the manifest's.               *)
MergeRoot(mr, pr) == IF pr # None THEN pr ELSE mr

(* min_timeout: the least of the values present, 30_000 when none is.      *)
MinTimeout(m, p, d) ==
  LET ts == {x \in {m, p, d} : x # None}
  IN  IF ts = {} THEN 30000 ELSE CHOOSE t \in ts : \A u \in ts : t <= u

(* DefaultProfileBuilder::build; an empty capability set is forbidden.     *)
BuildProfile(g, m, p) ==
  [caps     |-> IntersectCapabilities(g.caps, m.caps, p.caps),
   limits   |-> MergeLimits(m.limits, p.limits, g.budget),
   wl       |-> MergeWhitelists(m.wl, p.wl),
   root     |-> MergeRoot(m.root, p.root),
   timeout  |-> MinTimeout(m.timeout, p.timeout, p.defaultTimeout)]

-----------------------------------------------------------------------------
(* manager.rs find_fs_capability: the first capability of the op's kind    *)
(* whose normalized path is a string prefix of the op's normalized path.   *)
FindFs(prof, kind, path) ==
  LET fits == SelectSeq(prof.caps, LAMBDA c : c.kind = kind /\
                         IsPrefix(NormalizePath(c.path), NormalizePath(path)))
  IN  IF fits = <<>> THEN None ELSE Head(fits)

(* find_first of a kind, and find_proc_capability by tool name.            *)
(* The tool is None for find_first, which matches on the kind alone.      *)
FindFirst(prof, kind, tool) ==
  LET Fits(c) == c.kind = kind /\ (tool = None \/ c.tool = tool)
      fits    == SelectSeq(prof.caps, Fits)
  IN  IF fits = <<>> THEN None ELSE Head(fits)

(* select_capability.                                                      *)
SelectCapability(prof, op) ==
  CASE op.kind \in {"FsRead", "FsWrite", "FsList"} -> FindFs(prof, op.kind, op.path)
    [] op.kind = "ProcExec" -> FindFirst(prof, "ProcExec", op.tool)
    [] OTHER                -> FindFirst(prof, "TmpUse", None)

(* Variant: only process execution asks for consent.                     *)
RequiresConsentProcOnly(cap) == cap.kind = "ProcExec"

(* requires_consent (no browser, GPU or network capabilities here).        *)
RequiresConsent(cap) == cap.kind \in {"FsWrite", "ProcExec"}

(* ensure_consent: None if the call may go on, else the error.             *)
ConsentError(g, cap) ==
  CASE ~RequiresConsent(cap)   -> None
    [] g.consent = "none"      -> "permission_denied"
    [] g.consent = "expired"   -> "permission_denied"
    [] OTHER                   -> None

(* The string a path was written as: its components joined with "/".     *)
CompChars(c) ==
  CASE c.k = "cur"    -> <<".">>
    [] c.k = "parent" -> <<".", ".">>
    [] OTHER          -> CharsOf[c.n]

Render(path) ==
  IF path # <<>> /\ path[1].k = "root"
  THEN <<"/">> \o Join([i \in 1..Len(path) - 1 |-> CompChars(path[i + 1])])
  ELSE Join([i \in 1..Len(path) |-> CompChars(path[i])])

(* guard.rs validate_path on a capability's path: inside root_fs (a string *)
(* prefix of the normalized forms), then some whitelisted path, as it is  *)
(* written, a string prefix of it, when the whitelist is not empty.        *)
PathAllowed(prof, path) ==
  /\ prof.root # None => IsPrefix(NormalizePath(prof.root), NormalizePath(path))
  /\ prof.wl.paths # {} => \E a \in prof.wl.paths : IsPrefix(Render(a), NormalizePath(path))

(* DefaultPolicyGuard::validate: the capability is in the profile; its     *)
(* path, or its tool (validate_tool: a non-empty list naming it).          *)
GuardAllows(prof, cap) ==
  /\ \E i \in DOMAIN prof.caps : prof.caps[i] = cap
  /\ cap.kind \in {"FsRead", "FsWrite", "FsList"} => PathAllowed(prof, cap.path)
  /\ cap.kind = "ProcExec" => prof.wl.tools # {} /\ cap.tool \in prof.wl.tools

(* The directory names a path denotes, ".." at the top staying there.     *)
RefStep(st, c) ==
  CASE c.k = "root"   -> <<>>
    [] c.k = "parent" -> IF st = <<>> THEN st ELSE Front(st)
    [] c.k = "normal" -> Append(st, c.n)
    [] OTHER          -> st

Resolve(path) == FoldLeft(RefStep, <<>>, path)

(* The file std::fs opens for the raw op path: a relative path is taken    *)
(* from the working directory.                                              *)
Opened(path) ==
  IF path # <<>> /\ path[1].k = "root" THEN Resolve(path)
  ELSE Resolve(<<Root>> \o [i \in 1..Len(Cwd) |-> Normal(Cwd[i])] \o path)

-----------------------------------------------------------------------------
Init ==
  /\ req \in Requests
  /\ last = None

(* Sandbox::execute up to the executor: ensure_grant_active, the           *)
(* revocation watcher, build, select_capability, ensure_consent,           *)
(* guard.validate, the executor lookup; an admitted FS op then opens its   *)
(* raw path.                                                                *)
Execute ==
  /\ last = None
  /\ LET g    == req.grant
         prof == BuildProfile(g, req.manifest, req.policy)
         cap  == SelectCapability(prof, req.op)
         out  == CASE g.expired                        -> "permission_denied"
                   [] g.revoked                        -> "permission_denied"
                   [] prof.caps = <<>>                 -> "forbidden"
                   [] cap = None                       -> "capability_missing"
                   [] ConsentError(g, cap) # None      -> ConsentError(g, cap)
                   [] ~GuardAllows(prof, cap)          -> "policy_violation"
                   [] cap.kind \notin Registered       -> "capability_missing"
                   [] OTHER                            -> "ok"
     IN  last' = [out     |-> out,
                  profile |-> prof,
                  cap     |-> cap,
                  opened  |-> IF out = "ok" /\ req.op.kind \in {"FsRead", "FsWrite", "FsList"}
                              THEN Opened(req.op.path) ELSE None]
  /\ UNCHANGED req

Next == Execute

Spec == Init /\ [][Next]_vars

-----------------------------------------------------------------------------
(* The least of the values present, None when none is.                    *)
LeastOf(S) ==
  LET ps == {x \in S : x # None}
  IN  IF ps = {} THEN None ELSE CHOOSE t \in ps : \A u \in ps : t <= u

(* The string of the directory a path denotes, "/" first.                 *)
RefNormalize(path) ==
  LET st == Resolve(path)
  IN  <<"/">> \o Join([i \in 1..Len(st) |-> CharsOf[st[i]]])

Admitted == last # None /\ last.out = "ok"

(* normalize_path (guard.rs) yields "/" followed by the directory names    *)
(* the path denotes, ".." removing one and stopping at the top, for the   *)
(* op's path and every path the grant names.                               *)
NormalizeMatchesReference ==
  last # None =>
    \A p \in {req.op.path} \cup {req.grant.caps[i].path : i \in DOMAIN req.grant.caps} :
      NormalizePath(p) = RefNormalize(p)

(* Sandbox::execute admits an op only under a capability that the grant,  *)
(* the manifest and the policy (the manifest when the policy lists none)  *)
(* all contain; a process tool must be named by every non-empty tool      *)
(* whitelist of manifest and policy, and by at least one.                  *)
LeastPrivilege ==
  Admitted =>
    LET c == last.cap
        m == req.manifest
        p == req.policy
    IN  /\ \E i \in DOMAIN req.grant.caps : req.grant.caps[i] = c
        /\ c \in m.caps
        /\ c \in (IF p.caps = {} THEN m.caps ELSE p.caps)
        /\ c.kind = "ProcExec" =>
             /\ \A w \in {m.wl.tools, p.wl.tools} : w # {} => c.tool \in w
             /\ c.tool \in m.wl.tools \cup p.wl.tools

(* merge_limits and min_timeout: each limit of the profile is the least   *)
(* of the manifest's, the policy's and, for bytes_in, a non-zero budget's *)
(* value; a timeout with none given is 30 s.                               *)
LimitsMatchSpec ==
  last # None =>
    LET m == req.manifest
        p == req.policy
        b == req.grant.budget.bytesIn
        t == LeastOf({m.timeout, p.timeout, p.defaultTimeout})
    IN  /\ last.profile.limits.bytesIn =
             LeastOf({m.limits.bytesIn, p.limits.bytesIn} \cup (IF b > 0 THEN {b} ELSE {}))
        /\ last.profile.limits.depth = LeastOf({m.limits.depth, p.limits.depth})
        /\ last.profile.timeout = IF t = None THEN 30000 ELSE t

(* An admitted op runs under a grant that has not expired nor been        *)
(* revoked, and a write or a process execution under an unexpired consent *)
(* (ensure_grant_active, the revocation watcher, ensure_consent).  A      *)
(* consent the sandbox holds is "none", "expired" or an unexpired one.     *)
AdmittedGrantValid ==
  Admitted =>
    /\ ~req.grant.expired /\ ~req.grant.revoked
    /\ last.cap.kind \in {"FsWrite", "ProcExec"} => req.grant.consent \notin {"none", "expired"}

(* The file the FS executor opens for an admitted op lies inside the       *)
(* directory of the capability it was admitted under, inside root_fs when *)
(* one is mapped, and inside a whitelisted path of every non-empty path   *)
(* whitelist of manifest and policy (spec 4.3: any escape is denied).      *)
PathConfined ==
  (Admitted /\ last.opened # None) =>
    /\ IsPrefix(Resolve(last.cap.path), last.opened)
    /\ last.profile.root # None => IsPrefix(Resolve(last.profile.root), last.opened)
    /\ \A w \in {req.manifest.wl.paths, req.policy.wl.paths} :
         w # {} => \E a \in w : IsPrefix(Resolve(a), last.opened)

=============================================================================
