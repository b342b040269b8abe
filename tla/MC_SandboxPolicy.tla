--------------------------- MODULE MC_SandboxPolicy ---------------------------
(* Requests for SandboxPolicy: two grants' capability lists, two manifests *)
(* and three policies that differ in capabilities, whitelists, root_fs,    *)
(* limits and timeouts, and file, process and tmp ops over every path of   *)
(* at most two components after an optional root.                          *)
EXTENDS Preflight


MCNames == {"a", "ab"}
MCCharsOf == ("a" :> <<"a">>) @@ ("ab" :> <<"a", "b">>)
MCCwd == <<"ab">>

PA == <<Root, Normal("a")>>
PAB == <<Root, Normal("ab")>>
Fs(k, p) == [kind |-> k, path |-> p, tool |-> ""]
Proc(t) == [kind |-> "ProcExec", path |-> <<>>, tool |-> t]
Tmp == [kind |-> "TmpUse", path |-> <<>>, tool |-> ""]

MCGrantCaps == { <<Fs("FsRead", PA), Fs("FsWrite", PA), Proc("t1"), Tmp>>,
                 <<Fs("FsWrite", PAB), Fs("FsRead", PAB), Proc("t2")>> }

MCGrants ==
  {g \in [caps : MCGrantCaps, budget : [bytesIn : {0, 1}],
          consent : {"none", "valid", "expired"},
          expired : BOOLEAN, revoked : BOOLEAN] : ~(g.expired /\ g.revoked)}

NoWl == [paths |-> {}, tools |-> {}]

MCManifests ==
  { [caps |-> {Fs("FsRead", PA), Fs("FsWrite", PA), Fs("FsRead", PAB), Fs("FsWrite", PAB),
               Proc("t1"), Tmp},
     wl |-> [paths |-> {PA}, tools |-> {"t1"}], root |-> None,
     limits |-> [bytesIn |-> 2, depth |-> None], timeout |-> 2],
    [caps |-> {Fs("FsRead", PA), Fs("FsWrite", PA), Fs("FsRead", PAB), Fs("FsWrite", PAB),
               Proc("t1"), Proc("t2"), Tmp},
     wl |-> NoWl, root |-> PA,
     limits |-> [bytesIn |-> None, depth |-> 1], timeout |-> None] }

MCPolicies ==
  { [caps |-> {}, wl |-> NoWl, root |-> None,
     limits |-> [bytesIn |-> None, depth |-> None], timeout |-> None, defaultTimeout |-> None],
    [caps |-> {Fs("FsRead", PA), Fs("FsRead", PAB), Proc("t1"), Proc("t2"), Tmp},
     wl |-> [paths |-> {PA}, tools |-> {"t1", "t2"}], root |-> PA,
     limits |-> [bytesIn |-> 1, depth |-> 2], timeout |-> 3, defaultTimeout |-> 1],
    [caps |-> {Fs("FsRead", PA), Fs("FsWrite", PA), Fs("FsWrite", PAB), Proc("t2")},
     wl |-> [paths |-> {PAB}, tools |-> {"t2"}], root |-> None,
     limits |-> [bytesIn |-> None, depth |-> None], timeout |-> None, defaultTimeout |-> 4] }

Comps == {ParentDir, Normal("a"), Normal("ab")}
Tails == {<<>>} \cup {<<c>> : c \in Comps} \cup {<<c, d>> : c \in Comps, d \in Comps}
OpPaths == Tails \cup {<<Root>> \o t : t \in Tails}

MCOps ==
  {[kind |-> k, path |-> p, tool |-> ""] : k \in {"FsRead", "FsWrite"}, p \in OpPaths}
  \cup {[kind |-> "ProcExec", path |-> <<>>, tool |-> t] : t \in {"t1", "t2"}}
  \cup {[kind |-> "TmpAlloc", path |-> <<>>, tool |-> ""]}

(* Tool manifests for Preflight: fs, tmp, proc and an unmapped domain,    *)
(* with a path through "..", a relative path and a name-prefix sibling;    *)
(* and tool calls with every consent, args.path and revocation.            *)
Decl(d, a, r) == [domain |-> d, action |-> a, resource |-> r]

MCDecls ==
  { <<Decl("fs", "read", PA), Decl("fs", "write", PA), Decl("tmp", "", <<>>)>>,
    <<Decl("fs", "write", PAB), Decl("proc", "exec", "t1"), Decl("kv", "get", <<>>)>>,
    <<Decl("fs", "list", <<Root, Normal("a"), ParentDir, Normal("ab")>>), Decl("proc", "exec", "t2")>>,
    <<Decl("proc", "exec", "t1"), Decl("fs", "read", <<Normal("a")>>), Decl("fs", "delete", PA)>> }

MCTools ==
  [decls : MCDecls, consentRequired : BOOLEAN, maxTtl : BOOLEAN, scoped : BOOLEAN,
   bytesIn : {0, 1}, depth : {1}, timeout : {2}]

MCCalls ==
  [consent : {"none", "valid", "expired", "long", "unscoped"},
   path : OpPaths \cup {None}, revoked : BOOLEAN]

MCPreflightRequests == UNION {PreflightRequests(tm, c) : tm \in MCTools, c \in MCCalls}

MCRequests ==
  [grant : MCGrants, manifest : MCManifests, policy : MCPolicies, op : MCOps]
  \cup MCPreflightRequests

MCRegistered == {"FsRead", "FsWrite", "ProcExec", "TmpUse"}
===============================================================================
