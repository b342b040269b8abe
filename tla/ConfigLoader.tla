----------------------------- MODULE ConfigLoader -----------------------------
(***************************************************************************)
(* sb-config: Loader::load_with_prev (loader.rs) over JSON config trees,   *)
(* and the SnapshotSwitch (switch.rs) that holds the current snapshot and *)
(* the last-known-good one.  A load merges the sources in order            *)
(* (merge_maps), applies the schema defaults in the registry's HashMap     *)
(* order (apply_defaults), rejects keys the schema does not know           *)
(* (enforce_schema), and reports the keys that changed against the        *)
(* previous snapshot (compute_changed_keys).  Secret resolution, the       *)
(* validator (BasicValidator accepts everything), the checksum and the     *)
(* reload summary do not affect which tree is loaded and are left out.     *)
(*                                                                         *)
(* A JSON value is a record: a scalar [t |-> "num", v |-> x] or an object  *)
(* [t |-> "obj", m |-> f] with f a function from a set of key names.  A    *)
(* path is the sequence of a dotted key's segments.                        *)
(***************************************************************************)
EXTENDS Naturals, Sequences, SequencesExt

CONSTANTS
  Names,       \* key segments
  Scalars,     \* leaf values
  Fields,      \* registered fields: [ns, key (a path), dflt]
  NoDefault,   \* FieldMeta.default_value = None
  None,        \* Option::None of get_raw
  Inputs       \* the maps a source's load can return

Empty == [x \in {} |-> None]
Num(x) == [t |-> "num", v |-> x, m |-> Empty]
Obj(f) == [t |-> "obj", v |-> None, m |-> f]

(* The namespaces the registry knows: the ones fields are registered in.  *)
Namespaces == {f.ns : f \in Fields}

VARIABLES
  current,   \* SnapshotSwitch.current
  lkg,       \* SnapshotSwitch.lkg
  srcs,      \* the maps the sources returned in the last load
  res,       \* outcome of the last call on the loader or the switch
  changed    \* ConfigUpdateEvent.changed_keys of the last successful load

vars == <<current, lkg, srcs, res, changed>>

(* A map with key k set to x (ConfigMap::insert).                         *)
Put(f, k, x) == [j \in DOMAIN f \cup {k} |-> IF j = k THEN x ELSE f[j]]

(* Variant: the overlay's objects replace the base's instead of merging. *)
MergeMapsShallow(base, overlay) ==
  [k \in DOMAIN base \cup DOMAIN overlay |->
     IF k \in DOMAIN overlay THEN overlay[k] ELSE base[k]]

(* merge_maps: each overlay key replaces the base's, except that two      *)
(* objects merge recursively.                                              *)
RECURSIVE MergeMaps(_, _)
MergeMaps(base, overlay) ==
  [k \in DOMAIN base \cup DOMAIN overlay |->
     IF k \notin DOMAIN overlay THEN base[k]
     ELSE IF k \in DOMAIN base /\ base[k].t = "obj" /\ overlay[k].t = "obj"
          THEN Obj(MergeMaps(base[k].m, overlay[k].m))
          ELSE overlay[k]]

(* insert_segments: the value goes under the last segment; an absent or   *)
(* non-object entry on the way is replaced by a fresh object.              *)
RECURSIVE InsertSegments(_, _, _)
InsertSegments(root, segs, x) ==
  IF Len(segs) = 1 THEN Put(root, Head(segs), x)
  ELSE LET k == Head(segs)
           child == IF k \in DOMAIN root /\ root[k].t = "obj" THEN root[k].m ELSE Empty
       IN Put(root, k, Obj(InsertSegments(child, Tail(segs), x)))

MergeValue(target, p, x) == IF p = <<>> THEN target ELSE InsertSegments(target, p, x)

(* path_exists: every segment but the last must be an object.             *)
RECURSIVE PathExists(_, _)
PathExists(f, p) ==
  /\ p # <<>>
  /\ Head(p) \in DOMAIN f
  /\ \/ Len(p) = 1
     \/ f[Head(p)].t = "obj" /\ PathExists(f[Head(p)].m, Tail(p))

(* compose_full_path: the namespace, then the field's key.                *)
FullPath(fd) == <<fd.ns>> \o fd.key

(* Variant: the default written without the path_exists check.           *)
ApplyDefaultUnchecked(f, fd) ==
  IF fd.dflt # NoDefault THEN MergeValue(f, FullPath(fd), fd.dflt) ELSE f

(* One field of apply_defaults: its default goes in unless the path exists. *)
ApplyDefault(f, fd) ==
  IF fd.dflt # NoDefault /\ ~PathExists(f, FullPath(fd))
  THEN MergeValue(f, FullPath(fd), fd.dflt) ELSE f

(* apply_defaults, for the fields in the order the registry yields them.  *)
ApplyDefaults(f, order) == FoldLeft(ApplyDefault, f, order)

(* collect_keys: every key path, the objects' own paths included.         *)
RECURSIVE AllPaths(_)
AllPaths(f) ==
  UNION {{<<k>>} \cup (IF f[k].t = "obj" THEN {<<k>> \o p : p \in AllPaths(f[k].m)} ELSE {})
           : k \in DOMAIN f}

(* enforce_schema: each key's namespace is registered and the rest of the *)
(* key, when there is one, is a field of it.                               *)
Registered(p) ==
  /\ Head(p) \in Namespaces
  /\ Len(p) = 1 \/ \E fd \in Fields : fd.ns = Head(p) /\ fd.key = Tail(p)

EnforceSchema(f) == \A p \in AllPaths(f) : Registered(p)

(* flatten_map: the paths of the non-object values, and those values.     *)
RECURSIVE LeafPaths(_)
LeafPaths(f) ==
  UNION {IF f[k].t = "obj" THEN {<<k>> \o p : p \in LeafPaths(f[k].m)} ELSE {<<k>>}
           : k \in DOMAIN f}

RECURSIVE ValueAt(_, _)
ValueAt(f, p) == IF Len(p) = 1 THEN f[Head(p)] ELSE ValueAt(f[Head(p)].m, Tail(p))

Flatten(f) == [p \in LeafPaths(f) |-> ValueAt(f, p)]

(* Variant: only the new snapshot's keys are compared.                    *)
ChangedKeysNewOnly(old, new) ==
  LET a == Flatten(old)  b == Flatten(new)
  IN {p \in DOMAIN b : ~(p \in DOMAIN a /\ a[p] = b[p])}

(* compute_changed_keys: the flattened keys whose values differ, the keys *)
(* present on one side only included.                                      *)
ChangedKeys(old, new) ==
  LET a == Flatten(old)  b == Flatten(new)
  IN {p \in DOMAIN a \cup DOMAIN b : ~(p \in DOMAIN a /\ p \in DOMAIN b /\ a[p] = b[p])}

(* ConfigSnapshot::get_raw: walk the segments through objects.            *)
RECURSIVE GetRawFrom(_, _)
GetRawFrom(x, p) ==
  IF p = <<>> THEN x
  ELSE IF x.t = "obj" /\ Head(p) \in DOMAIN x.m THEN GetRawFrom(x.m[Head(p)], Tail(p))
  ELSE None

GetRaw(f, p) == IF p = <<>> THEN None ELSE GetRawFrom(Obj(f), p)

(* The merge loop of load_with_prev over the sources, in order.           *)
MergeSources(s) == FoldLeft(MergeMaps, Empty, s)

(* The orders a HashMap-backed registry can yield its fields in.          *)
Orders == SetToSeqs(Fields)

(* load_with_prev up to the snapshot: the merged tree with defaults, or   *)
(* the rejection of enforce_schema.                                        *)
Loaded(s, order) == ApplyDefaults(MergeSources(s), order)

-----------------------------------------------------------------------------
(* Boot: load_once succeeds and SnapshotSwitch::new keeps its snapshot as  *)
(* both the current and the last-known-good one.                           *)
Init ==
  \E s \in Inputs \X Inputs, o \in Orders :
     /\ EnforceSchema(Loaded(s, o))
     /\ current = Loaded(s, o) /\ lkg = Loaded(s, o)
     /\ srcs = s /\ res = "ok"
     /\ changed = ChangedKeys(Empty, Loaded(s, o))

(* A source's load (or a secret resolver) returns Err: `?` ends the load  *)
(* before anything is merged, and nothing is swapped.                      *)
SourceError ==
  /\ res' = "source_err"
  /\ UNCHANGED <<current, lkg, srcs, changed>>

(* load_with_prev(Some(current)) with the sources returning s and the     *)
(* registry yielding its fields in order o; on Ok the caller swaps the     *)
(* snapshot in (SnapshotSwitch::swap).                                     *)
Reload(s, o) ==
  /\ srcs' = s
  /\ IF EnforceSchema(Loaded(s, o))
     THEN /\ res' = "ok"
          /\ current' = Loaded(s, o)
          /\ changed' = ChangedKeys(current, Loaded(s, o))
     ELSE /\ res' = "rejected"
          /\ UNCHANGED <<current, changed>>
  /\ UNCHANGED lkg

(* SnapshotSwitch::rollback: current becomes the boot snapshot.           *)
Rollback ==
  /\ current' = lkg /\ res' = "rolled_back"
  /\ UNCHANGED <<lkg, srcs, changed>>

Next ==
  \/ SourceError
  \/ \E s \in Inputs \X Inputs, o \in Orders : Reload(s, o)
  \/ Rollback

Spec == Init /\ [][Next]_vars

-----------------------------------------------------------------------------
(* Properties.                                                             *)

(* The leaves a right-biased deep merge of a and b has: b's leaves, and   *)
(* a's leaves at paths b does not have and under no scalar of b.           *)
MergedLeaves(a, b) ==
  LeafPaths(b) \cup
  {p \in LeafPaths(a) : p \notin AllPaths(b) /\ \A q \in Prefixes(p) : q \notin LeafPaths(b)}

(* Later sources win: the merged config reads, at every leaf, the value   *)
(* of the last source that sets it, and keeps an earlier source's leaf     *)
(* unless a later source replaced it or a parent of it (merge_maps).       *)
MergeMatchesReference ==
  Flatten(MergeSources(srcs)) =
    [p \in MergedLeaves(srcs[1], srcs[2]) |->
       IF p \in LeafPaths(srcs[2]) THEN ValueAt(srcs[2], p) ELSE ValueAt(srcs[1], p)]

(* A default never replaces a configured field: after a load, a field the *)
(* sources set reads the sources' value through get_raw, and a field with *)
(* a default they left unset reads a value (apply_defaults).               *)
DefaultsKeepSources ==
  res = "ok" =>
    \A fd \in Fields :
      LET p == FullPath(fd)  m == MergeSources(srcs)
      IN /\ p \in LeafPaths(m) => GetRaw(current, p) = ValueAt(m, p)
         /\ fd.dflt # NoDefault => GetRaw(current, p) # None

(* A load's update event names exactly the keys whose value, read through *)
(* get_raw, differs between the snapshot it replaces and the new one, a    *)
(* key that disappeared included (compute_changed_keys).                   *)
ChangedKeysExact ==
  [][res' = "ok" =>
       changed' = {p \in LeafPaths(current) \cup LeafPaths(current') :
                     GetRaw(current, p) # GetRaw(current', p)}]_vars
====
