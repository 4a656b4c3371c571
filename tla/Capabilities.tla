---------------------------- MODULE Capabilities ----------------------------
(***************************************************************************)
(* What one permission covers (src/src/permission.rs): the enum Permission  *)
(* as records, the path and host matching it rests on, and the three        *)
(* operations on the grant store as operators on the set of grants.         *)
(*                                                                         *)
(* A path is [abs, parts], parts being a sequence of component names among  *)
(* which ".." is the parent directory ("." never survives                   *)
(* Path::components).  A host is [name, port] with port 0 for "no port      *)
(* written".                                                               *)
(***************************************************************************)
EXTENDS Naturals, Sequences, FiniteSets, SequencesExt

CONSTANTS
    Cwd,      \* parts of the process's working directory
    Dirs,     \* paths that exist, each with the real path it denotes
    Lower     \* a written host name |-> its lower-case form

\* canonicalize("/") always succeeds.
ASSUME DirsAssumption == <<>> \in DOMAIN Dirs /\ Dirs[<<>>] = <<>>

Push(out, c) ==
    IF c = ".." /\ out # <<>> /\ Last(out) # ".."
    THEN Front(out)
    ELSE Append(out, c)

\* normalized_path: ".." removes the component before it, and is kept when
\* there is none left to remove.
Normalized(parts) == FoldLeft(Push, <<>>, parts)

\* resolved_path: the longest existing prefix is made real, the rest is
\* appended as written.  The walk upwards gives up at a component without
\* a file name ("..").
Resolved(p) ==
    LET a    == IF p.abs THEN Normalized(p.parts) ELSE Cwd \o Normalized(p.parts)
        k    == Max({i \in 0 .. Len(a) : SubSeq(a, 1, i) \in DOMAIN Dirs})
        rest == SubSeq(a, k + 1, Len(a))
    IN  IF \E i \in DOMAIN rest : rest[i] = ".."
        THEN Normalized(a)
        ELSE Normalized(Dirs[SubSeq(a, 1, k)] \o rest)

\* Path::starts_with compares whole components.
PathUnder(prefix, path) == IsPrefix(Resolved(prefix), Resolved(path))

\* host_matches: an allowed host with a port wants that port, one without
\* accepts any.
HostMatches(allow, target) ==
    /\ Lower[allow.name] = Lower[target.name]
    /\ allow.port # 0 => allow.port = target.port

-----------------------------------------------------------------------------
(* Permission values.                                                      *)

Fs(k)        == [area |-> "fs", kind |-> k]
FsPath(k, p) == [area |-> "fs", kind |-> k, path |-> p]
NetAny       == [area |-> "net", kind |-> "any"]
Connect(h)   == [area |-> "net", kind |-> "connect", host |-> h]
ProcAny      == [area |-> "proc", kind |-> "any"]
Command(c)   == [area |-> "proc", kind |-> "command", cmd |-> c]
Env          == [area |-> "env", kind |-> "any"]

\* The kinds of request that a filesystem grant of kind k can cover.
FsScope(k) ==
    CASE k = "any"       -> {"any", "read", "write", "readPath", "writePath", "path"}
      [] k = "read"      -> {"read", "readPath"}
      [] k = "write"     -> {"write", "writePath"}
      [] k = "readPath"  -> {"readPath"}
      [] k = "writePath" -> {"writePath"}
      [] k = "path"      -> {"readPath", "writePath", "path"}

\* Permission::covers
Covers(a, b) ==
    /\ a.area = b.area
    /\ CASE a.area = "fs" ->
              /\ b.kind \in FsScope(a.kind)
              /\ a.kind \in {"readPath", "writePath", "path"} => PathUnder(a.path, b.path)
         [] a.area = "net" ->
              a.kind = "connect" => b.kind = "connect" /\ HostMatches(a.host, b.host)
         [] a.area = "proc" ->
              a.kind = "command" => b.kind = "command" /\ a.cmd = b.cmd
         [] a.area = "env" -> TRUE

-----------------------------------------------------------------------------
(* The grant store, a set: the order of Permissions.grants is never seen.    *)

Holds(grants, c) == \E g \in grants : Covers(g, c)

\* grant: dropped when an earlier grant already covers it.
GrantTo(grants, p) == IF Holds(grants, p) THEN grants ELSE grants \cup {p}

\* Mutant: revoke removes only the grant that was named.
RevokeExact(grants, p) == grants \ {p}

\* revoke: every grant that covers p goes, broader ones included.
RevokeFrom(grants, p) == {g \in grants : ~Covers(g, p)}
=============================================================================
