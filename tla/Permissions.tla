----------------------------- MODULE Permissions -----------------------------
(***************************************************************************)
(* The grant store of a Context over a history of host calls: grant and     *)
(* revoke (src/src/context.rs) change it, has_permission reads it.  permLog *)
(* is a history variable: the calls made so far, in order.                  *)
(***************************************************************************)
EXTENDS Capabilities

CONSTANTS
    Capability,      \* the permission values the host uses
    MaxPermEvents    \* bound on the host calls of one behaviour

VARIABLES
    permGrants,  \* Permissions.grants
    permLog      \* history of [op, cap]

permVars == <<permGrants, permLog>>

PermInit == permGrants = {} /\ permLog = <<>>

\* Context::grant
PermGrant(p) ==
    /\ Len(permLog) < MaxPermEvents
    /\ permGrants' = GrantTo(permGrants, p)
    /\ permLog' = Append(permLog, [op |-> "grant", cap |-> p])

\* Context::revoke
PermRevoke(p) ==
    /\ Len(permLog) < MaxPermEvents
    /\ permGrants' = RevokeFrom(permGrants, p)
    /\ permLog' = Append(permLog, [op |-> "revoke", cap |-> p])

PermNext == \E p \in Capability : PermGrant(p) \/ PermRevoke(p)

PermSpec == PermInit /\ [][PermNext]_permVars

PermTypeOK ==
    /\ permGrants \subseteq Capability
    /\ permLog \in Seq([op : {"grant", "revoke"}, cap : Capability])

-----------------------------------------------------------------------------
\* Grant number i of the history has not been touched by a later revoke.
Standing(i) ==
    /\ permLog[i].op = "grant"
    /\ \A j \in i + 1 .. Len(permLog) :
          permLog[j].op = "revoke" => ~Covers(permLog[i].cap, permLog[j].cap)

(***************************************************************************)
(* Every capability the store allows (Permissions::has) rests on a grant    *)
(* the host made that covers it and that no later revoke touched, whether   *)
(* the revoke named that grant or something narrower that it covers: after  *)
(* revoke(p) the capability p is denied until it is granted again.          *)
(***************************************************************************)
NothingBeyondGrants ==
    \A c \in Capability :
        Holds(permGrants, c) =>
            \E i \in DOMAIN permLog : Standing(i) /\ Covers(permLog[i].cap, c)
=============================================================================
