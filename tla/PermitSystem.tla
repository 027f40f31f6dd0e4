---------------------------- MODULE PermitSystem ----------------------------
(***************************************************************************)
(* The executor as the controllers see it: any of the operations of Permit, *)
(* one after another.                                                       *)
(***************************************************************************)
EXTENDS Permit

VARIABLE permit

PermitInit == permit = NewPermit

Turned(p) == UNION {Finished(r) : r \in UNION {Stepped(q) : q \in Observed(p)}}
Replaced(p) ==
  UNION {Installed(r) : r \in UNION {Finished(q) : q \in Ended(p)}}

PermitNext ==
  \/ permit' \in Turned(permit) \cup Observed(permit)
  \/ permit' \in UNION {Stepped(q) : q \in Observed(permit)}
  \/ permit' \in Granted(permit)
  \/ permit' = Zeroed(permit)
  \/ permit' \in Replaced(permit)
  \/ permit' \in UNION {Finished(q) : q \in Ended(permit)}
  \/ permit' \in Respecified(permit)

PermitSpec == PermitInit /\ [][PermitNext]_permit

=============================================================================
