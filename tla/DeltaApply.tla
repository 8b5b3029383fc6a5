------------------------------ MODULE DeltaApply ------------------------------
(***************************************************************************)
(* One managed object under the reconciler's per-object step (spec 4.7,    *)
(* step 3 a-c): read the observed object, compute the delta with Compare,  *)
(* and server-side apply the desired object only when it is absent or the  *)
(* delta is not empty.  Other actors change the desired object (the user   *)
(* edits the instance), the live object (another field manager or a user)  *)
(* or delete it.  The server remembers what the controller sent last      *)
(* (its managed fields), which decides the fields an apply removes.        *)
(***************************************************************************)
EXTENDS ApiServer

CONSTANTS
  DesiredObjects,   \* objects the instance runtime can emit
  LiveObjects,      \* objects the server can hold (already normalised)
  Stamps            \* values the server writes into uid / resourceVersion

VARIABLES
  desired,    \* the object the runtime emits for this resource
  observed,   \* the live object as last read (Absent: none)
  applied     \* what the controller's last apply sent (NilV: none)

vars == <<desired, observed, applied>>

Absent == NilV

\* a stored object: a map whose metadata carries every server-written field
IsStored(o) ==
  /\ o.kind = "map"
  /\ "metadata" \in DOMAIN o.fields
  /\ ServerManagedFields \subseteq DOMAIN o.fields["metadata"].fields

TypeOK ==
  /\ desired \in DesiredObjects
  /\ observed = Absent \/ IsStored(observed)
  /\ applied \in DesiredObjects \cup {NilV}

Init ==
  /\ desired \in DesiredObjects
  /\ observed \in LiveObjects \cup {Absent}
  /\ applied \in DesiredObjects \cup {NilV}

\* spec 4.7 step 3b: apply when the object is absent or Compare finds a difference
NeedsApply == IF observed = Absent THEN TRUE ELSE Compare(desired, observed) # {}

\* mutant: the object sent is kept as observed instead of the one re-read
ApplyDesiredUnread ==
  /\ NeedsApply
  /\ observed' = desired
  /\ applied' = desired
  /\ UNCHANGED desired

\* spec 4.7 steps 3b-c: server-side apply, then re-read the stored object
ApplyDesired ==
  /\ NeedsApply
  /\ \E s \in Stamps : observed' = ServerApply(desired, observed, applied, s)
  /\ applied' = desired
  /\ UNCHANGED desired

\* environment: the user edits the instance, so the runtime emits a new object
EditDesired ==
  /\ desired' \in DesiredObjects \ {desired}
  /\ UNCHANGED <<observed, applied>>

\* environment: another field manager rewrites the live object
Drift ==
  /\ observed # Absent
  /\ observed' \in LiveObjects \ {observed}
  /\ UNCHANGED <<desired, applied>>

\* environment: someone deletes the live object, and its managed fields
DeleteLive ==
  /\ observed # Absent
  /\ observed' = Absent
  /\ applied' = NilV
  /\ UNCHANGED desired

Next == ApplyDesired \/ EditDesired \/ Drift \/ DeleteLive

Spec == Init /\ [][Next]_vars

(***************************************************************************)
(* Properties                                                              *)
(***************************************************************************)

\* Compare decides the apply exactly (spec 4.7 step 3b, 4.8): for a live
\* object, Compare finds a difference if and only if a server-side apply
\* of the desired object would change a field other than the server's own
\* metadata.  A difference the apply cannot remove makes every pass
\* re-apply; a change Compare cannot see (a field the controller applied
\* before and has now dropped, which only the apply would remove) is never
\* made.
ApplyIffDifferent ==
  observed # Absent =>
     (Compare(desired, observed) # {} <=>
        \E s \in Stamps :
           WithoutServerFields(ServerApply(desired, observed, applied, s))
             # WithoutServerFields(observed))

\* Idempotent apply (spec 8, property 5): right after the controller applies
\* the desired object, Compare finds no difference, so the next pass over an
\* unchanged instance and cluster makes no write.
ApplyConverges == [][ApplyDesired => Compare(desired', observed') = {}]_vars

=============================================================================
