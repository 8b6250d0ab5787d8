----------------------------- MODULE DeviceIds -----------------------------
(***************************************************************************)
(* The three ways a device is numbered: by rank on this host (logical), by *)
(* what the process is shown (visible), and by the host (physical).  And   *)
(* the two ways a device's capability is asked for.                        *)
(*                                                                         *)
(* assigned is the mapping set by the launcher, a sequence of physical     *)
(* ids; shown is the device-control variable of the environment, each      *)
(* entry a physical id or NotANumber, as a UUID is.  Both are Unset where  *)
(* there is none; an empty variable counts as unset.                       *)
(***************************************************************************)
EXTENDS Integers, Sequences

Unset == <<>>
Error == -1
NotANumber == -2

(* Element i of a sequence, counted from 0, or an error.                   *)
At(s, i) == IF 0 <= i /\ i < Len(s) THEN s[i + 1] ELSE Error

(* device_control_id_to_physical_device_id: only numbers are understood.   *)
ToPhysical(entry) == IF entry = NotANumber THEN Error ELSE entry

(* device_id_to_physical_device_id                                         *)
LogicalToPhysical(assigned, shown, d) ==
  IF assigned # Unset THEN At(assigned, d)
  ELSE IF shown # Unset THEN ToPhysical(At(shown, d))
  ELSE d

(* Seeded fault: the physical id is used as the visible one.               *)
LogicalToVisibleDirect(assigned, shown, d) == LogicalToPhysical(assigned, shown, d)

(* logical_device_id_to_visible_device_id: the first place that shows it.  *)
(* Every entry is converted, so one that is no number fails every lookup.  *)
LogicalToVisible(assigned, shown, d) ==
  LET p == LogicalToPhysical(assigned, shown, d)
      places == {i \in 0..Len(shown)-1 : ToPhysical(shown[i + 1]) = p}
  IN  IF shown = Unset \/ p = Error THEN p
      ELSE IF places = {} \/ (\E i \in DOMAIN shown : ToPhysical(shown[i]) = Error) THEN Error
      ELSE CHOOSE i \in places : \A j \in places : i <= j

(* visible_device_id_to_physical_device_id: converts this entry only.      *)
VisibleToPhysical(shown, d) == IF shown = Unset THEN d ELSE ToPhysical(At(shown, d))

-----------------------------------------------------------------------------
(* A capability is <<major, minor>>, or None on a platform without one.    *)
None == <<>>

ToInt(c) == c[1] * 10 + c[2]

AtLeast(a, b) == a[1] > b[1] \/ (a[1] = b[1] /\ a[2] >= b[2])

(* has_device_capability asked with a pair, and with an integer            *)
HasPair(c, asked) == c # None /\ AtLeast(c, asked)
HasInt(c, asked)  == c # None /\ ToInt(c) >= asked

(* is_device_capability and is_device_capability_family                    *)
IsPair(c, asked)  == c # None /\ c = asked
IsInt(c, asked)   == c # None /\ ToInt(c) = asked
IsFamily(c, asked) == c # None /\ ToInt(c) \div 10 = asked \div 10
=============================================================================
