-------------------------- MODULE OwnedBridgeModule --------------------------
(***************************************************************************)
(* Owner and operating mode of a bridge pallet (trait OwnedBridgeModule of *)
(* primitives/runtime).                                                    *)
(***************************************************************************)
EXTENDS Integers

CONSTANTS
  Accounts,   \* accounts that may own the pallet
  None        \* no account

VARIABLES
  owner,   \* PalletOwner
  mode     \* PalletOperatingMode

OperatingModes == {"Normal", "Halted"}

Origins == Accounts \cup {"Root"}

IsHalted == mode = "Halted"

EnsureOwnerOrRoot(origin) == origin = "Root" \/ (owner # None /\ origin = owner)

SetOwner(origin, new_owner) ==
  /\ EnsureOwnerOrRoot(origin)
  /\ owner' = new_owner
  /\ UNCHANGED mode

SetOperatingMode(origin, operating_mode) ==
  /\ EnsureOwnerOrRoot(origin)
  /\ mode' = operating_mode
  /\ UNCHANGED owner

OwnerStep ==
  \/ \E origin \in Origins, new_owner \in Accounts \cup {None} : SetOwner(origin, new_owner)
  \/ \E origin \in Origins, operating_mode \in OperatingModes : SetOperatingMode(origin, operating_mode)
=============================================================================
