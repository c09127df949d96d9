---------------------------- MODULE TimesliceIndex ----------------------------
(***************************************************************************)
(* The TimesliceIndex of a DPL device: which timeslice each line ("slot")  *)
(* of the DataRelayer's cache is bound to, which slots changed since they  *)
(* were last looked at, and the two watermarks of the device, the oldest   *)
(* timeslice that can still arrive and the oldest one it can still emit.   *)
(*                                                                         *)
(* The operators take the state they read as arguments, because one        *)
(* handler of the device calls several of them in a row.                   *)
(***************************************************************************)
EXTENDS Integers, FiniteSets, FiniteSetsExt

CONSTANTS
  NumSlots,     (* pipeline length, the argument of resize()                *)
  MaxLanes,     (* mMaxLanes: time pipelining lanes of this device          *)
  Channels,     (* input channels, mChannels                                *)
  DPLChannels,  (* those with ChannelAccountingType::DPL                    *)
  NoTimeslice   (* variable 0 of a slot's context is not set                *)

ASSUME IndexAssumption ==
  /\ NumSlots \in Nat \ {0}
  /\ MaxLanes \in 1 .. NumSlots
  /\ DPLChannels \subseteq Channels
  /\ NoTimeslice \notin Nat

VARIABLES
  variables,            (* slot -> its timeslice, or NoTimeslice            *)
  dirty,                (* mDirty                                           *)
  oldestForChannel,     (* mChannels[c].oldestForChannel                    *)
  oldestPossibleInput,  (* mOldestPossibleInput.timeslice                   *)
  oldestPossibleOutput  (* mOldestPossibleOutput.timeslice                  *)

indexVars ==
  <<variables, dirty, oldestForChannel, oldestPossibleInput, oldestPossibleOutput>>

Slots == 0 .. (NumSlots - 1)

IndexTypeOK ==
  /\ variables \in [Slots -> Nat \cup {NoTimeslice}]
  /\ dirty \in [Slots -> BOOLEAN]
  /\ oldestForChannel \in [Channels -> Nat]
  /\ oldestPossibleInput \in Nat
  /\ oldestPossibleOutput \in Nat

IndexInit ==
  /\ variables = [s \in Slots |-> NoTimeslice]
  /\ dirty = [s \in Slots |-> FALSE]
  /\ oldestForChannel = [c \in Channels |-> 0]
  /\ oldestPossibleInput = 0
  /\ oldestPossibleOutput = 0

isValid(vs, s) == vs[s] # NoTimeslice

(* The slots a timeslice may occupy when the device runs in several lanes. *)
laneOf(t) == {s \in Slots : s % MaxLanes = t % MaxLanes}

freeSlots(vs, t) == {s \in laneOf(t) : ~ isValid(vs, s)}

findOldestSlot(vs, t) ==
  IF freeSlots(vs, t) # {}
    THEN Min(freeSlots(vs, t))
    ELSE LET oldest == Min({vs[s] : s \in laneOf(t)})
         IN  Min({s \in laneOf(t) : vs[s] = oldest})

(* The back pressure policy is always BackpressureOp::Wait: a slot in use  *)
(* is never taken over, whatever the age of its timeslice.                 *)
replaceLRUWith(vs, t) ==
  LET s == findOldestSlot(vs, t)
  IN  [action |-> IF isValid(vs, s) THEN "Wait" ELSE "ReplaceUnused", slot |-> s]

(* Mutant: nobody is told that the slot changed. *)
markNothing(ds, slots) == ds

markAsDirty(ds, slots) == [s \in Slots |-> s \in slots \/ ds[s]]

(* Mutant: the other channels are not consulted. *)
announcedOnly(ofc, t) == t

(* setOldestPossibleInput, once the channel's own value has been stored:   *)
(* the smallest of the announced value and of all the DPL channels.        *)
minOverChannels(ofc, t) == Min({t} \cup {ofc[c] : c \in DPLChannels})

(* Mutant: off by one. *)
obsoleteOrCurrent(vs, ds, oldest) ==
  {s \in Slots : ~ ds[s] /\ isValid(vs, s) /\ vs[s] <= oldest}

(* validateSlot: the slots which hold a timeslice that can no longer be    *)
(* completed and which nobody is about to look at.                         *)
obsoleteSlots(vs, ds, oldest) ==
  {s \in Slots : ~ ds[s] /\ isValid(vs, s) /\ vs[s] < oldest}

markAsInvalid(vs, slots) ==
  [s \in Slots |-> IF s \in slots THEN NoTimeslice ELSE vs[s]]

(* Mutant: the timeslices in flight are forgotten. *)
inputOnly(vs, oldest) == oldest

(* updateOldestPossibleOutput *)
minOverSlots(vs, oldest) ==
  Min({oldest} \cup {vs[s] : s \in {r \in Slots : isValid(vs, r)}})

rescan == [s \in Slots |-> TRUE]

reset ==
  /\ oldestForChannel' = [c \in Channels |-> 0]
  /\ oldestPossibleInput' = 0
  /\ oldestPossibleOutput' = 0
===============================================================================
