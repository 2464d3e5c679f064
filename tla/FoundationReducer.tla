-------------------------- MODULE FoundationReducer --------------------------
(***************************************************************************)
(* The pure core of Tennis v1: the foundation state, its reducer and the   *)
(* trace that chains every applied raw record (tennis_v1/state.py and      *)
(* tennis_v1/reducer.py).                                                  *)
(*                                                                         *)
(* Data abstraction.  A captured input is a source and a connection epoch; *)
(* its payload plays no part in the control.  A SHA-256 digest is modelled *)
(* by the value it is the digest of: the trace, a hash chain in the code,  *)
(* is here the sequence of the entries that were hashed into it, so two    *)
(* traces are equal exactly when the code's two digests are.               *)
(***************************************************************************)
EXTENDS Integers, Sequences

CONSTANT Sources        \* (source_kind, source_id) pairs of the session

NoEpoch == -1           \* the source has no entry in source_epochs

(* A captured input, as far as the reducer looks at it. *)
Inputs == [source : Sources, epoch : Nat]

Start == [kind |-> "START", seq |-> 1]

Raw(n, input) == [kind |-> "RAW", seq |-> n, input |-> input]

(* The one output of reduce_event, "raw_accepted": its payload is a        *)
(* function of the raw record, and append_derived copies the raw record's  *)
(* source fields and its sequence number into it.                          *)
Derived(n, raw) ==
    [kind |-> "DERIVED", seq |-> n, parent |-> raw.seq, input |-> raw.input]

initial_state ==
    [last_applied |-> 0, raw_count |-> 0, derived_count |-> 0,
     epochs |-> [s \in Sources |-> NoEpoch]]

KnownSources(st) == {s \in Sources : st.epochs[s] # NoEpoch}

(* What _validate_state accepts; canonical_state_bytes raises otherwise.   *)
ValidState(st) ==
    /\ st.raw_count = st.derived_count
    /\ IF st.raw_count = 0
       THEN st.last_applied = 0 /\ KnownSources(st) = {}
       ELSE /\ st.last_applied # 0
            /\ st.raw_count <= st.last_applied
            /\ KnownSources(st) # {}

(* The checks of reduce_event that are about the record. *)
Reducible(st, raw) ==
    /\ ValidState(st)
    /\ raw.seq > st.last_applied
    /\ raw.input.epoch >= st.epochs[raw.input.source]

reduce_event(st, raw) ==
    [last_applied  |-> raw.seq,
     raw_count     |-> st.raw_count + 1,
     derived_count |-> st.derived_count + 1,
     epochs        |-> [st.epochs EXCEPT ![raw.input.source] = raw.input.epoch]]

initial_trace == << >>

next_trace(trace, raw, outputs, st) ==
    Append(trace, [raw |-> raw, outputs |-> outputs, state |-> st])
=============================================================================
