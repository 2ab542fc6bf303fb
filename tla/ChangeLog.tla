----------------------------- MODULE ChangeLog -----------------------------
(***************************************************************************)
(* What the devices of an account may rely on, whatever the coordinator    *)
(* does with heads, receipts, payloads and retention: one log of changes.  *)
(* It only grows, every change of an entity carries the next revision,     *)
(* everything after the floor can be read as it was written, and the floor *)
(* only moves forward.                                                     *)
(***************************************************************************)
EXTENDS Integers

CONSTANTS
    Entity,     \* what a change is about
    Payload,    \* contents
    NoPayload,  \* the content of a deletion
    NoEntry,    \* what a reader finds at a position that cannot be read
    MaxLength   \* bound on the length of the log

VARIABLES
    length,     \* the number of changes ever written
    floor,      \* positions up to here can no longer be read
    revision,   \* the last revision of every entity, 0 before the first
    feed        \* what a reader finds at every position

vars == <<length, floor, revision, feed>>

Position == 1 .. MaxLength

Init ==
    /\ length = 0
    /\ floor = 0
    /\ revision = [k \in Entity |-> 0]
    /\ feed = [s \in Position |-> NoEntry]

\* The first change of an entity creates it; a deletion has no content.
Write(k, operation, payload) ==
    /\ length < MaxLength
    /\ (operation = "create") <=> (revision[k] = 0)
    /\ (operation = "delete") <=> (payload = NoPayload)
    /\ length' = length + 1
    /\ revision' = [revision EXCEPT ![k] = @ + 1]
    /\ feed' = [feed EXCEPT ![length + 1] =
                  [entity |-> k, revision |-> revision[k] + 1,
                   operation |-> operation, payload |-> payload]]
    /\ UNCHANGED floor

Trim(to) ==
    /\ floor' = to
    /\ feed' = [s \in Position |-> IF s <= to THEN NoEntry ELSE feed[s]]
    /\ UNCHANGED <<length, revision>>

Next ==
    \/ \E k \in Entity, operation \in {"create", "update", "delete"},
          payload \in Payload \cup {NoPayload} : Write(k, operation, payload)
    \/ \E to \in floor .. length : Trim(to)

Spec == Init /\ [][Next]_vars
=============================================================================
