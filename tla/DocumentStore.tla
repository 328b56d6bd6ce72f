---------------------------- MODULE DocumentStore ----------------------------
(***************************************************************************)
(* What the repository API promises about one collection of identifiable   *)
(* documents, whatever handlers, caches and instances stand behind it:     *)
(*                                                                         *)
(*   - a row comes into being only where there was none, and with a        *)
(*     document nobody committed before: a deleted document is never       *)
(*     written back;                                                       *)
(*   - a replacement only touches a row that exists;                       *)
(*   - deleting a Submodel through a shell takes the row and the shell's   *)
(*     reference away in one step;                                         *)
(*   - what a reader is served is a document that was committed at some    *)
(*     time, possibly not the latest one.                                  *)
(*                                                                         *)
(* Repository.tla implements this specification (see its refinement).      *)
(***************************************************************************)
CONSTANTS Key,      \* identifiers of shells, submodels, concept descriptions
          Doc,      \* documents
          Absent    \* the value of a missing row, or of a cache miss: no document

VARIABLES store,    \* [Key -> Doc or Absent]: the committed rows
          past,     \* [Key -> SUBSET Doc]: every document ever committed
          view      \* [Key -> Doc or Absent]: what the cache serves

vars == <<store, past, view>>

Init ==
    /\ store \in [Key -> Doc \cup {Absent}]
    /\ past = [k \in Key |-> {store[k]} \ {Absent}]
    /\ view = [k \in Key |-> Absent]

Remember(k, d) == [past EXCEPT ![k] = @ \cup {d}]

Create(k, d) ==
    /\ store[k] = Absent
    /\ d \notin past[k]
    /\ store' = [store EXCEPT ![k] = d]
    /\ past' = Remember(k, d)
    /\ UNCHANGED view

Replace(k, d) ==
    /\ store[k] # Absent
    /\ store' = [store EXCEPT ![k] = d]
    /\ past' = Remember(k, d)
    /\ UNCHANGED view

Remove(k) ==
    /\ store[k] # Absent
    /\ store' = [store EXCEPT ![k] = Absent]
    /\ UNCHANGED <<past, view>>

RemoveAndDetach(k, owner, d) ==
    /\ k # owner
    /\ store[k] # Absent
    /\ store[owner] # Absent
    /\ store' = [store EXCEPT ![k] = Absent, ![owner] = d]
    /\ past' = Remember(owner, d)
    /\ UNCHANGED view

Serve(k, v) ==
    /\ v \in past[k] \cup {Absent}
    /\ view' = [view EXCEPT ![k] = v]
    /\ UNCHANGED <<store, past>>

Next ==
    \E k \in Key :
        \/ \E d \in Doc : Create(k, d) \/ Replace(k, d)
        \/ Remove(k)
        \/ \E owner \in Key, d \in Doc : RemoveAndDetach(k, owner, d)
        \/ \E v \in Doc \cup {Absent} : Serve(k, v)

Spec == Init /\ [][Next]_vars
=============================================================================
