------------------------------- MODULE DenoGlobals ------------------------------
(***************************************************************************)
(* What a snapshot of a TypeScript session keeps of its globals: values    *)
(* are tagged and written as JSON, and rebuilt in a fresh isolate.  The    *)
(* code of the session makes objects, changes them and lets any number of  *)
(* names and other objects refer to them.                                  *)
(*                                                                         *)
(* A value is a primitive or a reference into the heap.  "one" stands for  *)
(* what JSON or a tag carries as it is, "dropped" for undefined, functions *)
(* and symbols.  An object is an array, a map, a set or a plain object,    *)
(* with its items; a "stamp", which is a Date or a Uint8Array; a Date that *)
(* is invalid; or a plain object that looks like a tag of the snapshot     *)
(* format and is no proper one ({__lang: "map", v: 1}).                    *)
(***************************************************************************)
EXTENDS Integers, Sequences, FiniteSets, SequencesExt

CONSTANTS
    Vars,       \* the names the code assigns to
    Tools,      \* names of tools, which are globals of every session
    MaxObjects, \* bound of the model: how many objects the code makes
    MaxItems,   \* bound of the model: how many items an object has
    MaxEdits    \* bound of the model: how many steps the code takes

Names == Vars \cup Tools

ASSUME GlobalsAssumption == Vars \cap Tools = {}

Prim(t) == [t |-> t]
Ref(o) == [t |-> "ref", o |-> o]
Missing == Prim("dropped")
Primitives == {Prim(t) : t \in {"one", "null", "nan", "dropped"}}

Containers == {"object", "array", "map", "set"}
Kinds == Containers \cup {"stamp", "invalid", "lookalike"}

VARIABLES
    heap,      \* the sequence of objects made so far
    globals,   \* [Names -> value]
    snapshot,  \* the latest snapshot: [names -> tree of JSON]
    origin,    \* history: the heap and the globals it was taken of
    phase,     \* "running", "restored" or "corrupt", when the restore threw
    edits      \* how many steps the code has taken

vars == <<heap, globals, snapshot, origin, phase, edits>>

Values == Primitives \cup {Ref(o) : o \in DOMAIN heap}

TypeOK ==
    /\ \A i \in DOMAIN heap :
         /\ heap[i].kind \in Kinds
         /\ heap[i].kind \notin Containers => heap[i].items = <<>>
         /\ \A j \in DOMAIN heap[i].items :
              heap[i].items[j].v \in Values /\ heap[i].items[j].k \in Values
    /\ globals \in [Names -> Values]
    /\ DOMAIN snapshot \subseteq Vars
    /\ phase \in {"running", "restored", "corrupt"}
    /\ edits \in 0..MaxEdits

Init ==
    /\ heap = <<>>
    /\ globals = [n \in Names |-> Missing]
    /\ snapshot = [n \in {} |-> Missing]
    /\ origin = [heap |-> heap, globals |-> globals]
    /\ phase = "running"
    /\ edits = 0

--------------------------------------------------------------------------------
(* The code *)

(* An item is put at the end; a map has each key once, a set each value.   *)
Put(object, item) ==
    LET same(i) == CASE object.kind = "map" -> object.items[i].k = item.k
                     [] object.kind = "set" -> object.items[i].v = item.v
                     [] OTHER -> FALSE
        at == {i \in DOMAIN object.items : same(i)}
    IN IF at = {} THEN [object EXCEPT !.items = Append(@, item)]
       ELSE [object EXCEPT !.items = [i \in DOMAIN @ |-> IF i \in at THEN [@[i] EXCEPT !.v = item.v] ELSE @[i]]]

Edit == phase # "corrupt" /\ edits < MaxEdits /\ edits' = edits + 1

Kept == UNCHANGED <<snapshot, origin, phase>>

(* A tool's name cannot be assigned to. *)
Assign ==
    /\ Edit /\ Kept
    /\ \E n \in Vars, value \in Values : globals' = [globals EXCEPT ![n] = value]
    /\ UNCHANGED heap

Make ==
    /\ Edit /\ Kept
    /\ Len(heap) < MaxObjects
    /\ \E n \in Vars, kind \in Kinds :
         /\ heap' = Append(heap, [kind |-> kind, items |-> <<>>])
         /\ globals' = [globals EXCEPT ![n] = Ref(Len(heap) + 1)]

PutItem ==
    /\ Edit /\ Kept
    /\ \E o \in DOMAIN heap :
         /\ heap[o].kind \in Containers /\ Len(heap[o].items) < MaxItems
         /\ \E value \in Values, key \in IF heap[o].kind = "map" THEN Values ELSE {Prim("one")} :
              heap' = [heap EXCEPT ![o] = Put(@, [k |-> key, v |-> value])]
    /\ UNCHANGED globals

--------------------------------------------------------------------------------
(* __langshell_tag_value: the tree of a value, Missing if there is none, or *)
(* an error; seen is the set it shares down and along the whole value.      *)

Tagged(tree, seen) == [ok |-> TRUE, tree |-> tree, seen |-> seen, items |-> <<>>]
Throws == [ok |-> FALSE, tree |-> Missing, seen |-> {}, items |-> <<>>]

(* What becomes of an item whose key or value has no tree. *)
Collected(kind, items, key, tree) ==
    LET keep == Append(items, [k |-> key, v |-> tree]) IN
    CASE kind = "array" -> IF tree = Missing THEN Append(items, [k |-> key, v |-> Prim("null")]) ELSE keep
      [] kind = "map" -> IF Missing \in {key, tree} THEN items ELSE keep
      [] OTHER -> IF tree = Missing THEN items ELSE keep

RECURSIVE Tag(_, _, _)
Tag(objects, value, seen) ==
    CASE value.t = "nan" -> Tagged(Prim("null"), seen)
      [] value.t \notin {"nan", "ref"} -> Tagged(value, seen)
      [] value.t = "ref" ->
           LET object == objects[value.o]
               item(so_far, it) ==
                   LET k == IF object.kind = "map" THEN Tag(objects, it.k, so_far.seen)
                            ELSE Tagged(it.k, so_far.seen)
                       v == Tag(objects, it.v, k.seen)
                   IN IF ~so_far.ok \/ ~k.ok \/ ~v.ok THEN Throws
                      ELSE [v EXCEPT !.items = Collected(object.kind, so_far.items, k.tree, v.tree)]
               all == FoldLeft(item, Tagged(Missing, seen \cup {value.o}), object.items)
           IN IF value.o \in seen \/ object.kind = "invalid" \/ ~all.ok THEN Throws
              ELSE Tagged([t |-> object.kind, items |-> all.items], all.seen)

(* Mutant: one set of seen objects for all the globals. *)
SnapshotGlobalsAtOnce(objects, names) ==
    LET order == SetToSeq(Vars)
        one(so_far, n) ==
            LET tagged == Tag(objects, names[n], so_far.seen)
            IN IF ~tagged.ok \/ tagged.tree = Missing THEN so_far
               ELSE [seen |-> tagged.seen,
                     out |-> [m \in DOMAIN so_far.out \cup {n} |->
                                IF m = n THEN tagged.tree ELSE so_far.out[m]]]
    IN FoldLeft(one, [seen |-> {}, out |-> [m \in {} |-> Missing]], order).out

(* __langshell_snapshot_globals: each global by itself; one that cannot be *)
(* tagged is left out, and so is what every session has from the start.    *)
SnapshotGlobals(objects, names) ==
    LET tagged == [n \in Vars |-> Tag(objects, names[n], {})]
    IN [n \in {m \in Vars : tagged[m].ok /\ tagged[m].tree # Missing} |-> tagged[n].tree]

(* __langshell_untag_value: a value of new objects at the end of the heap. *)
Untagged(ok, value, objects) == [ok |-> ok, value |-> value, heap |-> objects, items |-> <<>>]

(* Mutant: the tag of a set is unknown. *)
KindRebuiltNoSet(t) == IF t = "set" THEN "array" ELSE t

KindRebuilt(t) == t

RECURSIVE Untag(_, _)
Untag(tree, objects) ==
    IF tree.t \notin Kinds THEN Untagged(TRUE, tree, objects)
    ELSE LET item(so_far, it) ==
                 LET k == IF tree.t = "map" THEN Untag(it.k, so_far.heap)
                          ELSE Untagged(TRUE, it.k, so_far.heap)
                     v == Untag(it.v, k.heap)
                 IN [ok |-> so_far.ok /\ k.ok /\ v.ok, value |-> Missing, heap |-> v.heap,
                     items |-> Append(so_far.items, [k |-> k.value, v |-> v.value])]
             all == FoldLeft(item, Untagged(TRUE, Missing, objects), tree.items)
             rebuilt == FoldLeft(Put, [kind |-> KindRebuilt(tree.t), items |-> <<>>], all.items)
         IN Untagged(tree.t # "lookalike" /\ all.ok, Ref(Len(all.heap) + 1), Append(all.heap, rebuilt))

(* __langshell_restore_globals: one name after the other, until one throws. *)
Restored(trees, objects, names) ==
    LET one(so_far, n) ==
            LET untagged == Untag(trees[n], so_far.heap)
            IN IF ~so_far.ok \/ ~untagged.ok THEN [so_far EXCEPT !.ok = FALSE]
               ELSE [ok |-> TRUE, heap |-> untagged.heap,
                     globals |-> [so_far.globals EXCEPT ![n] = untagged.value]]
    IN FoldLeft(one, [ok |-> TRUE, heap |-> objects, globals |-> names], SetToSeq(DOMAIN trees))

--------------------------------------------------------------------------------
(* inject_inputs: the inputs of a run become globals and stay, even those  *)
(* of a run that fails because of a later one; a tool can be replaced.     *)
Inputs ==
    LET lookalike == [t |-> "lookalike", items |-> <<>>]
    IN [Tools -> {Prim("one")}] \cup [Vars -> {[t |-> "array", items |-> <<>>], lookalike}]

InjectInputs ==
    /\ Edit /\ Kept
    /\ \E inputs \in Inputs :
         LET after == Restored(inputs, heap, globals)
         IN heap' = after.heap /\ globals' = after.globals

TakeSnapshot ==
    /\ phase # "corrupt"
    /\ snapshot' = SnapshotGlobals(heap, globals)
    /\ origin' = [heap |-> heap, globals |-> globals]
    /\ phase' = "running"
    /\ UNCHANGED <<heap, globals, edits>>

(* A session is made of the snapshot in a fresh isolate, or is not made. *)
RestoreSession ==
    LET after == Restored(snapshot, <<>>, [n \in Names |-> Missing]) IN
    /\ phase = "running"
    /\ heap' = after.heap
    /\ globals' = after.globals
    /\ phase' = IF after.ok THEN "restored" ELSE "corrupt"
    /\ UNCHANGED <<snapshot, origin, edits>>

Next ==
    \/ Assign
    \/ Make
    \/ PutItem
    \/ InjectInputs
    \/ TakeSnapshot
    \/ RestoreSession

Spec == Init /\ [][Next]_vars

--------------------------------------------------------------------------------
(* What a reader of the code takes a value to be *)

Parts(object) ==
    {object.items[i].v : i \in DOMAIN object.items}
        \cup (IF object.kind = "map" THEN {object.items[i].k : i \in DOMAIN object.items} ELSE {})

RECURSIVE Reached(_, _)
Reached(objects, values) ==
    LET refs == {v \in values : v.t = "ref"}
        more == values \cup UNION {Parts(objects[v.o]) : v \in refs}
    IN IF more = values THEN values ELSE Reached(objects, more)

Cyclic(objects, value) ==
    \E v \in Reached(objects, {value}) :
        v.t = "ref" /\ v \in Reached(objects, Parts(objects[v.o]))

(* The references met when a value is written out, as often as they are. *)
RECURSIVE Met(_, _)
Met(objects, value) ==
    IF value.t # "ref" THEN <<>>
    ELSE LET object == objects[value.o]
             item(so_far, it) ==
                 so_far \o (IF object.kind = "map" THEN Met(objects, it.k) ELSE <<>>) \o Met(objects, it.v)
         IN FoldLeft(item, <<value>>, object.items)

Shared(objects, value) == ~Cyclic(objects, value) /\ ~IsInjective(Met(objects, value))

RECURSIVE WrittenOut(_, _)
WrittenOut(objects, value) ==
    IF value.t # "ref" THEN value
    ELSE LET object == objects[value.o] IN
         [t |-> object.kind,
          items |-> [i \in DOMAIN object.items |->
              [k |-> WrittenOut(objects, object.items[i].k), v |-> WrittenOut(objects, object.items[i].v)]]]

(* A value that the formats have a word for: nothing in it is dropped,     *)
(* turned into null, invalid or met twice.                                 *)
Plain(objects, value) ==
    /\ ~Cyclic(objects, value)
    /\ IsInjective(Met(objects, value))
    /\ \A v \in Reached(objects, {value}) :
         v.t # "nan" /\ (v.t = "ref" => objects[v.o].kind # "invalid")
    /\ \A v \in Reached(objects, {value}) \ {value} : v # Missing

Lookalikes == \E i \in DOMAIN origin.heap : origin.heap[i].kind = "lookalike"

(* A map or a set that loses an item because JSON has null for NaN. *)
Collides ==
    \E i \in DOMAIN origin.heap : LET object == origin.heap[i] IN
        /\ object.kind \in {"map", "set"}
        /\ {Prim("nan"), Prim("null")} \subseteq Parts(object)

Restores == phase = "running" /\ phase' # "running"

(* A session made of a snapshot has each global of plain data as it was    *)
(* when the snapshot was taken, whatever the others are: one that has no   *)
(* tree does not take another with it, and no two names get in each        *)
(* other's way, be they names of one object.  No value but a lookalike     *)
(* makes the restore fail.  (The type invariant goes with it.)             *)
Faithful ==
    [][/\ TypeOK'
       /\ Restores /\ ~Lookalikes =>
            /\ phase' = "restored"
            /\ \A n \in Vars : Plain(origin.heap, origin.globals[n]) =>
                 WrittenOut(heap', globals'[n]) = WrittenOut(origin.heap, origin.globals[n])]_vars

(* Nothing gets lost by and by: what the first snapshot has left of the    *)
(* globals, every snapshot of the session made of it has again.            *)
Stable ==
    [][Restores /\ phase' = "restored" /\ ~Collides =>
         SnapshotGlobals(heap', globals') = snapshot]_vars

(* What cannot be snapshotted is, in the words of the error, cyclic: each  *)
(* acyclic value of valid parts is in the snapshot.                        *)
OnlyCyclesLeftOut ==
    \A n \in Vars : LET value == origin.globals[n] IN
        \/ n \in DOMAIN snapshot \/ value = Missing
        \/ Cyclic(origin.heap, value)
        \/ \E v \in Reached(origin.heap, {value}) : v.t = "ref" /\ origin.heap[v.o].kind = "invalid"

================================================================================
