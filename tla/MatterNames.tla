------------------------------ MODULE MatterNames ------------------------------
(***************************************************************************)
(* Names of Matter endpoints (platform/matter-name-map.ts, matter-name-    *)
(* service.ts, matter-name-store.ts and matter-name-sanitizer.ts).         *)
(*                                                                         *)
(* A name is a sequence of parts: what is left of the panel's label after  *)
(* it was cleaned, then a suffix for the type or a tag from the device id. *)
(* Names that differ in case only are the same.  A device that is mapped   *)
(* before the panel's devices are all known gets its name incrementally;   *)
(* when they are, all names are computed in one batch and stored.          *)
(***************************************************************************)
EXTENDS Naturals, Sequences, FiniteSets

CONSTANTS
    None,
    Device,      \* numbers, in the order of the device ids
    Priority,    \* TYPE_PRIORITY of each device,
    Suffix,      \* TYPE_SUFFIX,
    Tag,         \* and the tags from its id: the last four characters, and more
    Part,        \* what names are made of
    Label        \* cleaned names devices may have

Name == Seq(Part)

ASSUME DeviceAssumption ==
    /\ Device \subseteq Nat /\ IsFiniteSet(Device) /\ None \notin Device
    /\ Priority \in [Device -> Nat]
ASSUME NameAssumption ==
    /\ Label \subseteq Name /\ None \notin Name
    /\ Suffix \in [Device -> Part] /\ Tag \in [Device -> Seq(Part) \ {<<>>}]
    /\ "I" \in Part

VARIABLES
    label,       \* the panel's name of each device
    listed,      \* the devices it has
    slots,       \* slotOwners: who has a name, and the base it came from
    nameOf,      \* uuidToName
    store,       \* klares4-matter-names.json
    seeded,      \* history: the devices this boot, or its last batch, knew at once
    from         \* history: the label each named device had when it was named

\* What a specification usually calls vars, Init, Next and so on has a prefix here:
\* MatterPlatform_proofs extends this module and MatterPrune.
panelState == <<label, listed>>
namesVars == <<panelState, slots, nameOf, store, seeded, from>>

-----------------------------------------------------------------------------
(* Names                                                                   *)

\* buildTypedSuffix: None if the name already mentions the type
Typed(n, d) == IF \E i \in DOMAIN n : n[i] = Suffix[d] THEN None ELSE Append(n, Suffix[d])

\* buildUuidFallbackSuffix, with the short tag or a longer, unique one
Tagged(n, d, length) == Append(n, Tag[d][length])

\* A user's device before a sensor, then the smaller id
Outranks(d, e) == Priority[d] > Priority[e] \/ (Priority[d] = Priority[e] /\ d < e)

\* The label with a number, which is written as so many strokes
Numbered(base, n) == base \o [i \in 1..n |-> "I"]

\* The names a device would have, best first: its label; with its type, unless the
\* label mentions it; with a tag, ever longer; with a tag and a number.  The numbers
\* have no end; the model stops where all of the others' names are used up.
Candidates(d) ==
    LET base == label[d]
    IN  <<base>> \o (IF Typed(base, d) = None THEN <<>> ELSE <<Typed(base, d)>>)
        \o [l \in DOMAIN Tag[d] |-> Tagged(base, d, l)]
        \o [k \in 1..Cardinality(Device) |-> Tagged(Numbered(base, k + 1), d, 1)]

\* variant: no device is in another's way
Free_Any(candidates, taken) == candidates[1]

\* The first of the candidates that nobody has
Free(candidates, taken) ==
    candidates[CHOOSE i \in DOMAIN candidates :
                  candidates[i] \notin taken /\ \A j \in 1..(i - 1) : candidates[j] \in taken]

\* computeMatterNameMap of the devices D, in the order of sorted: each takes the first
\* name that no device before it has taken.
Before(D, d) == {e \in D : Outranks(e, d)}

NamesOf(D) ==
    LET name[d \in D] == Free(Candidates(d), {name[e] : e \in Before(D, d)})
    IN  name

\* Names, and the bases they came from
NoEntry == [name |-> None, base |-> None]

Batch(D) == [d \in Device |-> IF d \in D THEN [name |-> NamesOf(D)[d], base |-> label[d]]
                                         ELSE NoEntry]

Names(entries) == [d \in Device |-> entries[d].name]

-----------------------------------------------------------------------------
(* MatterNameRegistry                                                      *)

Slot(n) == IF n \in DOMAIN slots THEN slots[n].dev ELSE None

\* suffixFor
SuffixFor(d, base) ==
    IF Typed(base, d) # None /\ Slot(Typed(base, d)) \in {None, d}
    THEN Typed(base, d) ELSE Tagged(base, d, 1)

With(S, n, d, base) == [m \in DOMAIN S \cup {n} |-> IF m = n THEN [dev |-> d, base |-> base] ELSE S[m]]

\* variant: the later of two equals has the clean name
Displaces_Later(d, owner) == Priority[d] >= Priority[owner]

Displaces(d, owner) == Outranks(d, owner)

\* resolve, of a device that is not known
Resolve(d) ==
    LET n == label[d]
        owner == Slot(n)
        moved == SuffixFor(owner, slots[n].base)
        suffixed == SuffixFor(d, n)
    IN  \/ /\ owner = None
           /\ slots' = With(slots, n, d, n)
           /\ nameOf' = [nameOf EXCEPT ![d] = n]
        \/ /\ owner # None /\ Displaces(d, owner)
           /\ slots' = With(With(slots, moved, owner, slots[n].base), n, d, n)
           /\ nameOf' = [nameOf EXCEPT ![owner] = moved, ![d] = n]
        \/ /\ owner # None /\ ~Displaces(d, owner)
           /\ slots' = With(slots, suffixed, d, n)
           /\ nameOf' = [nameOf EXCEPT ![d] = suffixed]

-----------------------------------------------------------------------------
(* Actions                                                                 *)

\* A new registry is seeded with a map.
Seeds(entries) ==
    LET owned == {d \in Device : entries[d] # NoEntry}
        ownerOf(n) == CHOOSE d \in owned : entries[d].name = n
    IN  /\ nameOf' = Names(entries)
        /\ slots' = [n \in {entries[d].name : d \in owned} |->
                        [dev |-> ownerOf(n), base |-> entries[ownerOf(n)].base]]
        /\ seeded' = owned
        /\ from' = [d \in Device |-> entries[d].base]

NamesInit ==
    /\ label \in [Device -> Label]
    /\ listed \in SUBSET Device
    /\ slots = <<>>
    /\ nameOf = [d \in Device |-> None]
    /\ store = [d \in Device |-> NoEntry]
    /\ seeded = {}
    /\ from = [d \in Device |-> None]

\* resolveName: a known device keeps its name.
Map(d) ==
    /\ d \in listed /\ nameOf[d] = None
    /\ Resolve(d)
    /\ from' = [from EXCEPT ![d] = label[d]]
    /\ UNCHANGED <<panelState, store, seeded>>

\* finalize, when the initial sync is complete; the file may fail to be written.
Finalize ==
    /\ Seeds(Batch(listed))
    /\ store' \in {store, Batch(listed)}
    /\ UNCHANGED panelState

Restart ==
    /\ Seeds(store)
    /\ UNCHANGED <<panelState, store>>

PanelRenames(d, n) ==
    /\ label' = [label EXCEPT ![d] = n]
    /\ UNCHANGED <<listed, slots, nameOf, store, seeded, from>>

PanelEdits(d) ==
    /\ listed' = IF d \in listed THEN listed \ {d} ELSE listed \cup {d}
    /\ UNCHANGED <<label, slots, nameOf, store, seeded, from>>

NamesNext ==
    \/ \E d \in Device : Map(d) \/ PanelEdits(d) \/ \E n \in Label : PanelRenames(d, n)
    \/ Finalize
    \/ Restart

NamesSpec == NamesInit /\ [][NamesNext]_namesVars

-----------------------------------------------------------------------------
(* Properties                                                              *)

Named == {d \in Device : nameOf[d] # None}

NamesTypeOK ==
    /\ label \in [Device -> Label] /\ listed \subseteq Device
    /\ DOMAIN slots \subseteq Name
    /\ \A n \in DOMAIN slots : slots[n] \in [dev : Device, base : Label]
    /\ nameOf \in [Device -> Name \cup {None}]
    /\ store \in [Device -> [name : Name, base : Label] \cup {NoEntry}]
    /\ seeded \subseteq Device
    /\ from \in [Device -> Label \cup {None}]

\* No two endpoints answer to one name.
Distinct == \A d, e \in Named : d # e => nameOf[d] # nameOf[e]

\* After a batch, and after a boot from a stored map, no two endpoints have one name
\* ("by construction the resulting map can never contain two equal display names"),
\* whatever suffixes, tags and labels there are; until a new device is mapped.
DistinctAfterBatch == Named \subseteq seeded => Distinct

\* A device that does not have its own clean name has lost it to one that outranks it
\* and has it now: through displacements, batches and restarts from an older map.
CleanNameToTheHigher ==
    (\A d \in Named : from[d] = label[d]) =>
        \A d \in Named :
            nameOf[d] # label[d] => \E e \in Named : nameOf[e] = label[d] /\ Outranks(e, d)

\* On a first boot the names do not depend on the order of the discovery: they are
\* those of the batch ("the same set of devices resolve to the same uuid ->
\* displayName mapping regardless of the order they're discovered/re-mapped in").
OrderIndependent ==
    (seeded = {} /\ Named = listed /\ \A d \in Named : from[d] = label[d]) =>
        nameOf = Names(Batch(listed))
=============================================================================
