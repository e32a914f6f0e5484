------------------------- MODULE InitializerMeaning -------------------------
(***************************************************************************)
(* The objects that Initializers makes against those that C has.           *)
(***************************************************************************)
EXTENDS Initializers, CInitializers

Meaning(k) == Initializer(text.type, text.inits[k])

\* The type of the k-th object, with the length that its initialiser gives it.
TypeOf(k) == IF text.type.count < 0 THEN TypeWith(Meaning(k).seen) ELSE text.type

RECURSIVE Within(_)
Within(t) == {t} \cup UNION {Within(t.parts[k]) : k \in DOMAIN t.parts}

-----------------------------------------------------------------------------
(* The shapes: initialisers that this compiler takes for something else *)

\* A union's first member is initialised, and its LLVM type is made of its largest.
OddUnion(t) ==
    /\ t.kind = "union"
    /\ IF text.global THEN Largest(t) # 1 /\ ~(IsScalar(t.parts[1]) /\ IsScalar(t.parts[Largest(t)]))
       ELSE ~IsScalar(t.parts[1]) /\ (t = text.type \/ Largest(t) # 1)

\* What the initialiser does not name.
Unnamed(k) == {l \in Leaves(TypeOf(k), 0) : \A v \in Meaning(k).values : v.offset # l.offset}

\* A type without a length that several objects share; floating point values and gaps
\* in global objects; gaps in local ones.
Shape(k) ==
    \/ Meaning(k).notes # {}
    \/ \E t \in Within(text.type) : OddUnion(t)
    \/ text.global /\ \E t \in Within(text.type) : t.kind = "double"
    \/ text.global /\ \E l \in Unnamed(k) : l.kind # "int"
    \/ ~text.global /\ text.inits[k] # <<>> /\ Unnamed(k) # {}
    \/ text.type.count < 0 /\ text.shared

-----------------------------------------------------------------------------
(* Properties *)

NoPart == Scalar("none", 0)

\* The indices of each value lead from the object to a part of the type that the value
\* is recorded with, and no two values have the same way: what is read in braces within
\* braces, and twice, is put in its own place.
PathsFit ==
    \A i \in DOMAIN initValues :
        LET v == initValues[i]
            into(t, k) == IF IsScalar(t) \/ (t.kind # "array" /\ k >= Count(t)) THEN NoPart ELSE Part(t, k)
        IN  /\ FoldLeft(into, text.type, Tail(v.offsets)).kind = v.type
            /\ \A j \in DOMAIN initValues : j # i => initValues[j].offsets # v.offsets

\* A text is rejected only if some object's initialiser is not C, and all are C in a
\* text that is translated.
RejectionIsRight ==
    /\ outcome = "reported" => ~Meaning(object).ok \/ Shape(object)
    /\ outcome # "reported" => \A k \in DOMAIN declared : Meaning(k).ok \/ Shape(k)

\* Each scalar of an object has the value that C gives it, whether it gets there as
\* part of a constant or by a store, and the object is as long as its initialiser.
ObjectsAreRight ==
    /\ outcome = "crashed" => Shape(object)
    /\ \A k \in DOMAIN objects :
          Shape(k) \/ ~Meaning(k).ok \/ text.inits[k] = <<>>
          \/ \A l \in Leaves(TypeOf(k), 0) :
                {m.value : m \in {m \in objects[k].memory : m.offset = l.offset}} = {ValueAt(Meaning(k), l.offset)}
    /\ \A k \in DOMAIN objects : Shape(k) \/ text.type.count >= 0 \/ objects[k].count = Meaning(k).seen

=============================================================================
