----------------------------- MODULE Elaboration -----------------------------
(***************************************************************************)
(* elaborate (elaborate/mod.rs): the theories of a program get arrows for  *)
(* the constants, partial applications and names that it uses, after a     *)
(* check that it defines and uses none of the reserved ones itself.        *)
(*                                                                         *)
(* Theories are loaded and extended (with_extensions, a library).  A       *)
(* theory has a syntax and its arrows; that of types has the syntax "nat". *)
(* Arrows are kept by name, and in any order of names: uses are taken in   *)
(* any order of the definitions that have them.                            *)
(***************************************************************************)
EXTENDS GeneratedArrows, Sources

CONSTANT Literals   \* what is known of the stem of a constant

VARIABLE uses       \* partial applications to go, by where they are

ElaborationInit == SourcesInit /\ uses = {}

\* The theories become after, unless the first of the reasons holds, each a pair
\* of a condition and an error.
Continue(reasons, after, then) ==
  LET wrong == {i \in DOMAIN reasons : reasons[i][1]}
  IN /\ IF wrong # {} THEN Refuse(reasons[Min(wrong)][2])
        ELSE /\ raw' = after
             /\ stage' = then
             /\ UNCHANGED <<given, error>>
     /\ UNCHANGED <<uses, sourceVars>>

-----------------------------------------------------------------------------
Operations(t) == {t.edges[e].n : e \in EdgesOf(t)}
InMaps(arrow) == UNION {Operations(t) : t \in Range(arrow.maps)}
InDefinition(arrow) == UNION {Operations(t) : t \in Range(arrow.def)}
References(arrow) == InMaps(arrow) \cup InDefinition(arrow) \cup Range(arrow.labels)

\* What a source file declares: names of arrows and operations are sequences of
\* prefixes, a stem and numbers, and an arrow has at most one definition.
OperationNames == [p : Seq(STRING), f : STRING, n : Seq(Nat)]

IsSource(arrow) ==
  DOMAIN arrow.def \subseteq {1} /\ InDefinition(arrow) \subseteq OperationNames

IsSourceFile(file) ==
  \A t \in DOMAIN file.theories :
    /\ {"syntax", "arrows"} \subseteq DOMAIN file.theories[t]
    /\ \A o \in DOMAIN file.theories[t].arrows :
         o \in OperationNames /\ IsSource(file.theories[t].arrows[o])

SourceFiles ==
  (UNION {Range(c.inputs) : c \in Commands})
    \cup UNION {Range(Bundles[n].files) : n \in DOMAIN Bundles}

ASSUME SourcesAssumption ==
  /\ \A c \in Commands : c.roots \in Seq(STRING) /\ c.inputs \in Seq(SourceFiles)
  /\ \A n \in DOMAIN Bundles :
       Bundles[n].extends \in Seq(STRING) /\ Bundles[n].files \in Seq(SourceFiles)
  /\ \A file \in SourceFiles : IsSourceFile(file)

\* A registry is finite; a path is that of one file, which nobody writes while it
\* is read (main.rs:198-204); and different bundles have different files, as they
\* have directories of their own (bundles.rs:58; a local bundle in the directory
\* of another is left out: no order could be right for a file that both list).
FilesOf(n) == Range(Bundles[n].files)
FilesFor(c) == Range(c.inputs) \cup UNION {FilesOf(n) : n \in DOMAIN Bundles}

ASSUME LibraryAssumption ==
  /\ IsFiniteSet(DOMAIN Bundles)
  /\ \A c \in Commands : \A f, g \in FilesFor(c) : f.path = g.path => f = g
  /\ \A n, m \in DOMAIN Bundles : n # m => FilesOf(n) \cap FilesOf(m) = {}

Arrows(theory) == Range(theory.arrows)
InTheory(theory) == UNION {References(a) : a \in Arrows(theory)}
InDefinitions(theory) == UNION {InDefinition(a) : a \in Arrows(theory)}

\* The theories with other syntax than "nat", and those with the syntax "type".
Above == {t \in DOMAIN raw : raw[t].syntax # "nat"}
Typed == {t \in DOMAIN raw : raw[t].syntax = "type"}

\* theories with the arrows of new(t), which those that are there go before.
Extended(new) ==
  [t \in DOMAIN raw |-> [raw[t] EXCEPT !.arrows = Override(@, new[t])]]

\* validate_constant, of the part after the prefix.
ValidConstant(o, kind) ==
  LET literal == Literals[o.f]
  IN literal.hex /\ literal.nibbles = kind.nibbles /\ literal.clean

-----------------------------------------------------------------------------
\* elaborate_type_literals.

LiteralsIn(theory, kind) ==
  {o \in InTheory(theory) : o = Name(<<"type", kind.prefix>>, o.f, o.n)}

\* An arrow that is called as one of the new ones is a primitive with its interface.
Compatible(theory, new) ==
  \A o \in DOMAIN new \cap DOMAIN theory.arrows :
    /\ theory.arrows[o].def = <<>>
    /\ theory.arrows[o].maps = new[o].maps

TypeLiterals(kind, then) ==
  LET used == [t \in DOMAIN raw |-> IF t \in Typed THEN LiteralsIn(raw[t], kind) ELSE {}]
      all == UNION Range(used)
      new == [t \in DOMAIN raw |->
                IF t = "type" THEN [o \in all |-> TypeArrow("0", "1")]
                ELSE [o \in used[t] |-> SymbolicConstArrow(o, kind)]]
      wrong == \/ \E o \in all : ~ValidConstant(o, kind)
               \/ \E t \in DOMAIN raw : ~Compatible(raw[t], new[t])
  IN IF all = {} THEN Continue(<<>>, raw, then)
     ELSE Continue(<<<<"type" \notin DOMAIN raw, "MissingTheory">>, <<wrong, "InvalidConstant">>>>,
                   Extended(new), then)

TypeLiteralsU64 == stage = "literals u64" /\ TypeLiterals(U64, "literals u32")
TypeLiteralsU32 == stage = "literals u32" /\ TypeLiterals(U32, "validation")

-----------------------------------------------------------------------------
\* validate.rs.

ConstPrefixes == {"const", U64.prefix, U32.prefix}
ReservedPrefixes == {"name", "partial"} \cup ConstPrefixes \cup GeneratedPrefixes

\* Mutant: the program may have names of its own.
ReservedButNames(o) == o.p # <<>> /\ Head(o.p) \in ReservedPrefixes \ {"name"}

ReservedName(o) == o.p # <<>> /\ Head(o.p) \in ReservedPrefixes

\* Mutant: none is stripped.
ReservedDirectly(o) == o.p # <<>> /\ Head(o.p) \in GeneratedPrefixes

\* Of name and partial one is stripped.
ReservedReference(o) ==
  LET rest == IF o.p # <<>> /\ Head(o.p) \in {"name", "partial"} THEN Tail(o.p) ELSE o.p
  IN rest # <<>> /\ Head(rest) \in GeneratedPrefixes

\* A helper, or through names and partial applications one.
LeadsToHelper(o) ==
  \E i \in DOMAIN o.p :
    /\ o.p[i] \in GeneratedPrefixes
    /\ \A j \in 1..(i - 1) : o.p[j] \in {"name", "partial"}

ArrowsIn(T) == UNION {{<<t, o>> : o \in DOMAIN raw[t].arrows} : t \in T}

\* try_interpret, in a syntax that interpreted_syntax has found.
Uninterpreted(t, o) ==
  /\ raw[t].syntax \in DOMAIN raw
  /\ ~(InMaps(raw[t].arrows[o]) \subseteq DOMAIN raw[raw[t].syntax].arrows)

\* The type maps of the arrow o have different metavariables.
Mismatch(t, o) == Context(raw[t].arrows[o]) # Len(TargetMap(raw[t].arrows[o]).sources)

ValidationReasons ==
  <<<<\E a \in ArrowsIn(DOMAIN raw) : ReservedName(a[2]), "ReservedOperationPrefix">>,
    <<\E t \in DOMAIN raw : \E o \in InTheory(raw[t]) : ReservedReference(o),
      "ReservedOperationReference">>,
    <<\E a \in ArrowsIn(DOMAIN raw) : raw[a[1]].arrows[a[2]].reserved, "ReservedVariablePrefix">>,
    <<\E t \in Above : raw[t].syntax \notin DOMAIN raw, "Graph">>,
    <<\E a \in ArrowsIn(Above) : Uninterpreted(a[1], a[2]), "TypeMapInterpretation">>,
    <<\E a \in ArrowsIn(Above) : Mismatch(a[1], a[2]), "TypeMapDomainMismatch">>>>

Validate ==
  /\ stage = "validation"
  /\ Continue(ValidationReasons, raw, "constants u64")

-----------------------------------------------------------------------------
\* constants::elaborate.

Constants(kind, then) ==
  LET used(t) == {o \in InDefinitions(raw[t]) : Starts(o, kind.prefix)}
  IN Continue(<<<<\E t \in DOMAIN raw : \E o \in used(t) : ~ValidConstant(o, kind),
                  "InvalidConstant">>>>,
              Extended([t \in DOMAIN raw |-> [o \in used(t) |-> ConstArrow(kind)]]), then)

ConstantsU64 == stage = "constants u64" /\ Constants(U64, "constants u32")
ConstantsU32 == stage = "constants u32" /\ Constants(U32, "uses")

-----------------------------------------------------------------------------
\* partial_applications.rs.

\* The uses in the definition of the arrow o: edge e of it is a partial application.
UsesIn(t, o) ==
  UNION {{[theory |-> t, arrow |-> o, e |-> e] :
            e \in {d \in EdgesOf(def) : Starts(def.edges[d].n, "partial")}} :
           def \in Range(raw[t].arrows[o].def)}

CollectUses ==
  /\ stage = "uses"
  /\ uses' = UNION {UNION {UsesIn(t, o) : o \in DOMAIN raw[t].arrows} : t \in Above}
  /\ stage' = "partials"
  /\ UNCHANGED <<given, raw, error, sourceVars>>

\* A definition's uses come in order and one after the other; definitions come in
\* any order.
IsNext(use) ==
  /\ stage = "partials" /\ use \in uses
  /\ \A other \in uses :
       IF other.arrow = use.arrow /\ other.theory = use.theory THEN use.e <= other.e
       ELSE UsesIn(other.theory, other.arrow) \subseteq uses

Used(use) == raw[use.theory].arrows[use.arrow].def[1].edges[use.e].n
Known(use) == DOMAIN raw[use.theory].arrows

\* parse_partial: partial.f.N, where f may have prefixes and numbers.
WellFormed(o) == o.n # <<>>
PartialOf(o) == Name(Tail(o.p), o.f, Front(o.n))
AppliedBy(o) == Last(o.n)

\* An earlier use has added it.
SkipPartial ==
  \E use \in uses :
    /\ IsNext(use) /\ WellFormed(Used(use)) /\ Used(use) \in Known(use)
    /\ uses' = uses \ {use}
    /\ UNCHANGED <<theoryVars, sourceVars>>

RefusePartial ==
  \E use \in uses :
    LET o == Used(use)
    IN /\ IsNext(use) /\ (WellFormed(o) => o \notin Known(use))
       /\ \/ ~WellFormed(o) /\ Refuse("InvalidPartialApplication")
          \/ /\ WellFormed(o) /\ PartialOf(o) \notin Known(use)
             /\ Refuse("MissingPartialApplicationArrow")
          \/ /\ WellFormed(o) /\ PartialOf(o) \in Known(use)
             /\ AppliedBy(o) > Arity(raw[use.theory].arrows[PartialOf(o)])
             /\ Refuse("InvalidPartialApplication")
       /\ UNCHANGED <<uses, sourceVars>>

AddPartial ==
  \E use \in uses :
    LET o == Used(use)
    IN /\ IsNext(use) /\ WellFormed(o) /\ o \notin Known(use) /\ PartialOf(o) \in Known(use)
       /\ AppliedBy(o) <= Arity(raw[use.theory].arrows[PartialOf(o)])
       /\ raw' = [raw EXCEPT ![use.theory].arrows =
                    Override(PartialArrows(@[PartialOf(o)], PartialOf(o), AppliedBy(o), o), @)]
       /\ uses' = uses \ {use}
       /\ UNCHANGED <<given, stage, error, sourceVars>>

PartialsDone ==
  /\ stage = "partials" /\ uses = {}
  /\ stage' = "names"
  /\ UNCHANGED <<given, raw, uses, error, sourceVars>>

-----------------------------------------------------------------------------
\* name_symbols.rs: a name for every arrow that is there now.

Names(arrows) ==
  LET named(o) == [o EXCEPT !.p = Tail(@)]
  IN [o \in {NameOf(f) : f \in DOMAIN arrows} |-> NameArrow(arrows[named(o)])]

NameSymbols ==
  /\ stage = "names"
  /\ raw' = [t \in DOMAIN raw |->
               IF t \in Above THEN [raw[t] EXCEPT !.arrows = Override(Names(@), @)] ELSE raw[t]]
  /\ stage' = "elaborated"
  /\ UNCHANGED <<given, uses, error, sourceVars>>

Elaborate ==
  \/ Load /\ UNCHANGED uses
  \/ TypeLiteralsU64 \/ TypeLiteralsU32 \/ Validate \/ ConstantsU64 \/ ConstantsU32
  \/ CollectUses \/ SkipPartial \/ RefusePartial \/ AddPartial \/ PartialsDone
  \/ NameSymbols

elaborationVars == <<sourceVars, theoryVars, uses>>

ElaborationSpec == ElaborationInit /\ [][Elaborate]_elaborationVars

\* Loading and elaboration add arrows and change none: in particular no name,
\* constant or helper takes the place of an arrow of the program ("reserved
\* prefix": elaborate/mod.rs:38).
ArrowsStay ==
  [][\A t \in DOMAIN raw : t \in DOMAIN raw' /\
       \A o \in DOMAIN raw[t].arrows :
         o \in DOMAIN raw'[t].arrows /\ raw'[t].arrows[o] = raw[t].arrows[o]]_raw

\* The helpers of partial applications are reached from those only: what a program
\* refers to is no helper, under whatever prefixes, unless it is not declared (and
\* the program refused), although validate.rs strips one prefix only
\* (validate.rs:77).
HelpersArePrivate ==
  stage = "elaborated" =>
    \A t \in Above : \A o \in DOMAIN given[t].arrows :
      \A used \in InDefinition(given[t].arrows[o]) :
        LeadsToHelper(used) => used \notin DOMAIN raw[t].arrows
=============================================================================
