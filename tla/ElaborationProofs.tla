--------------------------- MODULE ElaborationProofs ---------------------------
(***************************************************************************)
(* Loading and elaboration, for any library and any command.  First, they  *)
(* replace no arrow.  Files only add arrows; constants are added where     *)
(* there is none; and partial applications, their helpers and names, which *)
(* are put in without looking, are new: no name begins with "name", and a  *)
(* helper is there only if its partial application is.  Validation         *)
(* establishes both and every later addition keeps them.  Then, helpers    *)
(* are private.  Last, a program is loaded exactly from the files that it  *)
(* needs, and only a set of bundles with a cycle or a gap is refused.      *)
(***************************************************************************)
EXTENDS Elaboration, CollectionsProofs

\* STRING: of the literals the provers do not know that they are strings.
Strings ==
  STRING \cup {"name", "type", "const.u64", "const.u32",
               "catena.partial.identity", "catena.partial.with-left-unit"}

\* The names of arrows, as far as they are known once literals are among them.
Named(o) == "p" \in DOMAIN o /\ o.p \in Seq(Strings)

Frames == [name : DOMAIN Bundles \cup {""}, left : Seq(STRING)]

LoadingInv ==
  /\ command \in Commands
  /\ active \in Seq(Frames) /\ active # <<>>
  /\ \A i \in 2..Len(active) : active[i].name \in DOMAIN Bundles
  /\ files \in Seq(SourceFiles)

\* Until the uses are collected, the definitions are those of the sources.
BeforeUses ==
  {"bundles", "merge", "literals u64", "literals u32", "validation", "constants u64",
   "constants u32", "uses"}

TheoriesInv ==
  \A t \in DOMAIN raw :
    /\ "arrows" \in DOMAIN raw[t]
    /\ \A o \in DOMAIN raw[t].arrows :
         Named(o) /\ (stage \in BeforeUses => IsSource(raw[t].arrows[o]))

UsesInv ==
  \A u \in uses :
    /\ u.theory \in DOMAIN raw /\ u.arrow \in DOMAIN raw[u.theory].arrows
    /\ Used(u) \in OperationNames /\ Starts(Used(u), "partial")

Validated == {"constants u64", "constants u32", "uses", "partials", "names"}

\* What is added without looking is not there.
IsFree(arrows) ==
  /\ \A o \in DOMAIN arrows : ~Starts(o, "name")
  /\ \A u \in OperationNames, i \in Int :
       {Identity(i, u), WithLeftUnit(i, u)} \cap DOMAIN arrows # {} => u \in DOMAIN arrows

FreeInv == stage \in Validated => \A t \in DOMAIN raw : IsFree(raw[t].arrows)

Inv == LoadingInv /\ TheoriesInv /\ UsesInv /\ FreeInv

\* The step of ArrowsStay.
Stay ==
  \A t \in DOMAIN raw : t \in DOMAIN raw' /\
    \A o \in DOMAIN raw[t].arrows :
      o \in DOMAIN raw'[t].arrows /\ raw'[t].arrows[o] = raw[t].arrows[o]

-----------------------------------------------------------------------------
LEMMA Single ==
  ASSUME NEW S, NEW x \in S
  PROVE  <<x>> \in Seq(S) /\ Len(<<x>>) = 1
OBVIOUS

LEMMA NotEmpty ==
  ASSUME NEW S, NEW s \in Seq(S), Len(s) # 0
  PROVE  s # <<>>
OBVIOUS

LEMMA Init == ElaborationInit => Inv
<1> SUFFICES ASSUME ElaborationInit PROVE Inv
  OBVIOUS
<1>1. /\ command \in Commands /\ active = <<Frame("", command.roots)>>
      /\ files = <<>> /\ raw = <<>> /\ uses = {} /\ stage = "bundles"
  BY DEF ElaborationInit, SourcesInit
<1>2. Frame("", command.roots) \in Frames
  BY <1>1, SourcesAssumption DEF Frame, Frames
<1>3. active \in Seq(Frames) /\ Len(active) = 1
  BY <1>1, <1>2, Single
<1>4. active # <<>>
  <2>1. Len(active) # 0
    BY <1>3
  <2> QED
    BY <1>3, <2>1, NotEmpty
<1>5. files \in Seq(SourceFiles)
  BY <1>1, EmptySeq
<1>7. LoadingInv
  <2>1. 2..Len(active) = {}
    BY <1>3
  <2> QED
    BY <1>1, <1>3, <1>4, <1>5, <2>1 DEF LoadingInv
<1>8. raw = <<>>
  BY <1>1
<1>9. DOMAIN raw = {}
  BY <1>8
<1>6. TheoriesInv /\ UsesInv /\ FreeInv
  BY <1>1, <1>9 DEF TheoriesInv, UsesInv, FreeInv, Validated
<1> QED
  BY <1>6, <1>7 DEF Inv

-----------------------------------------------------------------------------
\* Names of helpers, partial applications and names.

LEMMA HelperNames ==
  ASSUME NEW u \in OperationNames, NEW i \in Int
  PROVE  LET o == Identity(i, u)
             w == WithLeftUnit(i, u)
         IN /\ Named(o) /\ Head(o.p) = "catena.partial.identity" /\ Tail(o.p) = u.p
            /\ Named(w) /\ Head(w.p) = "catena.partial.with-left-unit" /\ Tail(w.p) = u.p
            /\ o.p # <<>> /\ o.f = u.f /\ o.n = Append(u.n, i)
            /\ w.p # <<>> /\ w.f = u.f /\ w.n = Append(u.n, i)
<1> DEFINE prefixed(k) == <<k>> \o u.p
<1>1. u.p \in Seq(Strings)
  BY SeqMonotonic DEF OperationNames, Strings
<1>2. ASSUME NEW k \in Strings
      PROVE  /\ prefixed(k) \in Seq(Strings) /\ prefixed(k) # <<>>
             /\ Head(prefixed(k)) = k /\ Tail(prefixed(k)) = u.p
  <2>1. <<k>> \in Seq(Strings)
    BY Single
  <2>2. /\ prefixed(k) \in Seq(Strings) /\ Len(prefixed(k)) = 1 + Len(u.p)
        /\ Head(prefixed(k)) = k /\ Tail(prefixed(k)) = u.p
    BY <1>1, <2>1
  <2>3. Len(prefixed(k)) # 0
    BY <1>1, <2>2
  <2> QED
    BY <2>2, <2>3
<1>3. ASSUME NEW k
      PROVE  LET o == Helper(k, i, u)
             IN "p" \in DOMAIN o /\ o.p = prefixed(k) /\ o.f = u.f /\ o.n = Append(u.n, i)
  BY DEF Helper, OperationNames
<1>4. {"catena.partial.identity", "catena.partial.with-left-unit"} \subseteq Strings
  BY DEF Strings
<1> HIDE DEF prefixed
<1>5. LET o == Identity(i, u)
      IN /\ Named(o) /\ Head(o.p) = "catena.partial.identity" /\ Tail(o.p) = u.p
         /\ o.p # <<>> /\ o.f = u.f /\ o.n = Append(u.n, i)
  BY <1>2, <1>3, <1>4 DEF Identity, Named
<1>6. LET w == WithLeftUnit(i, u)
      IN /\ Named(w) /\ Head(w.p) = "catena.partial.with-left-unit" /\ Tail(w.p) = u.p
         /\ w.p # <<>> /\ w.f = u.f /\ w.n = Append(u.n, i)
  BY <1>2, <1>3, <1>4 DEF WithLeftUnit, Named
<1> QED
  BY <1>5, <1>6

\* Helpers of different partial applications have different names.
LEMMA HelpersDiffer ==
  ASSUME NEW u \in OperationNames, NEW v \in OperationNames, NEW i \in Int, NEW j \in Int
  PROVE  /\ Identity(i, u) # WithLeftUnit(j, v)
         /\ Identity(i, u) = Identity(j, v) => u = v
         /\ WithLeftUnit(i, u) = WithLeftUnit(j, v) => u = v
<1>1. Append(u.n, i) = Append(v.n, j) => u.n = v.n
  <2> SUFFICES ASSUME Append(u.n, i) = Append(v.n, j) PROVE u.n = v.n
    OBVIOUS
  <2>1. u.n \in Seq(Nat) /\ v.n \in Seq(Nat)
    BY DEF OperationNames
  <2>2. Len(u.n) = Len(v.n)
    BY <2>1
  <2>3. ASSUME NEW k \in 1..Len(u.n) PROVE u.n[k] = v.n[k]
    <3>1. u.n[k] = Append(u.n, i)[k]
      BY <2>1
    <3>2. v.n[k] = Append(v.n, j)[k]
      BY <2>1, <2>2
    <3> QED
      BY <3>1, <3>2
  <2> QED
    BY <2>1, <2>2, <2>3, SeqEqual
<1>2. u.p = v.p /\ u.f = v.f /\ u.n = v.n => u = v
  BY DEF OperationNames
<1>3. Identity(i, u) = Identity(j, v) => u = v
  <2>1. /\ Tail(Identity(i, u).p) = u.p /\ Identity(i, u).f = u.f
        /\ Identity(i, u).n = Append(u.n, i)
    BY HelperNames
  <2>2. /\ Tail(Identity(j, v).p) = v.p /\ Identity(j, v).f = v.f
        /\ Identity(j, v).n = Append(v.n, j)
    BY HelperNames
  <2> QED
    BY <1>1, <1>2, <2>1, <2>2
<1>4. WithLeftUnit(i, u) = WithLeftUnit(j, v) => u = v
  <2>1. /\ Tail(WithLeftUnit(i, u).p) = u.p /\ WithLeftUnit(i, u).f = u.f
        /\ WithLeftUnit(i, u).n = Append(u.n, i)
    BY HelperNames
  <2>2. /\ Tail(WithLeftUnit(j, v).p) = v.p /\ WithLeftUnit(j, v).f = v.f
        /\ WithLeftUnit(j, v).n = Append(v.n, j)
    BY HelperNames
  <2> QED
    BY <1>1, <1>2, <2>1, <2>2
<1>5. Identity(i, u) # WithLeftUnit(j, v)
  BY HelperNames
<1> QED
  BY <1>3, <1>4, <1>5

\* No helper is a name, a partial application or a constant.
LEMMA HelpersAreOther ==
  ASSUME NEW u \in OperationNames, NEW i \in Int, NEW o,
         \/ Starts(o, "name") \/ Starts(o, "partial")
         \/ Starts(o, "const.u64") \/ Starts(o, "const.u32")
  PROVE  o # Identity(i, u) /\ o # WithLeftUnit(i, u)
BY HelperNames DEF Starts

LEMMA NamesStart ==
  ASSUME NEW f, Named(f)
  PROVE  Starts(NameOf(f), "name") /\ Named(NameOf(f))
<1>1. <<"name">> \in Seq(Strings)
  BY Single DEF Strings
<1>2. NameOf(f).p = <<"name">> \o f.p /\ "p" \in DOMAIN NameOf(f)
  BY DEF NameOf, Prefixed, Named
<1>3. /\ NameOf(f).p \in Seq(Strings) /\ Len(NameOf(f).p) # 0
      /\ Head(NameOf(f).p) = "name"
  BY <1>1, <1>2 DEF Named
<1> QED
  BY <1>2, <1>3 DEF Starts, Named

\* Nothing starts with two prefixes.
LEMMA OneStart ==
  ASSUME NEW o, NEW a, NEW b, Starts(o, a), Starts(o, b)
  PROVE  a = b
BY DEF Starts

-----------------------------------------------------------------------------
\* Where theories get new arrows.

\* The theories that are there keep their arrows.
LEMMA UsesStay ==
  ASSUME UsesInv, Stay, uses' \subseteq uses
  PROVE  UsesInv'
<1> SUFFICES ASSUME NEW u \in uses
             PROVE  /\ u.theory \in DOMAIN raw' /\ u.arrow \in DOMAIN raw'[u.theory].arrows
                    /\ Used(u)' = Used(u)
  BY DEF UsesInv
<1> QED
  BY DEF UsesInv, Stay, Used

LEMMA ContinueCases ==
  ASSUME NEW reasons, NEW after, NEW then, Continue(reasons, after, then)
  PROVE  /\ UNCHANGED sourceVars /\ uses' = uses
         /\ \/ raw' = raw /\ stage' = "refused"
            \/ /\ raw' = after /\ stage' = then
               /\ \A i \in DOMAIN reasons : ~reasons[i][1]
BY Zenon DEF Continue, Refuse

\* The theories that are there get the arrows of new, unless they have them.
LEMMA ExtendedKeeps ==
  ASSUME NEW new, TheoriesInv, raw' = Extended(new)
  PROVE  /\ DOMAIN raw' = DOMAIN raw
         /\ \A t \in DOMAIN raw :
              "arrows" \in DOMAIN raw'[t] /\ raw'[t].arrows = Override(raw[t].arrows, new[t])
         /\ Stay
<1>1. DOMAIN raw' = DOMAIN raw
  BY DEF Extended
<1>2. ASSUME NEW t \in DOMAIN raw
      PROVE  "arrows" \in DOMAIN raw'[t] /\ raw'[t].arrows = Override(raw[t].arrows, new[t])
  BY DEF Extended, TheoriesInv
<1>3. ASSUME NEW t \in DOMAIN raw, NEW o \in DOMAIN raw[t].arrows
      PROVE  o \in DOMAIN raw'[t].arrows /\ raw'[t].arrows[o] = raw[t].arrows[o]
  BY <1>2 DEF Override
<1>4. Stay
  BY <1>1, <1>3 DEF Stay
<1> QED
  BY <1>1, <1>2, <1>4

\* Where every new arrow is named well and has no definition, the theories stay
\* what they have to be.
LEMMA ExtendedTheories ==
  ASSUME NEW new, TheoriesInv, raw' = Extended(new), stage \in BeforeUses,
         \A t \in DOMAIN raw : \A o \in DOMAIN new[t] : Named(o) /\ new[t][o].def = <<>>
  PROVE  TheoriesInv'
<1>1. ASSUME NEW arrow, arrow.def = <<>>
      PROVE  IsSource(arrow)
  <2>1. DOMAIN arrow.def = {}
    BY <1>1
  <2>2. Range(arrow.def) = {}
    BY <2>1 DEF Range
  <2>3. InDefinition(arrow) = {}
    BY <2>2 DEF InDefinition
  <2> QED
    BY <2>1, <2>3 DEF IsSource
<1> SUFFICES ASSUME NEW t \in DOMAIN raw', NEW o \in DOMAIN raw'[t].arrows
             PROVE  Named(o) /\ IsSource(raw'[t].arrows[o])
  BY ExtendedKeeps DEF TheoriesInv
<1>2. /\ t \in DOMAIN raw /\ o \in DOMAIN raw[t].arrows \cup DOMAIN new[t]
      /\ raw'[t].arrows[o] = IF o \in DOMAIN raw[t].arrows THEN raw[t].arrows[o] ELSE new[t][o]
  <2>1. t \in DOMAIN raw /\ raw'[t].arrows = Override(raw[t].arrows, new[t])
    BY ExtendedKeeps
  <2> QED
    BY <2>1 DEF Override
<1>3. CASE o \in DOMAIN raw[t].arrows
  BY <1>2, <1>3 DEF TheoriesInv
<1>4. CASE o \notin DOMAIN raw[t].arrows
  BY <1>1, <1>2, <1>4
<1> QED
  BY <1>3, <1>4

IsConstant(o) == Starts(o, "const.u64") \/ Starts(o, "const.u32")

\* Constants are none of what has to be free.
LEMMA ConstantsKeepFree ==
  ASSUME NEW arrows, NEW new, IsFree(arrows), \A o \in DOMAIN new : IsConstant(o)
  PROVE  IsFree(Override(arrows, new))
<1> DEFINE both == Override(arrows, new)
<1>1. DOMAIN both = DOMAIN arrows \cup DOMAIN new
  BY DEF Override
<1>2. ASSUME NEW o \in DOMAIN both PROVE ~Starts(o, "name")
  <2>1. CASE o \in DOMAIN arrows
    BY <2>1 DEF IsFree
  <2>2. CASE o \in DOMAIN new
    BY <2>2, OneStart DEF IsConstant
  <2> QED
    BY <1>1, <2>1, <2>2
<1>3. ASSUME NEW u \in OperationNames, NEW i \in Int,
             {Identity(i, u), WithLeftUnit(i, u)} \cap DOMAIN both # {}
      PROVE  u \in DOMAIN both
  <2>1. {Identity(i, u), WithLeftUnit(i, u)} \cap DOMAIN new = {}
    BY HelpersAreOther DEF IsConstant
  <2>2. u \in DOMAIN arrows
    BY <1>1, <1>3, <2>1 DEF IsFree
  <2> QED
    BY <1>1, <2>2
<1> HIDE DEF both
<1>4. IsFree(both)
  BY <1>2, <1>3 DEF IsFree
<1> QED
  BY <1>4 DEF both

-----------------------------------------------------------------------------
\* Steps that leave the theories alone.

LEMMA RawStays ==
  ASSUME raw' = raw
  PROVE  Stay
BY DEF Stay

LEMMA TheoriesStay ==
  ASSUME TheoriesInv, raw' = raw, stage' \in BeforeUses => stage \in BeforeUses
  PROVE  TheoriesInv'
BY DEF TheoriesInv

LEMMA FreeStays ==
  ASSUME FreeInv, raw' = raw, stage' \in Validated => stage \in Validated
  PROVE  FreeInv'
BY DEF FreeInv

LEMMA LoadingStays ==
  ASSUME LoadingInv, UNCHANGED sourceVars
  PROVE  LoadingInv'
BY DEF LoadingInv, sourceVars

\* A refusal, or a step to another stage of the same part.
LEMMA SameTheories ==
  ASSUME Inv, raw' = raw, uses' \subseteq uses, LoadingInv',
         stage' \in BeforeUses => stage \in BeforeUses, stage' \in Validated => stage \in Validated
  PROVE  Inv' /\ Stay
<1>1. Stay
  BY RawStays
<1>2. UsesInv'
  BY <1>1, UsesStay DEF Inv
<1>3. TheoriesInv' /\ FreeInv'
  BY TheoriesStay, FreeStays DEF Inv
<1> QED
  BY <1>1, <1>2, <1>3 DEF Inv

-----------------------------------------------------------------------------
\* Loading.

LEMMA ContinuedStack ==
  ASSUME LoadingInv, Top.left # <<>>
  PROVE  /\ Continued \in Seq(Frames) /\ Len(Continued) = Len(active)
         /\ \A i \in 2..Len(active) : Continued[i].name \in DOMAIN Bundles
<1> DEFINE n == Len(active)
           next == [active[n] EXCEPT !.left = Tail(@)]
<1>1. active \in Seq(Frames) /\ n \in Nat /\ n # 0
  BY EmptySeq DEF LoadingInv
<1>2. active[n] \in Frames /\ active[n].left # <<>>
  BY <1>1, ElementOfSeq DEF Top, Last
<1>3. next \in Frames /\ next.name = active[n].name
  <2>1. Tail(active[n].left) \in Seq(STRING)
    BY <1>2, HeadTailProperties DEF Frames
  <2> QED
    BY <1>2, <2>1 DEF Frames
<1>4. Continued = [active EXCEPT ![n] = next]
  BY DEF Continued
<1> HIDE DEF next
<1>5. /\ Continued \in Seq(Frames) /\ Len(Continued) = n
      /\ \A i \in 1..n : Continued[i] = IF i = n THEN next ELSE active[i]
  <2>1. n \in 1..Len(active)
    BY <1>1
  <2> QED
    BY <1>1, <1>3, <1>4, <2>1, ExceptSeq
<1>6. ASSUME NEW i \in 2..n PROVE Continued[i].name \in DOMAIN Bundles
  <2>1. active[i].name \in DOMAIN Bundles
    BY DEF LoadingInv
  <2> QED
    BY <1>1, <1>3, <1>5, <2>1
<1> QED
  BY <1>5, <1>6

\* The stack stays one of frames.
LEMMA StackSteps ==
  ASSUME LoadingInv, VisitAgain \/ EnterBundle
  PROVE  LoadingInv'
<1>1. Top.left # <<>>
  BY DEF VisitAgain, EnterBundle, AtName
<1>2. Len(active) \in Nat /\ Len(active) # 0
  BY EmptySeq DEF LoadingInv
<1>3. CASE VisitAgain
  <2>1. active' = Continued /\ command' = command /\ files' = files
    BY <1>3 DEF VisitAgain
  <2>2. active' \in Seq(Frames) /\ Len(active') = Len(active)
    BY <1>1, <2>1, ContinuedStack
  <2>3. active' # <<>>
    BY <1>2, <2>2, NotEmpty
  <2> QED
    BY <1>1, <2>1, <2>2, <2>3, ContinuedStack DEF LoadingInv
<1>4. CASE EnterBundle
  <2>1. PICK name \in DOMAIN Bundles :
          active' = Append(Continued, Frame(name, Bundles[name].extends))
    BY <1>4 DEF EnterBundle
  <2>2. command' = command /\ files' = files
    BY <1>4 DEF EnterBundle
  <2> DEFINE frame == Frame(name, Bundles[name].extends)
  <2>3. frame \in Frames /\ frame.name = name
    BY SourcesAssumption DEF Frame, Frames
  <2> HIDE DEF frame
  <2>4. /\ active' \in Seq(Frames) /\ Len(active') = Len(active) + 1
        /\ \A i \in 1..Len(active) : active'[i] = Continued[i]
        /\ active'[Len(active) + 1] = frame
    BY <1>1, <2>1, <2>3, ContinuedStack, AppendProperties DEF frame
  <2>5. ASSUME NEW i \in 2..Len(active') PROVE active'[i].name \in DOMAIN Bundles
    <3>1. CASE i = Len(active) + 1
      BY <2>3, <2>4, <3>1
    <3>2. CASE i # Len(active) + 1
      <4>1. i \in 2..Len(active) /\ i \in 1..Len(active)
        BY <1>2, <2>4, <3>2
      <4> QED
        BY <1>1, <2>4, <4>1, ContinuedStack
    <3> QED
      BY <3>1, <3>2
  <2>6. active' # <<>>
    BY <1>2, <2>4, NotEmpty
  <2> QED
    BY <2>2, <2>4, <2>5, <2>6 DEF LoadingInv
<1> QED
  BY <1>3, <1>4

LEMMA LeaveStep ==
  ASSUME LoadingInv, LeaveBundle
  PROVE  LoadingInv'
<1> DEFINE n == Len(active)
<1>1. active \in Seq(Frames) /\ n \in Nat /\ n > 1
  BY DEF LoadingInv, LeaveBundle
<1>2. active' = SubSeq(active, 1, n - 1) /\ command' = command
  BY DEF LeaveBundle, Front
<1>3. /\ active' \in Seq(Frames) /\ Len(active') = n - 1
      /\ \A i \in 1..(n - 1) : active'[i] = active[i]
  <2>1. \A i \in 1..(n - 1) : active[i] \in Frames
    BY <1>1, ElementOfSeq
  <2> QED
    BY <1>1, <1>2, <2>1, SubSeqProperties
<1>4. active' # <<>>
  BY <1>1, <1>3, NotEmpty
<1>5. ASSUME NEW i \in 2..Len(active') PROVE active'[i].name \in DOMAIN Bundles
  BY <1>1, <1>3 DEF LoadingInv
<1>6. Top.name \in DOMAIN Bundles
  BY <1>1 DEF LoadingInv, Top, Last
<1>7. files' \in Seq(SourceFiles)
  <2>1. files \in Seq(SourceFiles) /\ Bundles[Top.name].files \in Seq(SourceFiles)
    BY <1>6, SourcesAssumption DEF LoadingInv
  <2>2. files' = files \o Bundles[Top.name].files
    BY DEF LeaveBundle
  <2> QED
    BY <2>1, <2>2, ConcatProperties
<1> QED
  BY <1>2, <1>3, <1>4, <1>5, <1>7 DEF LoadingInv

LEMMA FilesSteps ==
  ASSUME LoadingInv, Resolved \/ SkipFile \/ MergeFile
  PROVE  LoadingInv'
<1>1. command' = command /\ active' = active
  BY DEF Resolved, SkipFile, MergeFile
<1>2. files' \in Seq(SourceFiles)
  <2>1. files \in Seq(SourceFiles) /\ command.inputs \in Seq(SourceFiles)
    BY SourcesAssumption DEF LoadingInv
  <2>2. CASE Resolved
    BY <2>1, <2>2, ConcatProperties DEF Resolved
  <2>3. CASE SkipFile \/ MergeFile
    BY <2>1, <2>3, HeadTailProperties DEF SkipFile, MergeFile, AtFile
  <2> QED
    BY <2>2, <2>3
<1> QED
  BY <1>1, <1>2 DEF LoadingInv

\* A file adds theories and arrows that are not there.
LEMMA MergeStep ==
  ASSUME LoadingInv, TheoriesInv, MergeFile
  PROVE  TheoriesInv' /\ Stay
<1>1. File \in SourceFiles
  BY HeadTailProperties DEF LoadingInv, MergeFile, AtFile, File
<1>2. /\ stage' = stage /\ stage \in BeforeUses
      /\ DOMAIN raw' = DOMAIN raw \cup DOMAIN File.theories
  BY DEF MergeFile, AtFile, Override, Shared, BeforeUses
<1>3. ASSUME NEW t \in DOMAIN File.theories
      PROVE  /\ "arrows" \in DOMAIN File.theories[t]
             /\ \A o \in DOMAIN File.theories[t].arrows :
                  Named(o) /\ IsSource(File.theories[t].arrows[o])
  <2>1. \A o \in OperationNames : Named(o)
    BY SeqMonotonic DEF OperationNames, Named, Strings
  <2> QED
    BY <1>1, <2>1, SourcesAssumption DEF IsSourceFile
<1>4. ASSUME NEW t \in Shared
      PROVE  /\ "arrows" \in DOMAIN raw'[t]
             /\ raw'[t].arrows = Override(raw[t].arrows, File.theories[t].arrows)
  <2>1. t \in DOMAIN raw /\ "arrows" \in DOMAIN raw[t]
    BY DEF Shared, TheoriesInv
  <2>2. raw'[t] = [raw[t] EXCEPT !.arrows = Override(raw[t].arrows, File.theories[t].arrows)]
    BY DEF MergeFile, Override
  <2> QED
    BY <2>1, <2>2
<1>5. ASSUME NEW t \in DOMAIN raw \ Shared PROVE raw'[t] = raw[t]
  BY DEF MergeFile, Override
<1>6. ASSUME NEW t \in DOMAIN File.theories \ DOMAIN raw PROVE raw'[t] = File.theories[t]
  BY DEF MergeFile, Override, Shared
<1>7. Stay
  <2> SUFFICES ASSUME NEW t \in DOMAIN raw, NEW o \in DOMAIN raw[t].arrows
               PROVE  o \in DOMAIN raw'[t].arrows /\ raw'[t].arrows[o] = raw[t].arrows[o]
    BY <1>2 DEF Stay
  <2>1. CASE t \in Shared
    BY <1>4, <2>1 DEF Override
  <2>2. CASE t \notin Shared
    BY <1>5, <2>2
  <2> QED
    BY <2>1, <2>2
<1>8. TheoriesInv'
  <2> SUFFICES ASSUME NEW t \in DOMAIN raw'
               PROVE  /\ "arrows" \in DOMAIN raw'[t]
                      /\ \A o \in DOMAIN raw'[t].arrows : Named(o) /\ IsSource(raw'[t].arrows[o])
    BY DEF TheoriesInv
  <2>1. CASE t \in Shared
    <3>1. t \in DOMAIN raw /\ t \in DOMAIN File.theories
      BY <2>1 DEF Shared
    <3>2. \A o \in DOMAIN raw[t].arrows : Named(o) /\ IsSource(raw[t].arrows[o])
      BY <1>2, <3>1 DEF TheoriesInv
    <3>3. \A o \in DOMAIN File.theories[t].arrows :
            Named(o) /\ IsSource(File.theories[t].arrows[o])
      BY <1>3, <3>1
    <3>4. ASSUME NEW o \in DOMAIN raw'[t].arrows
          PROVE  Named(o) /\ IsSource(raw'[t].arrows[o])
      <4>1. CASE o \in DOMAIN raw[t].arrows
        BY <1>4, <2>1, <3>2, <4>1 DEF Override
      <4>2. CASE o \notin DOMAIN raw[t].arrows
        <5>1. o \in DOMAIN File.theories[t].arrows
              /\ raw'[t].arrows[o] = File.theories[t].arrows[o]
          BY <1>4, <2>1, <4>2 DEF Override
        <5> QED
          BY <3>3, <5>1
      <4> QED
        BY <4>1, <4>2
    <3> QED
      BY <1>4, <2>1, <3>4
  <2>2. CASE t \in DOMAIN raw \ Shared
    BY <1>2, <1>5, <2>2 DEF TheoriesInv
  <2>3. CASE t \in DOMAIN File.theories \ DOMAIN raw
    BY <1>3, <1>6, <2>3
  <2> QED
    BY <1>2, <2>1, <2>2, <2>3
<1> QED
  BY <1>7, <1>8

LEMMA LoadStep ==
  ASSUME Inv, Load, uses' = uses
  PROVE  Inv' /\ Stay
<1> USE DEF Inv
<1>1. CASE VisitAgain \/ EnterBundle
  <2>1. raw' = raw /\ stage' = stage
    BY <1>1 DEF VisitAgain, EnterBundle, theoryVars
  <2> QED
    BY <1>1, <2>1, StackSteps, SameTheories
<1>2. CASE LeaveBundle
  <2>1. raw' = raw /\ stage' = stage
    BY <1>2 DEF LeaveBundle, theoryVars
  <2> QED
    BY <1>2, <2>1, LeaveStep, SameTheories
<1>3. CASE RefuseBundle \/ RefuseFile
  <2>1. raw' = raw /\ stage' = "refused" /\ UNCHANGED sourceVars
    BY <1>3 DEF RefuseBundle, RefuseFile, Refuse
  <2>2. stage' \notin BeforeUses /\ stage' \notin Validated
    BY <2>1 DEF BeforeUses, Validated
  <2> QED
    BY <2>1, <2>2, LoadingStays, SameTheories
<1>4. CASE Resolved
  <2>1. raw' = raw /\ stage' = "merge" /\ stage = "bundles"
    BY <1>4 DEF Resolved
  <2> QED
    BY <1>4, <2>1, FilesSteps, SameTheories DEF BeforeUses, Validated
<1>5. CASE SkipFile
  <2>1. raw' = raw /\ stage' = stage
    BY <1>5 DEF SkipFile, theoryVars
  <2> QED
    BY <1>5, <2>1, FilesSteps, SameTheories
<1>6. CASE MergeFile
  <2>1. stage' = "merge"
    BY <1>6 DEF MergeFile, AtFile
  <2>2. FreeInv'
    BY <2>1 DEF FreeInv, Validated
  <2> QED
    BY <1>6, <2>2, FilesSteps, MergeStep, UsesStay
<1>7. CASE Loaded
  <2>1. raw' = raw /\ stage' = "literals u64" /\ stage = "merge" /\ UNCHANGED sourceVars
    BY <1>7 DEF Loaded
  <2> QED
    BY <2>1, LoadingStays, SameTheories DEF BeforeUses, Validated
<1> QED
  BY <1>1, <1>2, <1>3, <1>4, <1>5, <1>6, <1>7 DEF Load

-----------------------------------------------------------------------------
\* Elaboration.

LEMMA Pairs ==
  ASSUME NEW S, NEW x \in S, NEW y \in S
  PROVE  <<x, y>> \in Seq(S)
OBVIOUS

LEMMA NameParts ==
  ASSUME NEW p, NEW f, NEW n, NEW o, o = Name(p, f, n)
  PROVE  "p" \in DOMAIN o /\ o.p = p
BY DEF Name

LEMMA LiteralsStep ==
  ASSUME Inv, NEW kind \in {U64, U32}, NEW then \in {"literals u32", "validation"},
         stage \in {"literals u64", "literals u32"}, TypeLiterals(kind, then)
  PROVE  Inv' /\ Stay
<1> DEFINE used == [t \in DOMAIN raw |-> IF t \in Typed THEN LiteralsIn(raw[t], kind) ELSE {}]
           all == UNION Range(used)
           new == [t \in DOMAIN raw |->
                     IF t = "type" THEN [o \in all |-> TypeArrow("0", "1")]
                     ELSE [o \in used[t] |-> SymbolicConstArrow(o, kind)]]
           wrong == \/ \E o \in all : ~ValidConstant(o, kind)
                    \/ \E t \in DOMAIN raw : ~Compatible(raw[t], new[t])
           reasons == <<<<"type" \notin DOMAIN raw, "MissingTheory">>, <<wrong, "InvalidConstant">>>>
<1>1. \/ Continue(<<>>, raw, then)
      \/ Continue(reasons, Extended(new), then)
  BY DEF TypeLiterals
<1>2. /\ stage \in BeforeUses
      /\ \A s \in {then, "refused"} : s \notin Validated
      /\ "refused" \notin BeforeUses
  BY DEF BeforeUses, Validated
<1>3. ASSUME NEW o \in all PROVE Named(o)
  <2>1. PICK t \in DOMAIN raw : o \in LiteralsIn(raw[t], kind)
    BY DEF Range
  <2>2. o = Name(<<"type", kind.prefix>>, o.f, o.n)
    BY <2>1 DEF LiteralsIn
  <2>3. "p" \in DOMAIN o /\ o.p = <<"type", kind.prefix>>
    BY <2>2, NameParts
  <2>4. U64.prefix = "const.u64" /\ U32.prefix = "const.u32"
    BY DEF U64, U32
  <2>5. "type" \in Strings /\ kind.prefix \in Strings
    BY <2>4 DEF Strings
  <2> QED
    BY <2>3, <2>5, Pairs DEF Named
<1>4. ASSUME NEW t \in DOMAIN raw, NEW o \in DOMAIN new[t]
      PROVE  Named(o) /\ new[t][o].def = <<>>
  <2>1. CASE t = "type"
    <3>1. new[t] = [p \in all |-> TypeArrow("0", "1")]
      BY <2>1
    <3>2. o \in all /\ new[t][o] = TypeArrow("0", "1")
      BY <3>1
    <3>3. TypeArrow("0", "1").def = <<>>
      BY DEF TypeArrow, Arrow
    <3> HIDE DEF all, new
    <3> QED
      BY <1>3, <3>2, <3>3
  <2>2. CASE t # "type"
    <3>1. new[t] = [p \in used[t] |-> SymbolicConstArrow(p, kind)]
      BY <2>2
    <3>2. used[t] \subseteq all
      BY DEF Range
    <3>3. o \in all /\ new[t][o] = SymbolicConstArrow(o, kind)
      BY <3>1, <3>2
    <3>4. SymbolicConstArrow(o, kind).def = <<>>
      BY DEF SymbolicConstArrow, Arrow
    <3> HIDE DEF used, all, new
    <3> QED
      BY <1>3, <3>3, <3>4
  <2> QED
    BY <2>1, <2>2
<1> HIDE DEF new, reasons
<1>5. UNCHANGED sourceVars /\ uses' = uses /\ stage' \in {then, "refused"}
  BY <1>1, ContinueCases
<1>6. LoadingInv'
  BY <1>5, LoadingStays DEF Inv
<1>7. CASE raw' = raw
  BY <1>2, <1>5, <1>6, <1>7, SameTheories
<1>8. CASE raw' = Extended(new)
  <2>1. TheoriesInv' /\ Stay
    BY <1>2, <1>4, <1>8, ExtendedTheories, ExtendedKeeps DEF Inv
  <2>2. UsesInv'
    BY <1>5, <2>1, UsesStay DEF Inv
  <2>3. FreeInv'
    BY <1>2, <1>5 DEF FreeInv
  <2> QED
    BY <1>6, <2>1, <2>2, <2>3 DEF Inv
<1>9. raw' = raw \/ raw' = Extended(new)
  BY <1>1, ContinueCases
<1> QED
  BY <1>7, <1>8, <1>9

LEMMA ValidateStep ==
  ASSUME Inv, Validate
  PROVE  Inv' /\ Stay
<1>1. Continue(ValidationReasons, raw, "constants u64") /\ stage = "validation"
  BY DEF Validate
<1>2. UNCHANGED sourceVars /\ uses' = uses /\ raw' = raw
  BY <1>1, ContinueCases
<1>3. LoadingInv'
  BY <1>2, LoadingStays DEF Inv
<1>4. Stay
  BY <1>2, RawStays
<1>5. UsesInv'
  BY <1>2, <1>4, UsesStay DEF Inv
<1>6. TheoriesInv'
  BY <1>1, <1>2, TheoriesStay DEF Inv, BeforeUses
<1>7. FreeInv'
  <2>1. CASE stage' = "refused"
    BY <2>1 DEF FreeInv, Validated
  <2>2. CASE \A i \in DOMAIN ValidationReasons : ~ValidationReasons[i][1]
    <3>1. 1 \in DOMAIN ValidationReasons
      BY DEF ValidationReasons
    <3>2. ValidationReasons[1][1] = (\E a \in ArrowsIn(DOMAIN raw) : ReservedName(a[2]))
      BY DEF ValidationReasons
    <3>3. ASSUME NEW t \in DOMAIN raw, NEW o \in DOMAIN raw[t].arrows
          PROVE  ~ReservedName(o)
      <4>1. <<t, o>> \in ArrowsIn(DOMAIN raw)
        BY DEF ArrowsIn
      <4>2. ~ValidationReasons[1][1]
        BY <2>2, <3>1
      <4> QED
        BY <3>2, <4>1, <4>2
    <3>4. {"name"} \cup GeneratedPrefixes \subseteq ReservedPrefixes
      BY DEF ReservedPrefixes
    <3>5. ASSUME NEW t \in DOMAIN raw PROVE IsFree(raw[t].arrows)
      <4>1. \A o \in DOMAIN raw[t].arrows : ~Starts(o, "name")
        BY <3>3, <3>4 DEF ReservedName, Starts
      <4>2. ASSUME NEW u \in OperationNames, NEW i \in Int
            PROVE  Identity(i, u) \notin DOMAIN raw[t].arrows
                   /\ WithLeftUnit(i, u) \notin DOMAIN raw[t].arrows
        BY <3>3, <3>4, HelperNames DEF ReservedName, GeneratedPrefixes
      <4> QED
        BY <4>1, <4>2 DEF IsFree
    <3> QED
      BY <1>2, <3>5 DEF FreeInv
  <2> QED
    BY <1>1, <2>1, <2>2, ContinueCases
<1> QED
  BY <1>3, <1>4, <1>5, <1>6, <1>7 DEF Inv

LEMMA ConstantsStep ==
  ASSUME Inv, NEW kind \in {U64, U32}, NEW then \in {"constants u32", "uses"},
         stage \in {"constants u64", "constants u32"}, Constants(kind, then)
  PROVE  Inv' /\ Stay
<1> DEFINE used(t) == {o \in InDefinitions(raw[t]) : Starts(o, kind.prefix)}
           new == [t \in DOMAIN raw |-> [o \in used(t) |-> ConstArrow(kind)]]
           reasons == <<<<\E t \in DOMAIN raw : \E o \in used(t) : ~ValidConstant(o, kind),
                          "InvalidConstant">>>>
<1>1. Continue(reasons, Extended(new), then)
  BY DEF Constants
<1>2. stage \in BeforeUses /\ stage \in Validated
  BY DEF BeforeUses, Validated
<1>3. ASSUME NEW t \in DOMAIN raw, NEW o \in DOMAIN new[t]
      PROVE  Named(o) /\ IsConstant(o) /\ new[t][o].def = <<>>
  <2>1. o \in used(t) /\ new[t][o] = ConstArrow(kind)
    OBVIOUS
  <2>2. PICK x \in DOMAIN raw[t].arrows : o \in InDefinition(raw[t].arrows[x])
    BY <2>1 DEF InDefinitions, Arrows, Range
  <2>3. o \in OperationNames
    BY <1>2, <2>2 DEF Inv, TheoriesInv, IsSource
  <2>4. Named(o)
    BY <2>3, SeqMonotonic DEF OperationNames, Named, Strings
  <2>5. IsConstant(o)
    <3>1. U64.prefix = "const.u64" /\ U32.prefix = "const.u32"
      BY DEF U64, U32
    <3> QED
      BY <2>1, <3>1 DEF IsConstant
  <2>6. ConstArrow(kind).def = <<>>
    BY DEF ConstArrow, Arrow
  <2> QED
    BY <2>1, <2>4, <2>5, <2>6
<1> HIDE DEF new, reasons
<1>4. UNCHANGED sourceVars /\ uses' = uses
  BY <1>1, ContinueCases
<1>5. LoadingInv'
  BY <1>4, LoadingStays DEF Inv
<1>6. CASE raw' = raw /\ stage' = "refused"
  BY <1>4, <1>5, <1>6, SameTheories DEF BeforeUses, Validated
<1>7. CASE raw' = Extended(new)
  <2>1. TheoriesInv' /\ Stay
    BY <1>2, <1>3, <1>7, ExtendedTheories, ExtendedKeeps DEF Inv
  <2>2. UsesInv'
    BY <1>4, <2>1, UsesStay DEF Inv
  <2>3. ASSUME NEW t \in DOMAIN raw' PROVE IsFree(raw'[t].arrows)
    <3>1. t \in DOMAIN raw /\ raw'[t].arrows = Override(raw[t].arrows, new[t])
      BY <1>7, ExtendedKeeps DEF Inv
    <3>2. IsFree(raw[t].arrows)
      BY <1>2, <3>1 DEF Inv, FreeInv
    <3> QED
      BY <1>3, <3>1, <3>2, ConstantsKeepFree
  <2>4. FreeInv'
    BY <2>3 DEF FreeInv
  <2> QED
    BY <1>5, <2>1, <2>2, <2>4 DEF Inv
<1> QED
  BY <1>1, <1>6, <1>7, ContinueCases

LEMMA CollectStep ==
  ASSUME Inv, CollectUses
  PROVE  Inv' /\ Stay
<1>1. /\ stage = "uses" /\ stage' = "partials" /\ raw' = raw /\ UNCHANGED sourceVars
      /\ uses' = UNION {UNION {UsesIn(t, o) : o \in DOMAIN raw[t].arrows} : t \in Above}
  BY DEF CollectUses
<1>2. LoadingInv' /\ Stay
  BY <1>1, LoadingStays, RawStays DEF Inv
<1>3. TheoriesInv' /\ FreeInv'
  BY <1>1, TheoriesStay, FreeStays DEF Inv, BeforeUses, Validated
<1>4. ASSUME NEW u \in uses'
      PROVE  /\ u.theory \in DOMAIN raw /\ u.arrow \in DOMAIN raw[u.theory].arrows
             /\ Used(u) \in OperationNames /\ Starts(Used(u), "partial")
  <2>0. PICK t \in Above : \E x \in DOMAIN raw[t].arrows : u \in UsesIn(t, x)
    BY <1>1
  <2>1. PICK o \in DOMAIN raw[t].arrows : u \in UsesIn(t, o)
    BY <2>0
  <2>8. PICK def \in Range(raw[t].arrows[o].def) :
          \E d \in EdgesOf(def) :
            u = [theory |-> t, arrow |-> o, e |-> d] /\ Starts(def.edges[d].n, "partial")
    BY <2>1 DEF UsesIn
  <2>2. PICK e \in EdgesOf(def) :
          u = [theory |-> t, arrow |-> o, e |-> e] /\ Starts(def.edges[e].n, "partial")
    BY <2>8
  <2>3. t \in DOMAIN raw
    BY DEF Above
  <2>4. IsSource(raw[t].arrows[o])
    BY <1>1, <2>3 DEF Inv, TheoriesInv, BeforeUses
  <2>5. def = raw[t].arrows[o].def[1]
    BY <2>4 DEF IsSource, Range
  <2>6. Used(u) = def.edges[e].n
    BY <2>2, <2>5 DEF Used
  <2>7. Used(u) \in InDefinition(raw[t].arrows[o])
    BY <2>6 DEF InDefinition, Operations
  <2> QED
    BY <2>2, <2>3, <2>4, <2>6, <2>7 DEF IsSource
<1>5. UsesInv'
  BY <1>1, <1>4 DEF UsesInv, Used
<1> QED
  BY <1>2, <1>3, <1>5 DEF Inv

LEMMA PartialsStep ==
  ASSUME Inv, SkipPartial \/ RefusePartial \/ PartialsDone
  PROVE  Inv' /\ Stay
<1>1. CASE SkipPartial
  <2>1. uses' \subseteq uses /\ raw' = raw /\ stage' = stage /\ UNCHANGED sourceVars
    BY <1>1 DEF SkipPartial, theoryVars
  <2> QED
    BY <2>1, LoadingStays, SameTheories DEF Inv
<1>2. CASE RefusePartial
  <2>1. uses' = uses /\ raw' = raw /\ stage' = "refused" /\ UNCHANGED sourceVars
    BY <1>2 DEF RefusePartial, Refuse
  <2>2. stage' \notin BeforeUses /\ stage' \notin Validated
    BY <2>1 DEF BeforeUses, Validated
  <2> QED
    BY <2>1, <2>2, LoadingStays, SameTheories DEF Inv
<1>3. CASE PartialsDone
  <2>1. /\ uses' = uses /\ raw' = raw /\ UNCHANGED sourceVars
        /\ stage = "partials" /\ stage' = "names"
    BY <1>3 DEF PartialsDone
  <2>2. stage' \notin BeforeUses /\ stage \in Validated
    BY <2>1 DEF BeforeUses, Validated
  <2> QED
    BY <2>1, <2>2, LoadingStays, SameTheories DEF Inv
<1> QED
  BY <1>1, <1>2, <1>3

\* What a partial application adds is itself and helpers of its own.
LEMMA PartialNames ==
  ASSUME NEW arrow, NEW f, NEW applied \in Nat, NEW o \in OperationNames, Starts(o, "partial"),
         NEW x \in DOMAIN PartialArrows(arrow, f, applied, o)
  PROVE  /\ x = o \/ \E i \in Int : x \in {Identity(i, o), WithLeftUnit(i, o)}
         /\ Named(x)
<1>1. Named(o)
  BY SeqMonotonic DEF OperationNames, Named, Strings
<1>2. \A i \in 0..(applied - 1) : i \in Int
  OBVIOUS
<1>3. x = o \/ \E i \in Int : x \in {Identity(i, o), WithLeftUnit(i, o)}
  BY <1>2 DEF PartialArrows, Override
<1> QED
  BY <1>1, <1>3, HelperNames

\* A new partial application and its helpers are not there, and leave what has to
\* be free free.
LEMMA PartialKeepsFree ==
  ASSUME NEW arrows, IsFree(arrows), NEW o \in OperationNames, Starts(o, "partial"),
         o \notin DOMAIN arrows, NEW new, o \in DOMAIN new,
         \A x \in DOMAIN new : x = o \/ \E i \in Int : x \in {Identity(i, o), WithLeftUnit(i, o)}
  PROVE  DOMAIN new \cap DOMAIN arrows = {} /\ IsFree(Override(new, arrows))
<1> DEFINE both == Override(new, arrows)
<1>1. DOMAIN both = DOMAIN arrows \cup DOMAIN new
  BY DEF Override
<1>2. DOMAIN new \cap DOMAIN arrows = {}
  BY DEF IsFree
<1>3. ASSUME NEW x \in DOMAIN both PROVE ~Starts(x, "name")
  <2>1. CASE x \in DOMAIN arrows
    BY <2>1 DEF IsFree
  <2>2. CASE x \in DOMAIN new
    BY <2>2, OneStart, HelpersAreOther
  <2> QED
    BY <1>1, <2>1, <2>2
<1>4. ASSUME NEW v \in OperationNames, NEW j \in Int,
             NEW h \in {Identity(j, v), WithLeftUnit(j, v)}, h \in DOMAIN both
      PROVE  v \in DOMAIN both
  <2>1. CASE h \in DOMAIN arrows
    BY <1>1, <2>1 DEF IsFree
  <2>2. CASE h \in DOMAIN new
    <3>1. h # o
      BY HelpersAreOther
    <3>2. PICK i \in Int : h \in {Identity(i, o), WithLeftUnit(i, o)}
      BY <2>2, <3>1
    <3>3. v = o
      BY <3>2, HelpersDiffer
    <3> QED
      BY <1>1, <3>3
  <2> QED
    BY <1>1, <1>4, <2>1, <2>2
<1> HIDE DEF both
<1>5. IsFree(both)
  BY <1>3, <1>4 DEF IsFree
<1> QED
  BY <1>2, <1>5 DEF both

LEMMA AddPartialStep ==
  ASSUME Inv, AddPartial
  PROVE  Inv' /\ Stay
<1>1. PICK use \in uses :
        /\ IsNext(use) /\ WellFormed(Used(use)) /\ Used(use) \notin Known(use)
        /\ raw' = [raw EXCEPT ![use.theory].arrows =
                     Override(PartialArrows(@[PartialOf(Used(use))], PartialOf(Used(use)),
                                            AppliedBy(Used(use)), Used(use)), @)]
        /\ uses' = uses \ {use}
        /\ UNCHANGED <<given, stage, error, sourceVars>>
  BY DEF AddPartial
<1> DEFINE o == Used(use)
           s == use.theory
           arrows == raw[s].arrows
           new == PartialArrows(arrows[PartialOf(o)], PartialOf(o), AppliedBy(o), o)
<1>2. /\ s \in DOMAIN raw /\ o \in OperationNames /\ Starts(o, "partial")
      /\ o \notin DOMAIN arrows /\ AppliedBy(o) \in Nat
  <2>1. /\ s \in DOMAIN raw /\ o \in OperationNames /\ Starts(o, "partial")
        /\ o \notin DOMAIN arrows
    BY <1>1 DEF Inv, UsesInv, Known
  <2>2. o.n \in Seq(Nat) /\ o.n # <<>>
    BY <1>1, <2>1 DEF OperationNames, WellFormed
  <2>3. AppliedBy(o) \in Nat
    BY <2>2 DEF AppliedBy, Last
  <2> QED
    BY <2>1, <2>3
<1>3. stage = "partials" /\ stage' = "partials"
  BY <1>1 DEF IsNext
<1>4. ASSUME NEW x \in DOMAIN new
      PROVE  /\ x = o \/ \E i \in Int : x \in {Identity(i, o), WithLeftUnit(i, o)}
             /\ Named(x)
  BY <1>2, PartialNames
<1>5. o \in DOMAIN new
  BY DEF PartialArrows, Override
<1>6. /\ DOMAIN raw' = DOMAIN raw
      /\ \A t \in DOMAIN raw : t # s => raw'[t] = raw[t]
      /\ "arrows" \in DOMAIN raw'[s]
      /\ raw'[s].arrows = Override(new, arrows)
  <2>1. "arrows" \in DOMAIN raw[s]
    BY <1>2 DEF Inv, TheoriesInv
  <2>2. raw' = [raw EXCEPT ![s].arrows = Override(new, arrows)]
    BY <1>1
  <2> HIDE DEF new
  <2> QED
    BY <1>2, <2>1, <2>2
<1> HIDE DEF new, o, s, arrows
<1>7. DOMAIN new \cap DOMAIN arrows = {} /\ IsFree(Override(new, arrows))
  <2>1. IsFree(arrows)
    BY <1>2, <1>3 DEF Inv, FreeInv, Validated, arrows
  <2> QED
    BY <1>2, <1>4, <1>5, <2>1, PartialKeepsFree
<1>8. Stay
  <2>1. ASSUME NEW x \in DOMAIN arrows
        PROVE  x \in DOMAIN raw'[s].arrows /\ raw'[s].arrows[x] = arrows[x]
    BY <1>6, <1>7 DEF Override
  <2> QED
    BY <1>6, <2>1 DEF Stay, arrows
<1>9. TheoriesInv'
  <2>1. stage' \notin BeforeUses
    BY <1>3 DEF BeforeUses
  <2>2. ASSUME NEW x \in DOMAIN raw'[s].arrows PROVE Named(x)
    <3>1. x \in DOMAIN new \/ x \in DOMAIN arrows
      BY <1>6 DEF Override
    <3> QED
      BY <1>2, <1>4, <3>1 DEF Inv, TheoriesInv, arrows
  <2>3. ASSUME NEW t \in DOMAIN raw', t # s
        PROVE  "arrows" \in DOMAIN raw'[t] /\ \A x \in DOMAIN raw'[t].arrows : Named(x)
    BY <1>6, <2>3 DEF Inv, TheoriesInv
  <2> QED
    BY <1>6, <2>1, <2>2, <2>3 DEF TheoriesInv
<1>10. FreeInv'
  BY <1>3, <1>6, <1>7 DEF Inv, FreeInv, Validated
<1>11. LoadingInv'
  BY <1>1, LoadingStays DEF Inv
<1>12. UsesInv'
  BY <1>1, <1>8, UsesStay DEF Inv
<1> QED
  BY <1>8, <1>9, <1>10, <1>11, <1>12 DEF Inv

LEMMA NamesStep ==
  ASSUME Inv, NameSymbols
  PROVE  Inv' /\ Stay
<1>1. /\ stage = "names" /\ stage' = "elaborated" /\ uses' = uses /\ UNCHANGED sourceVars
      /\ raw' = [t \in DOMAIN raw |->
                   IF t \in Above THEN [raw[t] EXCEPT !.arrows = Override(Names(@), @)] ELSE raw[t]]
  BY DEF NameSymbols
<1>2. DOMAIN raw' = DOMAIN raw
  BY <1>1
<1>3. ASSUME NEW t \in DOMAIN raw
      PROVE  /\ "arrows" \in DOMAIN raw'[t]
             /\ raw'[t].arrows \in {raw[t].arrows, Override(Names(raw[t].arrows), raw[t].arrows)}
  BY <1>1 DEF Inv, TheoriesInv
<1>4. ASSUME NEW t \in DOMAIN raw, NEW x \in DOMAIN Names(raw[t].arrows)
      PROVE  Named(x) /\ x \notin DOMAIN raw[t].arrows
  <2>1. PICK f \in DOMAIN raw[t].arrows : x = NameOf(f)
    BY DEF Names
  <2>2. Starts(x, "name") /\ Named(x)
    BY <2>1, NamesStart DEF Inv, TheoriesInv
  <2>3. IsFree(raw[t].arrows)
    BY <1>1 DEF Inv, FreeInv, Validated
  <2> QED
    BY <2>2, <2>3 DEF IsFree
<1>5. ASSUME NEW t \in DOMAIN raw, NEW x \in DOMAIN raw[t].arrows
      PROVE  x \in DOMAIN raw'[t].arrows /\ raw'[t].arrows[x] = raw[t].arrows[x]
  <2>1. x \notin DOMAIN Names(raw[t].arrows)
    BY <1>4
  <2>2. CASE raw'[t].arrows = raw[t].arrows
    BY <2>2
  <2>3. CASE raw'[t].arrows = Override(Names(raw[t].arrows), raw[t].arrows)
    BY <2>1, <2>3 DEF Override
  <2> QED
    BY <1>3, <2>2, <2>3
<1>6. Stay
  BY <1>2, <1>5 DEF Stay
<1>7. stage' \notin BeforeUses /\ stage' \notin Validated
  BY <1>1 DEF BeforeUses, Validated
<1>8. ASSUME NEW t \in DOMAIN raw, NEW x \in DOMAIN raw'[t].arrows
      PROVE  Named(x)
  <2>1. x \in DOMAIN raw[t].arrows \/ x \in DOMAIN Names(raw[t].arrows)
    BY <1>3 DEF Override
  <2> QED
    BY <1>4, <2>1 DEF Inv, TheoriesInv
<1>9. TheoriesInv' /\ FreeInv'
  BY <1>2, <1>3, <1>7, <1>8 DEF TheoriesInv, FreeInv
<1>10. LoadingInv'
  BY <1>1, LoadingStays DEF Inv
<1>11. UsesInv'
  BY <1>1, <1>6, UsesStay DEF Inv
<1> QED
  BY <1>6, <1>9, <1>10, <1>11 DEF Inv

-----------------------------------------------------------------------------
LEMMA Step ==
  ASSUME Inv, Elaborate
  PROVE  Inv' /\ Stay
<1>1. CASE Load /\ UNCHANGED uses
  BY <1>1, LoadStep
<1>2. CASE TypeLiteralsU64 \/ TypeLiteralsU32
  BY <1>2, LiteralsStep DEF TypeLiteralsU64, TypeLiteralsU32
<1>3. CASE Validate
  BY <1>3, ValidateStep
<1>4. CASE ConstantsU64 \/ ConstantsU32
  BY <1>4, ConstantsStep DEF ConstantsU64, ConstantsU32
<1>5. CASE CollectUses
  BY <1>5, CollectStep
<1>6. CASE SkipPartial \/ RefusePartial \/ PartialsDone
  BY <1>6, PartialsStep
<1>7. CASE AddPartial
  BY <1>7, AddPartialStep
<1>8. CASE NameSymbols
  BY <1>8, NamesStep
<1> QED
  BY <1>1, <1>2, <1>3, <1>4, <1>5, <1>6, <1>7, <1>8 DEF Elaborate

\* The invariant does not depend on given, visited, read or error, and a step that
\* leaves all variables alone keeps it.
LEMMA Stutter ==
  ASSUME Inv, UNCHANGED elaborationVars
  PROVE  Inv' /\ Stay
<1>1. /\ raw' = raw /\ uses' = uses /\ stage' = stage /\ UNCHANGED sourceVars
  BY DEF elaborationVars, theoryVars
<1> QED
  BY <1>1, LoadingStays, SameTheories DEF Inv

\* Whatever the bundles, the sources and the order in which partial applications
\* are taken, no step of loading or elaboration changes or drops an arrow that is
\* there: the arrows that constants::elaborate, partial_applications.rs and
\* name_symbols.rs insert without looking are always new, because validate.rs has
\* refused the programs in which they might not be.
THEOREM Stays == ElaborationSpec => ArrowsStay
<1>1. ElaborationInit => Inv
  BY Init
<1>2. Inv /\ [Elaborate]_elaborationVars => Inv' /\ [Stay]_raw
  BY Step, Stutter
<1> QED
  BY <1>1, <1>2, PTL DEF ElaborationSpec, ArrowsStay, Stay

-----------------------------------------------------------------------------
\* The program that was loaded is kept in given; validation has seen all of it.

AfterLoading ==
  {"literals u64", "literals u32", "validation", "constants u64", "constants u32", "uses",
   "partials", "names", "elaborated"}

GivenInv ==
  stage \in AfterLoading =>
    /\ DOMAIN given = DOMAIN raw
    /\ \A t \in DOMAIN given : \A o \in DOMAIN given[t].arrows :
         o \in DOMAIN raw[t].arrows /\ raw[t].arrows[o] = given[t].arrows[o]

\* No definition of the theories T refers to what is reserved.
IsClean(T) ==
  \A t \in DOMAIN T : \A o \in DOMAIN T[t].arrows :
    \A used \in InDefinition(T[t].arrows[o]) : ~ReservedReference(used)

\* What leads to a helper is a helper, or in the end the name of one.
IsPrivate(arrows) ==
  \A d \in DOMAIN arrows : LeadsToHelper(d) => Head(d.p) \in GeneratedPrefixes
IsPrivateOrName(arrows) ==
  \A d \in DOMAIN arrows : LeadsToHelper(d) => ReservedReference(d)

CleanInv ==
  /\ stage \in Validated \cup {"elaborated"} => IsClean(given)
  /\ stage \in {"constants u64", "constants u32", "uses"} => IsClean(raw)
  /\ \A u \in uses : ~ReservedReference(Used(u))

PrivateInv ==
  /\ stage \in Validated => \A t \in DOMAIN raw : IsPrivate(raw[t].arrows)
  /\ stage = "elaborated" => \A t \in DOMAIN raw : IsPrivateOrName(raw[t].arrows)

\* A name without a prefix does not lead to a helper.
LEMMA NotBare ==
  ASSUME NEW o, Named(o), LeadsToHelper(o)
  PROVE  o.p # <<>> /\ Len(o.p) \in Nat \ {0} /\ Head(o.p) = o.p[1]
<1>1. PICK i \in DOMAIN o.p : o.p[i] \in GeneratedPrefixes
  BY DEF LeadsToHelper
<1>2. o.p \in Seq(Strings)
  BY DEF Named
<1>3. DOMAIN o.p = 1..Len(o.p) /\ Len(o.p) \in Nat
  BY <1>2
<1>4. i \in 1..Len(o.p)
  BY <1>1, <1>3
<1>5. Len(o.p) \in Nat \ {0}
  BY <1>3, <1>4
<1> QED
  BY <1>2, <1>5

\* Its first prefix is that of a helper, or else one of the two, and what follows
\* leads to one.
LEMMA FirstPrefix ==
  ASSUME NEW o, Named(o), LeadsToHelper(o), NEW rest, Named(rest), rest.p = Tail(o.p)
  PROVE  \/ Head(o.p) \in GeneratedPrefixes
         \/ Head(o.p) \in {"name", "partial"} /\ LeadsToHelper(rest)
<1>1. o.p \in Seq(Strings) /\ o.p # <<>> /\ Len(o.p) \in Nat \ {0} /\ Head(o.p) = o.p[1]
  BY NotBare DEF Named
<1>2. PICK i \in DOMAIN o.p :
        o.p[i] \in GeneratedPrefixes /\ \A j \in 1..(i - 1) : o.p[j] \in {"name", "partial"}
  BY DEF LeadsToHelper
<1>3. i \in 1..Len(o.p)
  BY <1>1, <1>2
<1>4. CASE i = 1
  BY <1>1, <1>2, <1>4
<1>5. CASE i # 1
  <2>1. Head(o.p) \in {"name", "partial"}
    BY <1>1, <1>2, <1>3, <1>5
  <2>2. /\ DOMAIN rest.p = 1..(Len(o.p) - 1)
        /\ \A j \in 1..(Len(o.p) - 1) : rest.p[j] = o.p[j + 1]
    BY <1>1
  <2>3. i - 1 \in DOMAIN rest.p /\ rest.p[i - 1] \in GeneratedPrefixes
    BY <1>1, <1>2, <1>3, <1>5, <2>2
  <2>4. \A j \in 1..(i - 2) : rest.p[j] \in {"name", "partial"}
    <3> SUFFICES ASSUME NEW j \in 1..(i - 2) PROVE rest.p[j] \in {"name", "partial"}
      OBVIOUS
    <3>1. j + 1 \in 1..(i - 1) /\ j \in 1..(Len(o.p) - 1)
      BY <1>1, <1>3
    <3> QED
      BY <1>2, <2>2, <3>1
  <2> QED
    BY <1>3, <2>1, <2>3, <2>4 DEF LeadsToHelper
<1> QED
  BY <1>4, <1>5

\* Constants and what starts with a reserved prefix of another kind lead nowhere.
LEMMA ConstantsLeadNowhere ==
  ASSUME NEW o, Named(o), IsConstant(o)
  PROVE  ~LeadsToHelper(o)
<1> SUFFICES ASSUME LeadsToHelper(o) PROVE FALSE
  OBVIOUS
<1>1. o.p \in Seq(Strings) /\ o.p # <<>> /\ Len(o.p) \in Nat \ {0} /\ Head(o.p) = o.p[1]
  BY NotBare DEF Named
<1>2. PICK i \in DOMAIN o.p :
        o.p[i] \in GeneratedPrefixes /\ \A j \in 1..(i - 1) : o.p[j] \in {"name", "partial"}
  BY DEF LeadsToHelper
<1>3. i \in 1..Len(o.p)
  BY <1>1, <1>2
<1>4. o.p[1] \in GeneratedPrefixes \cup {"name", "partial"}
  BY <1>2, <1>3
<1> QED
  BY <1>1, <1>4 DEF IsConstant, Starts, GeneratedPrefixes

-----------------------------------------------------------------------------
\* Where given and uses change.

\* After loading theories and program stay, whatever is added.
LEMMA GivenStays ==
  ASSUME GivenInv, given' = given, DOMAIN raw' = DOMAIN raw, Stay,
         stage' \in AfterLoading => stage \in AfterLoading
  PROVE  GivenInv'
<1> SUFFICES ASSUME stage' \in AfterLoading
             PROVE  /\ DOMAIN given = DOMAIN raw'
                    /\ \A t \in DOMAIN given : \A o \in DOMAIN given[t].arrows :
                         o \in DOMAIN raw'[t].arrows /\ raw'[t].arrows[o] = given[t].arrows[o]
  BY DEF GivenInv
<1> QED
  BY DEF GivenInv, Stay

LEMMA LoadKeepsGiven ==
  ASSUME Inv, GivenInv, Load
  PROVE  GivenInv'
<1>1. CASE Loaded
  BY <1>1 DEF Loaded, GivenInv
<1>2. CASE ~Loaded
  <2>1. stage' \in {"bundles", "merge", "refused"}
    BY <1>2 DEF Load, VisitAgain, RefuseBundle, EnterBundle, LeaveBundle, Resolved, SkipFile,
                MergeFile, RefuseFile, Refuse, AtName, AtFile, theoryVars
  <2> QED
    BY <2>1 DEF GivenInv, AfterLoading
<1> QED
  BY <1>1, <1>2

\* The other steps keep the theories' names and what was given.
LEMMA ContinueKeeps ==
  ASSUME NEW reasons, NEW after, NEW then, Continue(reasons, after, then)
  PROVE  given' = given /\ stage' \in {then, "refused"}
BY Zenon DEF Continue, Refuse

LEMMA UsesStayClean ==
  ASSUME UsesInv, Stay, \A u \in uses : ~ReservedReference(Used(u)), uses' \subseteq uses
  PROVE  \A u \in uses' : ~ReservedReference(Used(u)')
<1> SUFFICES ASSUME NEW u \in uses PROVE Used(u)' = Used(u)
  OBVIOUS
<1> QED
  BY DEF UsesInv, Stay, Used

PrivacyInv == GivenInv /\ CleanInv /\ PrivateInv

LEMMA PrivacyInit == ElaborationInit => PrivacyInv
BY DEF ElaborationInit, SourcesInit, PrivacyInv, GivenInv, CleanInv, PrivateInv, AfterLoading,
       Validated

\* Before validation, and after a refusal, nothing is asked of what is there.
LEMMA NotYetValid ==
  ASSUME Inv, Inv', PrivacyInv, Stay, uses' \subseteq uses, GivenInv',
         stage' \notin Validated \cup {"elaborated"}
  PROVE  PrivacyInv'
<1>1. \A u \in uses' : ~ReservedReference(Used(u)')
  BY UsesStayClean DEF Inv, PrivacyInv, CleanInv
<1>2. CleanInv'
  BY <1>1 DEF CleanInv, Validated
<1>3. PrivateInv'
  BY DEF PrivateInv
<1> QED
  BY <1>2, <1>3 DEF PrivacyInv

LEMMA LoadPrivacy ==
  ASSUME Inv, PrivacyInv, Load, uses' = uses
  PROVE  PrivacyInv'
<1>1. Inv' /\ Stay
  BY LoadStep
<1>2. GivenInv'
  BY LoadKeepsGiven DEF PrivacyInv
<1>3. stage' \in {"bundles", "merge", "refused", "literals u64"}
  BY DEF Load, VisitAgain, RefuseBundle, EnterBundle, LeaveBundle, Resolved, SkipFile,
         MergeFile, RefuseFile, Loaded, Refuse, AtName, AtFile, theoryVars
<1> QED
  BY <1>1, <1>2, <1>3, NotYetValid DEF Validated

LEMMA LiteralsPrivacy ==
  ASSUME Inv, PrivacyInv, TypeLiteralsU64 \/ TypeLiteralsU32
  PROVE  PrivacyInv'
<1>1. Inv' /\ Stay
  BY Step DEF Elaborate
<1>2. /\ given' = given /\ stage' \in {"literals u32", "validation", "refused"}
      /\ uses' = uses /\ DOMAIN raw' = DOMAIN raw
  <2>1. ASSUME NEW kind, NEW then, TypeLiterals(kind, then)
        PROVE  /\ given' = given /\ stage' \in {then, "refused"}
               /\ uses' = uses /\ DOMAIN raw' = DOMAIN raw
    <3>1. \E reasons, new :
            Continue(reasons, raw, then) \/ Continue(reasons, Extended(new), then)
      BY <2>1 DEF TypeLiterals
    <3>2. PICK reasons, new :
            Continue(reasons, raw, then) \/ Continue(reasons, Extended(new), then)
      BY <3>1
    <3>3. DOMAIN Extended(new) = DOMAIN raw
      BY DEF Extended
    <3>4. CASE Continue(reasons, raw, then)
      BY <3>4, ContinueKeeps, ContinueCases
    <3>5. CASE Continue(reasons, Extended(new), then)
      BY <3>3, <3>5, ContinueKeeps, ContinueCases
    <3> QED
      BY <3>2, <3>4, <3>5
  <2> QED
    BY <2>1 DEF TypeLiteralsU64, TypeLiteralsU32
<1>3. stage \in AfterLoading
  BY DEF TypeLiteralsU64, TypeLiteralsU32, AfterLoading
<1>4. GivenInv'
  BY <1>1, <1>2, <1>3, GivenStays DEF PrivacyInv
<1> QED
  BY <1>1, <1>2, <1>4, NotYetValid DEF Validated

LEMMA ValidatePrivacy ==
  ASSUME Inv, PrivacyInv, Validate
  PROVE  PrivacyInv'
<1>1. Inv' /\ Stay
  BY ValidateStep
<1>2. Continue(ValidationReasons, raw, "constants u64") /\ stage = "validation"
  BY DEF Validate
<1>3. given' = given /\ uses' = uses /\ raw' = raw /\ stage' \in {"constants u64", "refused"}
  BY <1>2, ContinueKeeps, ContinueCases
<1>4. GivenInv'
  BY <1>1, <1>2, <1>3, GivenStays DEF PrivacyInv, AfterLoading
<1>5. CASE stage' = "refused"
  BY <1>1, <1>3, <1>4, <1>5, NotYetValid DEF Validated
<1>6. CASE \A i \in DOMAIN ValidationReasons : ~ValidationReasons[i][1]
  <2>1. 1 \in DOMAIN ValidationReasons /\ 2 \in DOMAIN ValidationReasons
    BY DEF ValidationReasons
  <2>2. ValidationReasons[1][1] = (\E a \in ArrowsIn(DOMAIN raw) : ReservedName(a[2]))
    BY DEF ValidationReasons
  <2>3. ValidationReasons[2][1] = (\E t \in DOMAIN raw : \E o \in InTheory(raw[t]) : ReservedReference(o))
    BY DEF ValidationReasons
  <2>4. ASSUME NEW t \in DOMAIN raw, NEW o \in DOMAIN raw[t].arrows
        PROVE  ~ReservedName(o)
    <3>1. <<t, o>> \in ArrowsIn(DOMAIN raw)
      BY DEF ArrowsIn
    <3>2. ~ValidationReasons[1][1]
      BY <1>6, <2>1
    <3> QED
      BY <2>2, <3>1, <3>2
  <2>5. ASSUME NEW t \in DOMAIN raw, NEW o \in DOMAIN raw[t].arrows,
               NEW used \in InDefinition(raw[t].arrows[o])
        PROVE  ~ReservedReference(used)
    <3>1. used \in InTheory(raw[t])
      BY DEF InTheory, Arrows, References, Range
    <3> QED
      BY <1>6, <2>1, <2>3, <3>1
  <2>6. IsClean(raw)
    BY <2>5 DEF IsClean
  <2>7. IsClean(given)
    <3>1. \A t \in DOMAIN given : t \in DOMAIN raw /\ \A o \in DOMAIN given[t].arrows :
            o \in DOMAIN raw[t].arrows /\ raw[t].arrows[o] = given[t].arrows[o]
      BY <1>2 DEF PrivacyInv, GivenInv, AfterLoading
    <3> QED
      BY <2>6, <3>1 DEF IsClean
  <2>8. ASSUME NEW t \in DOMAIN raw PROVE IsPrivate(raw[t].arrows)
    <3> SUFFICES ASSUME NEW d \in DOMAIN raw[t].arrows, LeadsToHelper(d) PROVE FALSE
      BY DEF IsPrivate
    <3>1. Named(d)
      BY DEF Inv, TheoriesInv
    <3>2. /\ d.p \in Seq(Strings) /\ d.p # <<>> /\ Len(d.p) \in Nat \ {0} /\ Head(d.p) = d.p[1]
      BY <3>1, NotBare DEF Named
    <3>3. PICK i \in DOMAIN d.p :
            d.p[i] \in GeneratedPrefixes /\ \A j \in 1..(i - 1) : d.p[j] \in {"name", "partial"}
      BY DEF LeadsToHelper
    <3>4. i \in 1..Len(d.p)
      BY <3>2, <3>3
    <3>5. Head(d.p) \in GeneratedPrefixes \cup {"name", "partial"}
      BY <3>2, <3>3, <3>4
    <3>6. ReservedName(d)
      BY <3>2, <3>5 DEF ReservedName, ReservedPrefixes
    <3> QED
      BY <2>4, <3>6
  <2>9. CleanInv'
    <3>1. (IsClean(raw) /\ IsClean(given))'
      BY <1>3, <2>6, <2>7 DEF IsClean
    <3>2. \A u \in uses' : ~ReservedReference(Used(u)')
      BY <1>1, <1>3, UsesStayClean DEF Inv, PrivacyInv, CleanInv
    <3> QED
      BY <3>1, <3>2 DEF CleanInv
  <2>10. PrivateInv'
    BY <1>3, <2>8 DEF PrivateInv
  <2> QED
    BY <1>4, <2>9, <2>10 DEF PrivacyInv
<1> QED
  BY <1>2, <1>5, <1>6, ContinueCases

LEMMA ConstantsPrivacy ==
  ASSUME Inv, PrivacyInv, ConstantsU64 \/ ConstantsU32
  PROVE  PrivacyInv'
<1>1. Inv' /\ Stay
  BY Step DEF Elaborate
<1>2. PICK kind \in {U64, U32} :
        /\ Constants(kind, IF stage = "constants u64" THEN "constants u32" ELSE "uses")
        /\ stage \in {"constants u64", "constants u32"}
  BY DEF ConstantsU64, ConstantsU32
<1> DEFINE then == IF stage = "constants u64" THEN "constants u32" ELSE "uses"
           used(t) == {o \in InDefinitions(raw[t]) : Starts(o, kind.prefix)}
           new == [t \in DOMAIN raw |-> [o \in used(t) |-> ConstArrow(kind)]]
           reasons == <<<<\E t \in DOMAIN raw : \E o \in used(t) : ~ValidConstant(o, kind),
                          "InvalidConstant">>>>
<1>3. Continue(reasons, Extended(new), then)
  BY <1>2 DEF Constants
<1>4. stage \in Validated /\ stage \in BeforeUses /\ stage \in AfterLoading
  BY <1>2 DEF Validated, BeforeUses, AfterLoading
<1>5. then \in {"constants u32", "uses"}
  OBVIOUS
<1>6. ASSUME NEW t \in DOMAIN raw, NEW o \in DOMAIN new[t]
      PROVE  Named(o) /\ IsConstant(o) /\ InDefinition(new[t][o]) = {}
  <2>1. o \in used(t) /\ new[t][o] = ConstArrow(kind)
    OBVIOUS
  <2>2. PICK x \in DOMAIN raw[t].arrows : o \in InDefinition(raw[t].arrows[x])
    BY <2>1 DEF InDefinitions, Arrows, Range
  <2>3. o \in OperationNames
    BY <1>4, <2>2 DEF Inv, TheoriesInv, IsSource
  <2>4. Named(o)
    BY <2>3, SeqMonotonic DEF OperationNames, Named, Strings
  <2>5. IsConstant(o)
    <3>1. U64.prefix = "const.u64" /\ U32.prefix = "const.u32"
      BY DEF U64, U32
    <3> QED
      BY <2>1, <3>1 DEF IsConstant
  <2>6. ConstArrow(kind).def = <<>>
    BY DEF ConstArrow, Arrow
  <2>7. Range(ConstArrow(kind).def) = {}
    BY <2>6 DEF Range
  <2>8. InDefinition(ConstArrow(kind)) = {}
    BY <2>7 DEF InDefinition
  <2> QED
    BY <2>1, <2>4, <2>5, <2>8
<1> HIDE DEF new, reasons, then
<1>7. given' = given /\ stage' \in {then, "refused"} /\ uses' = uses
  BY <1>3, ContinueKeeps, ContinueCases
<1>8. DOMAIN raw' = DOMAIN raw
  BY <1>3, ContinueCases DEF Extended
<1>9. GivenInv'
  BY <1>1, <1>4, <1>7, <1>8, GivenStays DEF PrivacyInv
<1>10. CASE stage' = "refused"
  BY <1>1, <1>7, <1>9, <1>10, NotYetValid DEF Validated
<1>11. CASE raw' = Extended(new) /\ stage' = then
  <2>1. ASSUME NEW t \in DOMAIN raw, NEW o \in DOMAIN raw'[t].arrows
        PROVE  \/ o \in DOMAIN raw[t].arrows /\ raw'[t].arrows[o] = raw[t].arrows[o]
               \/ o \in DOMAIN new[t] /\ raw'[t].arrows[o] = new[t][o]
    <3>1. raw'[t].arrows = Override(raw[t].arrows, new[t])
      BY <1>11, ExtendedKeeps DEF Inv
    <3> QED
      BY <3>1 DEF Override
  <2>2. IsClean(given) /\ IsClean(raw)
    BY <1>2, <1>4 DEF PrivacyInv, CleanInv
  <2>3. IsClean(raw)'
    <3>1. ASSUME NEW t \in DOMAIN raw, NEW o \in DOMAIN raw'[t].arrows,
                 NEW used1 \in InDefinition(raw'[t].arrows[o])
          PROVE  ~ReservedReference(used1)
      BY <1>6, <2>1, <2>2 DEF IsClean
    <3> QED
      BY <1>8, <3>1 DEF IsClean
  <2>4. CleanInv'
    <3>1. \A u \in uses' : ~ReservedReference(Used(u)')
      BY <1>1, <1>7, UsesStayClean DEF Inv, PrivacyInv, CleanInv
    <3>2. IsClean(given)'
      BY <1>7, <2>2 DEF IsClean
    <3> QED
      BY <2>3, <3>1, <3>2 DEF CleanInv
  <2>5. ASSUME NEW t \in DOMAIN raw', NEW d \in DOMAIN raw'[t].arrows, LeadsToHelper(d)
        PROVE  Head(d.p) \in GeneratedPrefixes
    <3>1. d \notin DOMAIN new[t]
      BY <1>6, <1>8, <2>5, ConstantsLeadNowhere
    <3>2. d \in DOMAIN raw[t].arrows
      BY <1>8, <2>1, <2>5, <3>1
    <3>3. IsPrivate(raw[t].arrows)
      BY <1>4, <1>8 DEF PrivacyInv, PrivateInv
    <3> QED
      BY <2>5, <3>2, <3>3 DEF IsPrivate
  <2>6. PrivateInv'
    <3>1. stage' # "elaborated"
      BY <1>5, <1>11
    <3>2. \A t \in DOMAIN raw' : IsPrivate(raw'[t].arrows)
      BY <2>5 DEF IsPrivate
    <3> QED
      BY <3>1, <3>2 DEF PrivateInv
  <2> QED
    BY <1>9, <2>4, <2>6 DEF PrivacyInv
<1> QED
  BY <1>3, <1>10, <1>11, ContinueCases

LEMMA CollectPrivacy ==
  ASSUME Inv, PrivacyInv, CollectUses
  PROVE  PrivacyInv'
<1>1. Inv' /\ Stay
  BY CollectStep
<1>2. /\ stage = "uses" /\ stage' = "partials" /\ raw' = raw /\ given' = given
      /\ uses' = UNION {UNION {UsesIn(t, o) : o \in DOMAIN raw[t].arrows} : t \in Above}
  BY DEF CollectUses
<1>3. GivenInv'
  BY <1>1, <1>2, GivenStays DEF PrivacyInv, AfterLoading
<1>4. IsClean(given) /\ IsClean(raw)
  BY <1>2 DEF PrivacyInv, CleanInv, Validated
<1>5. ASSUME NEW u \in uses' PROVE ~ReservedReference(Used(u))
  <2>1. PICK t \in Above : \E x \in DOMAIN raw[t].arrows : u \in UsesIn(t, x)
    BY <1>2
  <2>2. PICK o \in DOMAIN raw[t].arrows : u \in UsesIn(t, o)
    BY <2>1
  <2>3. PICK def \in Range(raw[t].arrows[o].def) :
          \E d \in EdgesOf(def) :
            u = [theory |-> t, arrow |-> o, e |-> d] /\ Starts(def.edges[d].n, "partial")
    BY <2>2 DEF UsesIn
  <2>4. PICK e \in EdgesOf(def) : u = [theory |-> t, arrow |-> o, e |-> e]
    BY <2>3
  <2>5. t \in DOMAIN raw
    BY DEF Above
  <2>6. IsSource(raw[t].arrows[o])
    BY <1>2, <2>5 DEF Inv, TheoriesInv, BeforeUses
  <2>7. def = raw[t].arrows[o].def[1]
    BY <2>6 DEF IsSource, Range
  <2>8. Used(u) = def.edges[e].n
    BY <2>4, <2>7 DEF Used
  <2>9. Used(u) \in InDefinition(raw[t].arrows[o])
    BY <2>8 DEF InDefinition, Operations
  <2> QED
    BY <1>4, <2>5, <2>9 DEF IsClean
<1>6. CleanInv'
  <2>1. \A u \in uses' : Used(u)' = Used(u)
    BY <1>2 DEF Used
  <2>2. IsClean(given)'
    BY <1>2, <1>4 DEF IsClean
  <2> QED
    BY <1>2, <1>5, <2>1, <2>2 DEF CleanInv
<1>7. PrivateInv'
  BY <1>2 DEF PrivacyInv, PrivateInv, Validated
<1> QED
  BY <1>3, <1>6, <1>7 DEF PrivacyInv

LEMMA PartialsPrivacy ==
  ASSUME Inv, PrivacyInv, SkipPartial \/ RefusePartial \/ PartialsDone
  PROVE  PrivacyInv'
<1>1. Inv' /\ Stay
  BY PartialsStep
<1>2. /\ raw' = raw /\ given' = given /\ uses' \subseteq uses
      /\ \/ stage' = stage
         \/ stage' = "refused"
         \/ stage = "partials" /\ stage' = "names"
  BY DEF SkipPartial, RefusePartial, PartialsDone, Refuse, theoryVars
<1>3. GivenInv'
  BY <1>1, <1>2, GivenStays DEF PrivacyInv, AfterLoading
<1>4. \A u \in uses' : ~ReservedReference(Used(u)')
  BY <1>1, <1>2, UsesStayClean DEF Inv, PrivacyInv, CleanInv
<1>5. CleanInv'
  BY <1>2, <1>4 DEF PrivacyInv, CleanInv, Validated, IsClean
<1>6. PrivateInv'
  BY <1>2 DEF PrivacyInv, PrivateInv, Validated
<1> QED
  BY <1>3, <1>5, <1>6 DEF PrivacyInv

LEMMA AddPartialPrivacy ==
  ASSUME Inv, PrivacyInv, AddPartial
  PROVE  PrivacyInv'
<1>1. Inv' /\ Stay
  BY AddPartialStep
<1>2. PICK use \in uses :
        /\ IsNext(use) /\ WellFormed(Used(use)) /\ Used(use) \notin Known(use)
        /\ PartialOf(Used(use)) \in Known(use)
        /\ raw' = [raw EXCEPT ![use.theory].arrows =
                     Override(PartialArrows(@[PartialOf(Used(use))], PartialOf(Used(use)),
                                            AppliedBy(Used(use)), Used(use)), @)]
        /\ uses' = uses \ {use}
        /\ UNCHANGED <<given, stage, error, sourceVars>>
  BY DEF AddPartial
<1> DEFINE o == Used(use)
           s == use.theory
           arrows == raw[s].arrows
           new == PartialArrows(arrows[PartialOf(o)], PartialOf(o), AppliedBy(o), o)
<1>3. /\ s \in DOMAIN raw /\ o \in OperationNames /\ Starts(o, "partial")
      /\ PartialOf(o) \in DOMAIN arrows /\ AppliedBy(o) \in Nat
  <2>1. /\ s \in DOMAIN raw /\ o \in OperationNames /\ Starts(o, "partial")
        /\ PartialOf(o) \in DOMAIN arrows
    BY <1>2 DEF Inv, UsesInv, Known
  <2>2. o.n \in Seq(Nat) /\ o.n # <<>>
    BY <1>2, <2>1 DEF OperationNames, WellFormed
  <2>3. AppliedBy(o) \in Nat
    BY <2>2 DEF AppliedBy, Last
  <2> QED
    BY <2>1, <2>3
<1>4. stage = "partials" /\ stage' = "partials"
  BY <1>2 DEF IsNext
<1>5. ASSUME NEW x \in DOMAIN new
      PROVE  x = o \/ \E i \in Int : x \in {Identity(i, o), WithLeftUnit(i, o)}
  BY <1>3, PartialNames
<1>6. /\ DOMAIN raw' = DOMAIN raw
      /\ \A t \in DOMAIN raw : t # s => raw'[t] = raw[t]
      /\ raw'[s].arrows = Override(new, arrows)
  <2>1. "arrows" \in DOMAIN raw[s]
    BY <1>3 DEF Inv, TheoriesInv
  <2>2. raw' = [raw EXCEPT ![s].arrows = Override(new, arrows)]
    BY <1>2
  <2> HIDE DEF new
  <2> QED
    BY <1>3, <2>1, <2>2
<1> HIDE DEF new, o, s, arrows
<1>7. GivenInv'
  BY <1>1, <1>2, <1>6, GivenStays DEF PrivacyInv
<1>8. CleanInv'
  <2>1. \A u \in uses' : ~ReservedReference(Used(u)')
    BY <1>1, <1>2, UsesStayClean DEF Inv, PrivacyInv, CleanInv
  <2> QED
    BY <1>2, <1>4, <2>1 DEF PrivacyInv, CleanInv, Validated, IsClean
<1>9. IsPrivate(arrows)
  BY <1>3, <1>4 DEF PrivacyInv, PrivateInv, Validated, arrows
<1>10. ~LeadsToHelper(o)
  <2> SUFFICES ASSUME LeadsToHelper(o) PROVE FALSE
    OBVIOUS
  <2>1. Named(o)
    BY <1>3, SeqMonotonic DEF OperationNames, Named, Strings
  <2>2. PartialOf(o).p = Tail(o.p) /\ "p" \in DOMAIN PartialOf(o)
    BY DEF PartialOf, Name
  <2>3. o.p # <<>> /\ Head(o.p) = "partial"
    BY <1>3 DEF Starts
  <2>4. Named(PartialOf(o))
    BY <2>1, <2>2, <2>3 DEF Named
  <2>5. LeadsToHelper(PartialOf(o))
    BY <2>1, <2>2, <2>3, <2>4, FirstPrefix DEF GeneratedPrefixes
  <2>6. Head(Tail(o.p)) \in GeneratedPrefixes /\ Tail(o.p) # <<>>
    BY <1>3, <1>9, <2>2, <2>4, <2>5, NotBare DEF IsPrivate
  <2>7. ReservedReference(o)
    BY <2>3, <2>6 DEF ReservedReference
  <2> QED
    BY <2>7 DEF PrivacyInv, CleanInv, o
<1>11. IsPrivate(Override(new, arrows))
  <2> SUFFICES ASSUME NEW d \in DOMAIN Override(new, arrows), LeadsToHelper(d)
               PROVE  Head(d.p) \in GeneratedPrefixes
    BY DEF IsPrivate
  <2>1. d \in DOMAIN arrows \/ d \in DOMAIN new
    BY DEF Override
  <2>2. CASE d \in DOMAIN arrows
    BY <1>9, <2>2 DEF IsPrivate
  <2>3. CASE d \in DOMAIN new
    <3>1. PICK i \in Int : d \in {Identity(i, o), WithLeftUnit(i, o)}
      BY <1>5, <1>10, <2>3
    <3> QED
      BY <1>3, <3>1, HelperNames DEF GeneratedPrefixes
  <2> QED
    BY <2>1, <2>2, <2>3
<1>12. PrivateInv'
  <2>1. \A t \in DOMAIN raw' : IsPrivate(raw'[t].arrows)
    BY <1>4, <1>6, <1>11 DEF PrivacyInv, PrivateInv, Validated
  <2> QED
    BY <1>4, <2>1 DEF PrivateInv
<1> QED
  BY <1>7, <1>8, <1>12 DEF PrivacyInv

LEMMA NamesPrivacy ==
  ASSUME Inv, PrivacyInv, NameSymbols
  PROVE  PrivacyInv'
<1>1. Inv' /\ Stay
  BY NamesStep
<1>2. /\ stage = "names" /\ stage' = "elaborated" /\ uses' = uses /\ given' = given
      /\ raw' = [t \in DOMAIN raw |->
                   IF t \in Above THEN [raw[t] EXCEPT !.arrows = Override(Names(@), @)] ELSE raw[t]]
  BY DEF NameSymbols
<1>3. DOMAIN raw' = DOMAIN raw
  BY <1>2
<1>4. ASSUME NEW t \in DOMAIN raw
      PROVE  raw'[t].arrows \in {raw[t].arrows, Override(Names(raw[t].arrows), raw[t].arrows)}
  BY <1>2 DEF Inv, TheoriesInv
<1>5. GivenInv'
  BY <1>1, <1>2, <1>3, GivenStays DEF PrivacyInv, AfterLoading
<1>6. CleanInv'
  <2>1. \A u \in uses' : ~ReservedReference(Used(u)')
    BY <1>1, <1>2, UsesStayClean DEF Inv, PrivacyInv, CleanInv
  <2> QED
    BY <1>2, <2>1 DEF PrivacyInv, CleanInv, Validated, IsClean
<1>7. ASSUME NEW t \in DOMAIN raw, NEW d \in DOMAIN raw'[t].arrows, LeadsToHelper(d)
      PROVE  ReservedReference(d)
  <2>1. IsPrivate(raw[t].arrows)
    BY <1>2 DEF PrivacyInv, PrivateInv, Validated
  <2>2. d \in DOMAIN raw[t].arrows \/ d \in DOMAIN Names(raw[t].arrows)
    BY <1>4 DEF Override
  <2>3. CASE d \in DOMAIN raw[t].arrows
    <3>1. Named(d)
      BY <2>3 DEF Inv, TheoriesInv
    <3>2. Head(d.p) \in GeneratedPrefixes /\ d.p # <<>>
      BY <1>7, <2>1, <2>3, <3>1, NotBare DEF IsPrivate
    <3> QED
      BY <3>2 DEF ReservedReference, GeneratedPrefixes
  <2>4. CASE d \in DOMAIN Names(raw[t].arrows)
    <3>1. PICK f \in DOMAIN raw[t].arrows : d = NameOf(f)
      BY <2>4 DEF Names
    <3>2. Named(f)
      BY <3>1 DEF Inv, TheoriesInv
    <3>3. Starts(d, "name") /\ Named(d)
      BY <3>1, <3>2, NamesStart
    <3>4. d.p = <<"name">> \o f.p /\ f.p \in Seq(Strings) /\ <<"name">> \in Seq(Strings)
      BY <3>1, <3>2, Single DEF NameOf, Prefixed, Named, Strings
    <3>5. Tail(d.p) = f.p /\ Head(d.p) = "name"
      BY <3>4
    <3>6. LeadsToHelper(f)
      BY <1>7, <3>2, <3>3, <3>5, FirstPrefix DEF GeneratedPrefixes
    <3>7. Head(f.p) \in GeneratedPrefixes /\ f.p # <<>>
      BY <2>1, <3>1, <3>2, <3>6, NotBare DEF IsPrivate
    <3> QED
      BY <3>3, <3>5, <3>7 DEF ReservedReference, Starts
  <2> QED
    BY <2>2, <2>3, <2>4
<1>8. PrivateInv'
  BY <1>2, <1>3, <1>7 DEF PrivateInv, IsPrivateOrName, Validated
<1> QED
  BY <1>5, <1>6, <1>8 DEF PrivacyInv

LEMMA PrivacyStep ==
  ASSUME Inv, PrivacyInv, Elaborate
  PROVE  PrivacyInv'
<1>1. CASE Load /\ UNCHANGED uses
  BY <1>1, LoadPrivacy
<1> QED
  BY <1>1, LiteralsPrivacy, ValidatePrivacy, ConstantsPrivacy, CollectPrivacy, PartialsPrivacy,
     AddPartialPrivacy, NamesPrivacy DEF Elaborate

LEMMA PrivacyStutter ==
  ASSUME PrivacyInv, UNCHANGED elaborationVars
  PROVE  PrivacyInv'
<1>1. raw' = raw /\ uses' = uses /\ stage' = stage /\ given' = given
  BY DEF elaborationVars, theoryVars
<1>2. \A u \in uses' : Used(u)' = Used(u)
  BY <1>1 DEF Used
<1>3. CleanInv'
  BY <1>1, <1>2 DEF PrivacyInv, CleanInv, IsClean
<1> QED
  BY <1>1, <1>3 DEF PrivacyInv, GivenInv, PrivateInv

\* A program that elaborates refers to no helper of a partial application, under any
\* number of prefixes, unless what it refers to is not declared: validate.rs strips
\* one prefix, and what is declared under more of them leads to a helper only if
\* the program could not be validated.
THEOREM Private == ElaborationSpec => []HelpersArePrivate
<1>1. ElaborationInit => Inv /\ PrivacyInv
  BY Init, PrivacyInit
<1>2. Inv /\ PrivacyInv /\ [Elaborate]_elaborationVars => (Inv /\ PrivacyInv)'
  BY Step, Stutter, PrivacyStep, PrivacyStutter
<1>3. Inv /\ PrivacyInv => HelpersArePrivate
  <2> SUFFICES ASSUME PrivacyInv, stage = "elaborated", NEW t \in Above,
                      NEW o \in DOMAIN given[t].arrows,
                      NEW used \in InDefinition(given[t].arrows[o]),
                      LeadsToHelper(used), used \in DOMAIN raw[t].arrows
               PROVE  FALSE
    BY DEF HelpersArePrivate
  <2>1. t \in DOMAIN raw /\ t \in DOMAIN given
    BY DEF Above, PrivacyInv, GivenInv, AfterLoading
  <2>2. ReservedReference(used)
    BY <2>1 DEF PrivacyInv, PrivateInv, IsPrivateOrName
  <2>3. ~ReservedReference(used)
    BY <2>1 DEF PrivacyInv, CleanInv, IsClean
  <2> QED
    BY <2>2, <2>3
<1> QED
  BY <1>1, <1>2, <1>3, PTL DEF ElaborationSpec

-----------------------------------------------------------------------------
\* The bundles.

\* The library has finitely many extensions: of a least set of bundles that had
\* infinitely many one could take a bundle away.
LEMMA ExtensionsAreFinite == IsFiniteSet(Extensions)
<1> DEFINE Of(n) == {<<n, d>> : d \in Range(Bundles[n].extends)}
           All(D) == UNION {Of(n) : n \in D}
           bad == {k \in Nat : \E D \in SUBSET DOMAIN Bundles :
                                 Cardinality(D) = k /\ ~IsFiniteSet(All(D))}
<1>1. ASSUME NEW n \in DOMAIN Bundles PROVE IsFiniteSet(Of(n))
  <2> DEFINE list == Bundles[n].extends
             pairs == [i \in 1..Len(list) |-> <<n, list[i]>>]
  <2>1. list \in Seq(STRING)
    BY SourcesAssumption
  <2>2. Len(list) \in Nat /\ Range(list) = {list[i] : i \in 1..Len(list)}
    BY <2>1 DEF Range
  <2> HIDE DEF list
  <2>3. pairs \in Surjection(1..Len(list), {<<n, d>> : d \in Range(list)})
    BY <2>2 DEF Surjection
  <2>4. IsFiniteSet(1..Len(list))
    BY <2>2, FS_Interval
  <2> HIDE DEF pairs
  <2>5. IsFiniteSet({<<n, d>> : d \in Range(list)})
    BY <2>3, <2>4, FS_Surjection
  <2> QED
    BY <2>5 DEF list
<1>2. bad = {}
  <2> SUFFICES ASSUME bad # {} PROVE FALSE
    OBVIOUS
  <2>1. bad \subseteq Nat
    OBVIOUS
  <2>2. PICK k \in bad : \A m \in bad : k <= m
    BY <2>1, LeastNat
  <2>3. PICK D \in SUBSET DOMAIN Bundles : Cardinality(D) = k /\ ~IsFiniteSet(All(D))
    OBVIOUS
  <2>4. IsFiniteSet(D)
    BY LibraryAssumption, FS_Subset
  <2>5. D # {}
    <3>1. All({}) = {}
      OBVIOUS
    <3> HIDE DEF All
    <3> QED
      BY <2>3, <3>1, FS_EmptySet
  <2>6. PICK n \in D : TRUE
    BY <2>5
  <2> DEFINE rest == D \ {n}
  <2>7. IsFiniteSet(rest) /\ Cardinality(rest) = k - 1 /\ Cardinality(rest) \in Nat
    BY <2>3, <2>4, FS_RemoveElement, FS_CardinalityType
  <2>8. k - 1 \notin bad
    <3>1. k \in Nat
      OBVIOUS
    <3> HIDE DEF bad
    <3> QED
      BY <2>2, <3>1
  <2>9. IsFiniteSet(All(rest))
    <3>1. rest \in SUBSET DOMAIN Bundles
      OBVIOUS
    <3> HIDE DEF All, rest
    <3> QED
      BY <2>7, <2>8, <3>1
  <2>10. All(D) = All(rest) \cup Of(n)
    <3> HIDE DEF Of
    <3> QED
      BY <2>6
  <2>11. IsFiniteSet(Of(n))
    BY <1>1, <2>6
  <2> HIDE DEF All, Of, rest
  <2>12. IsFiniteSet(All(rest) \cup Of(n))
    BY <2>9, <2>11, FS_Union
  <2> QED
    BY <2>3, <2>10, <2>12
<1>3. Cardinality(DOMAIN Bundles) \in Nat
  BY LibraryAssumption, FS_CardinalityType
<1>4. IsFiniteSet(All(DOMAIN Bundles))
  <2> HIDE DEF All
  <2> QED
    BY <1>2, <1>3
<1> QED
  BY <1>4 DEF Extensions

ExtendsOf(n) == Range(Bundles[n].extends)
Below(n) == Reached(Extensions, ExtendsOf(n))

LEMMA IsExtension ==
  ASSUME NEW n \in DOMAIN Bundles, NEW d \in ExtendsOf(n)
  PROVE  <<n, d>> \in Extensions /\ <<n, d>>[1] = n /\ <<n, d>>[2] = d
<1>1. <<n, d>> \in {<<n, x>> : x \in Range(Bundles[n].extends)}
  BY DEF ExtendsOf
<1>2. <<n, d>> \in Extensions
  BY <1>1 DEF Extensions
<1> QED
  BY <1>2

\* What is needed, directly or not, has all that its bundles extend.
LEMMA ReachesOn ==
  ASSUME NEW E, NEW n \in DOMAIN Bundles, n \in Reached(Extensions, E)
  PROVE  ExtendsOf(n) \subseteq Reached(Extensions, E)
<1>1. IsClosed(Extensions, Reached(Extensions, E))
  BY ExtensionsAreFinite, ReachedClosed
<1> SUFFICES ASSUME NEW d \in ExtendsOf(n) PROVE d \in Reached(Extensions, E)
  OBVIOUS
<1>2. <<n, d>> \in Extensions /\ <<n, d>>[1] = n /\ <<n, d>>[2] = d
  BY IsExtension
<1> HIDE DEF IsClosed
<1> QED
  BY <1>1, <1>2, Zenon DEF IsClosed

LEMMA Begins ==
  ASSUME NEW E
  PROVE  E \subseteq Reached(Extensions, E)
BY ExtensionsAreFinite, ReachedClosed

\* Bundles that have all that they extend among them need nothing else.
LEMMA Complete ==
  ASSUME NEW C, C \subseteq DOMAIN Bundles, \A n \in C : ExtendsOf(n) \subseteq C,
         NEW E, E \subseteq C
  PROVE  Reached(Extensions, E) \subseteq C
<1>1. ASSUME NEW s \in Extensions, s[1] \in C PROVE s[2] \in C
  <2>1. PICK n \in DOMAIN Bundles : s \in {<<n, d>> : d \in Range(Bundles[n].extends)}
    BY DEF Extensions
  <2>2. PICK d \in Range(Bundles[n].extends) : s = <<n, d>>
    BY <2>1
  <2>3. s[1] = n /\ s[2] = d
    BY <2>2
  <2> QED
    BY <1>1, <2>3 DEF ExtendsOf
<1>2. IsClosed(Extensions, C)
  BY <1>1 DEF IsClosed
<1> QED
  BY <1>2, ExtensionsAreFinite, ReachedWithin

-----------------------------------------------------------------------------
\* The invariant.

\* What the frame i visits.
Wanted(i) == IF i = 1 THEN Range(command.roots) ELSE ExtendsOf(active[i].name)

\* A frame has visited what it does not have left, and the bundle of the frame on
\* it; each bundle on the stack is needed by the one below it.
StackInv ==
  /\ \A i \in 1..Len(active) :
       /\ Range(active[i].left) \subseteq Wanted(i)
       /\ \A d \in Wanted(i) : \/ d \in Range(active[i].left) \cup visited
                               \/ i < Len(active) /\ d = active[i + 1].name
  /\ \A i \in 2..Len(active) : active[i].name \in Needed \ visited
  /\ \A i, j \in 2..Len(active) :
       i < j => active[j].name # active[i].name /\ active[j].name \in Below(active[i].name)

\* What was visited is complete and has no cycle.
VisitedInv ==
  /\ visited \subseteq NeededBundles
  /\ \A n \in visited : ExtendsOf(n) \subseteq visited /\ n \notin Below(n)

\* The files that were read or are to be.
OfVisited == UNION {FilesOf(n) : n \in visited}

Collected ==
  IF stage = "bundles" THEN OfVisited ELSE OfVisited \cup Range(command.inputs)

ReadBefore(x, y) == \A j \in DOMAIN read : read[j] = y => \E i \in DOMAIN read : i < j /\ read[i] = x

\* x was read, or it comes before every y that is to be read.
ComesBefore(x, y) ==
  \A j \in DOMAIN files : files[j].path = y =>
    x \in Range(read) \/ \E i \in DOMAIN files : i < j /\ files[i].path = x

Paths == {f.path : f \in SourceFiles}

FilesInv ==
  /\ read \in Seq(Paths)
  /\ \A i, j \in DOMAIN read : read[i] = read[j] => i = j
  /\ Range(files) \subseteq Collected
  /\ Range(read) \subseteq {f.path : f \in Collected}
  /\ \A f \in Collected : f.path \in Range(read) \/ f \in Range(files)
  /\ \A n \in visited : \A d \in ExtendsOf(n) : \A f \in FilesOf(d), g \in FilesOf(n) :
       ReadBefore(f.path, g.path) /\ ComesBefore(f.path, g.path)

\* A file is there: its theories, and its arrows as they were declared.
Holds(f, theories) ==
  \A t \in DOMAIN f.theories :
    /\ t \in DOMAIN theories /\ theories[t].syntax = f.theories[t].syntax
    /\ \A o \in DOMAIN f.theories[t].arrows :
         /\ o \in DOMAIN theories[t].arrows
         /\ theories[t].arrows[o].maps = f.theories[t].arrows[o].maps
         /\ theories[t].arrows[o].def = f.theories[t].arrows[o].def

MergedInv ==
  /\ \A t \in DOMAIN raw : "syntax" \in DOMAIN raw[t]
  /\ \A f \in FilesFor(command) : f.path \in Range(read) => Holds(f, raw)

Loading == {"bundles", "merge", "literals u64"}

RefusedRightly ==
  /\ error = "Cycle" => Circular # {}
  /\ error = "Unknown" => ~(Needed \subseteq DOMAIN Bundles)

SourcesInv ==
  /\ stage \in Loading => VisitedInv /\ FilesInv /\ MergedInv
  /\ stage = "bundles" => StackInv /\ read = <<>>
  /\ stage \in {"merge", "literals u64"} => Needed \subseteq visited
  /\ stage = "literals u64" => files = <<>>
  /\ RefusedRightly

-----------------------------------------------------------------------------
\* The stack.

LEMMA HeadAndTail ==
  ASSUME NEW S, NEW s \in Seq(S), s # <<>>
  PROVE  /\ Tail(s) \in Seq(S) /\ Len(s) \in Nat /\ Len(s) # 0 /\ Len(Tail(s)) = Len(s) - 1
         /\ Head(s) = s[1] /\ Head(s) \in S
         /\ \A i \in 1..(Len(s) - 1) : Tail(s)[i] = s[i + 1]
         /\ Range(s) = {Head(s)} \cup Range(Tail(s))
<1>1. /\ Len(s) \in Nat /\ Len(s) # 0 /\ Head(s) = s[1] /\ Head(s) \in S
      /\ Tail(s) \in Seq(S) /\ Len(Tail(s)) = Len(s) - 1
      /\ \A i \in 1..(Len(s) - 1) : Tail(s)[i] = s[i + 1]
  BY HeadTailProperties, EmptySeq
<1>2. DOMAIN s = 1..Len(s) /\ DOMAIN Tail(s) = 1..(Len(s) - 1)
  BY <1>1
<1>3. ASSUME NEW x \in Range(s) PROVE x \in {Head(s)} \cup Range(Tail(s))
  <2>1. PICK i \in 1..Len(s) : s[i] = x
    BY <1>2 DEF Range
  <2>2. CASE i # 1
    <3>1. i - 1 \in 1..(Len(s) - 1) /\ (i - 1) + 1 = i
      BY <1>1, <2>2
    <3>2. Tail(s)[i - 1] = x
      BY <1>1, <2>1, <3>1
    <3> QED
      BY <1>2, <3>1, <3>2 DEF Range
  <2> QED
    BY <1>1, <2>1, <2>2
<1>4. ASSUME NEW x \in Range(Tail(s)) PROVE x \in Range(s)
  <2>1. PICK i \in 1..(Len(s) - 1) : Tail(s)[i] = x
    BY <1>2 DEF Range
  <2>2. i + 1 \in 1..Len(s) /\ s[i + 1] = x
    BY <1>1, <2>1
  <2> QED
    BY <1>2, <2>2 DEF Range
<1>5. Head(s) \in Range(s)
  <2>1. 1 \in 1..Len(s)
    BY <1>1
  <2> QED
    BY <1>1, <1>2, <2>1 DEF Range
<1> QED
  BY <1>1, <1>3, <1>4, <1>5

LEMMA ActiveStack ==
  ASSUME LoadingInv
  PROVE  /\ active \in Seq(Frames) /\ Len(active) \in Nat /\ Len(active) >= 1
         /\ Len(active) \in 1..Len(active) /\ Top = active[Len(active)]
         /\ \A i \in 1..Len(active) : active[i] \in Frames
<1>1. active \in Seq(Frames) /\ Len(active) \in Nat /\ Len(active) # 0
  BY EmptySeq DEF LoadingInv
<1>2. \A i \in 1..Len(active) : active[i] \in Frames
  BY <1>1, ElementOfSeq
<1> QED
  BY <1>1, <1>2 DEF Top, Last

\* The newest frame goes on to its next name.
LEMMA ContinuedFrames ==
  ASSUME LoadingInv, Top.left # <<>>
  PROVE  /\ Continued \in Seq(Frames) /\ Len(Continued) = Len(active)
         /\ \A i \in 1..Len(active) :
              /\ Continued[i].name = active[i].name
              /\ Continued[i].left = IF i = Len(active) THEN Tail(Top.left) ELSE active[i].left
         /\ Range(Top.left) = {Head(Top.left)} \cup Range(Tail(Top.left))
<1> DEFINE n == Len(active)
           next == [active[n] EXCEPT !.left = Tail(@)]
<1>1. /\ active \in Seq(Frames) /\ n \in Nat /\ n \in 1..n /\ Top = active[n]
      /\ active[n] \in Frames
  BY ActiveStack
<1>2. Top.left \in Seq(STRING)
  BY <1>1 DEF Frames
<1>3. next \in Frames /\ next.name = active[n].name /\ next.left = Tail(Top.left)
  <2>1. Tail(active[n].left) \in Seq(STRING)
    BY <1>1, <1>2, HeadAndTail
  <2> QED
    BY <1>1, <2>1 DEF Frames
<1>4. Continued = [active EXCEPT ![n] = next]
  BY DEF Continued
<1> HIDE DEF next
<1>5. /\ Continued \in Seq(Frames) /\ Len(Continued) = n
      /\ \A i \in 1..n : Continued[i] = IF i = n THEN next ELSE active[i]
  BY <1>1, <1>3, <1>4, ExceptSeq
<1>6. Range(Top.left) = {Head(Top.left)} \cup Range(Tail(Top.left))
  BY <1>2, HeadAndTail
<1> QED
  BY <1>3, <1>5, <1>6

\* What is visited next is needed, and the bundle of the newest frame extends it.
LEMMA NextIsNeeded ==
  ASSUME LoadingInv, StackInv, Top.left # <<>>
  PROVE  LET name == Head(Top.left)
             n == Len(active)
         IN /\ name \in Wanted(n) /\ name \in Needed
            /\ \A i \in 2..n : name \in Below(active[i].name)
<1> DEFINE name == Head(Top.left)
           n == Len(active)
<1>1. n \in Nat /\ n >= 1 /\ n \in 1..n /\ Top = active[n]
  BY ActiveStack
<1>2. name \in Wanted(n)
  <2>1. name \in Range(Top.left)
    BY ContinuedFrames
  <2> QED
    BY <1>1, <2>1 DEF StackInv
<1>3. name \in Needed
  <2>1. CASE n = 1
    <3>1. name \in Range(command.roots)
      BY <1>2, <2>1 DEF Wanted
    <3> QED
      BY <3>1, Begins DEF Needed
  <2>2. CASE n # 1
    <3>1. n \in 2..n
      <4> HIDE DEF n
      <4> QED
        BY <1>1, <2>2
    <3>2. active[n].name \in DOMAIN Bundles /\ active[n].name \in Needed
      BY <3>1 DEF LoadingInv, StackInv
    <3>3. name \in ExtendsOf(active[n].name)
      BY <1>2, <2>2 DEF Wanted
    <3> QED
      BY <3>2, <3>3, ReachesOn DEF Needed
  <2> QED
    BY <2>1, <2>2
<1>4. ASSUME NEW i \in 2..n PROVE name \in Below(active[i].name)
  <2>1. n \in 2..n /\ n # 1
    BY <1>1
  <2>2. name \in ExtendsOf(active[n].name)
    BY <1>2, <2>1 DEF Wanted
  <2>3. CASE i = n
    BY <2>2, <2>3, Begins DEF Below
  <2>4. CASE i # n
    <3>1. i < n
      BY <1>1, <2>4
    <3>2. active[n].name \in Below(active[i].name) /\ active[n].name \in DOMAIN Bundles
      BY <2>1, <3>1 DEF StackInv, LoadingInv
    <3> QED
      BY <2>2, <3>2, ReachesOn DEF Below
  <2> QED
    BY <2>3, <2>4
<1> QED
  BY <1>2, <1>3, <1>4

LEMMA SameCommand ==
  ASSUME command' = command
  PROVE  /\ Needed' = Needed /\ NeededBundles' = NeededBundles /\ Circular' = Circular
         /\ FilesFor(command)' = FilesFor(command)
BY DEF Needed, NeededBundles, Circular

\* A step that refuses nothing, or for something else.
LEMMA RefusesNothing ==
  ASSUME RefusedRightly, command' = command, error' = error \/ error' \notin {"Cycle", "Unknown"}
  PROVE  RefusedRightly'
BY SameCommand DEF RefusedRightly

LEMMA VisitAgainStep ==
  ASSUME LoadingInv, StackInv, VisitAgain
  PROVE  StackInv'
<1> DEFINE n == Len(active)
<1>1. PICK name \in visited :
        /\ AtName(name) /\ active' = Continued /\ command' = command /\ visited' = visited
  BY DEF VisitAgain
<1>2. Top.left # <<>> /\ name = Head(Top.left)
  BY <1>1 DEF AtName
<1>3. n \in Nat /\ n \in 1..n /\ Top = active[n]
  BY ActiveStack
<1>4. /\ Len(active') = n
      /\ \A i \in 1..n :
           /\ active'[i].name = active[i].name
           /\ active'[i].left = IF i = n THEN Tail(Top.left) ELSE active[i].left
      /\ Range(Top.left) = {name} \cup Range(Tail(Top.left))
  BY <1>1, <1>2, ContinuedFrames
<1>5. ASSUME NEW i \in 1..n PROVE Wanted(i)' = Wanted(i)
  BY <1>1, <1>4 DEF Wanted
<1>6. ASSUME NEW i \in 1..n
      PROVE  /\ Range(active'[i].left) \subseteq Range(active[i].left)
             /\ Range(active[i].left) \subseteq Range(active'[i].left) \cup visited
  BY <1>3, <1>4
<1>7. ASSUME NEW i \in 1..n
      PROVE  /\ Range(active'[i].left) \subseteq Wanted(i)'
             /\ \A d \in Wanted(i)' : \/ d \in Range(active'[i].left) \cup visited'
                                      \/ i < Len(active') /\ d = active'[i + 1].name
  <2>1. Range(active'[i].left) \subseteq Wanted(i)'
    BY <1>5, <1>6 DEF StackInv
  <2>2. ASSUME NEW d \in Wanted(i), d \notin Range(active'[i].left) \cup visited
        PROVE  i < n /\ d = active'[i + 1].name
    <3>1. i < n /\ d = active[i + 1].name
      BY <1>6, <2>2 DEF StackInv
    <3> QED
      BY <1>3, <1>4, <3>1
  <2> QED
    BY <1>1, <1>4, <1>5, <2>1, <2>2
<1>8. ASSUME NEW i \in 2..n PROVE i \in 1..n
  BY <1>3
<1>9. /\ \A i \in 2..n : active'[i].name \in Needed' \ visited'
      /\ \A i, j \in 2..n : i < j => /\ active'[j].name # active'[i].name
                                     /\ active'[j].name \in Below(active'[i].name)
  BY <1>1, <1>4, <1>8, SameCommand DEF StackInv
<1> QED
  BY <1>4, <1>7, <1>9 DEF StackInv

LEMMA EnterStep ==
  ASSUME LoadingInv, StackInv, EnterBundle
  PROVE  StackInv'
<1> DEFINE n == Len(active)
<1>1. PICK name \in DOMAIN Bundles \ (visited \cup ActiveNames) :
        /\ AtName(name) /\ active' = Append(Continued, Frame(name, Bundles[name].extends))
        /\ command' = command /\ visited' = visited
  BY DEF EnterBundle
<1>2. Top.left # <<>> /\ name = Head(Top.left)
  BY <1>1 DEF AtName
<1>3. n \in Nat /\ n >= 1 /\ n \in 1..n /\ Top = active[n]
  BY ActiveStack
<1>4. /\ Len(active') = n + 1
      /\ \A i \in 1..n :
           /\ active'[i].name = active[i].name
           /\ active'[i].left = IF i = n THEN Tail(Top.left) ELSE active[i].left
      /\ active'[n + 1].name = name /\ active'[n + 1].left = Bundles[name].extends
      /\ Range(Top.left) = {name} \cup Range(Tail(Top.left))
  <2> DEFINE frame == Frame(name, Bundles[name].extends)
  <2>1. frame \in Frames /\ frame.name = name /\ frame.left = Bundles[name].extends
    BY SourcesAssumption DEF Frame, Frames
  <2> HIDE DEF frame
  <2>2. active' = Append(Continued, frame)
    BY <1>1 DEF frame
  <2>3. /\ Len(active') = n + 1 /\ active'[n + 1] = frame
        /\ \A i \in 1..n : active'[i] = Continued[i]
    BY <1>2, <2>1, <2>2, ContinuedFrames, AppendProperties
  <2> QED
    BY <1>2, <2>1, <2>3, ContinuedFrames
<1>5. ASSUME NEW i \in 1..n PROVE Wanted(i)' = Wanted(i)
  BY <1>1, <1>4 DEF Wanted
<1>6. \A i : i = n + 1 => Wanted(i)' = Range(active'[i].left)
  <2> SUFFICES ASSUME NEW i, i = n + 1 PROVE Wanted(i)' = Range(active'[i].left)
    OBVIOUS
  <2>1. i # 1
    <3> HIDE DEF n
    <3> QED
      BY <1>3
  <2>2. Wanted(i)' = ExtendsOf(active'[i].name)
    BY <2>1 DEF Wanted
  <2>3. ExtendsOf(active'[i].name) = Range(active'[i].left)
    BY <1>4 DEF ExtendsOf
  <2> QED
    BY <2>2, <2>3
<1>7. ASSUME NEW i \in 1..n
      PROVE  /\ Range(active'[i].left) \subseteq Wanted(i)'
             /\ \A d \in Wanted(i)' : \/ d \in Range(active'[i].left) \cup visited'
                                      \/ i < Len(active') /\ d = active'[i + 1].name
  <2>1. Range(active'[i].left) \subseteq Wanted(i)'
    BY <1>3, <1>4, <1>5 DEF StackInv
  <2>2. ASSUME NEW d \in Wanted(i), d \notin Range(active'[i].left) \cup visited
        PROVE  i < n + 1 /\ d = active'[i + 1].name
    <3>1. CASE i = n
      <4>1. d \in Range(Top.left)
        BY <1>3, <2>2, <3>1 DEF StackInv
      <4> QED
        BY <1>3, <1>4, <2>2, <3>1, <4>1
    <3>2. CASE i # n
      <4>1. i < n /\ d = active[i + 1].name
        BY <1>4, <2>2, <3>2 DEF StackInv
      <4>2. i + 1 \in 1..n
        BY <1>3, <4>1
      <4> QED
        BY <1>3, <1>4, <4>1, <4>2
    <3> QED
      BY <3>1, <3>2
  <2> QED
    BY <1>1, <1>4, <1>5, <2>1, <2>2
<1>8. ASSUME NEW i \in 1..(n + 1), i # n + 1 PROVE i \in 1..n
  BY <1>3, <1>8
<1>9. ASSUME NEW i \in 2..(n + 1), i # n + 1 PROVE i \in 2..n /\ i \in 1..n
  BY <1>3, <1>9
<1>10. ASSUME NEW i \in 2..(n + 1) PROVE active'[i].name \in Needed' \ visited'
  <2>1. CASE i = n + 1
    BY <1>1, <1>2, <1>4, <2>1, NextIsNeeded, SameCommand
  <2>2. CASE i # n + 1
    BY <1>1, <1>4, <1>9, <2>2, SameCommand DEF StackInv
  <2> QED
    BY <2>1, <2>2
<1>11. ASSUME NEW i \in 2..(n + 1), NEW j \in 2..(n + 1), i < j
       PROVE  active'[j].name # active'[i].name /\ active'[j].name \in Below(active'[i].name)
  <2>1. i # n + 1
    BY <1>3, <1>11
  <2>2. CASE j = n + 1
    <3>1. name # active[i].name
      BY <1>1, <1>9, <2>1 DEF ActiveNames
    <3>2. name \in Below(active[i].name)
      BY <1>2, <1>9, <2>1, NextIsNeeded
    <3> QED
      BY <1>4, <1>9, <2>1, <2>2, <3>1, <3>2
  <2>3. CASE j # n + 1
    BY <1>4, <1>9, <1>11, <2>1, <2>3 DEF StackInv
  <2> QED
    BY <2>2, <2>3
<1>12. ASSUME NEW i \in 1..(n + 1)
       PROVE  /\ Range(active'[i].left) \subseteq Wanted(i)'
              /\ \A d \in Wanted(i)' : \/ d \in Range(active'[i].left) \cup visited'
                                       \/ i < Len(active') /\ d = active'[i + 1].name
  <2>1. CASE i = n + 1
    BY <1>6, <2>1
  <2>2. CASE i # n + 1
    BY <1>7, <1>8, <2>2
  <2> QED
    BY <2>1, <2>2
<1> QED
  BY <1>4, <1>10, <1>11, <1>12 DEF StackInv

LEMMA LeaveStack ==
  ASSUME LoadingInv, StackInv, VisitedInv, LeaveBundle
  PROVE  StackInv' /\ VisitedInv'
<1> DEFINE n == Len(active)
           name == Top.name
<1>1. /\ Top.left = <<>> /\ n > 1 /\ active' = Front(active)
      /\ visited' = visited \cup {name} /\ command' = command
  BY DEF LeaveBundle
<1>2. active \in Seq(Frames) /\ n \in Nat /\ n \in 1..n /\ n \in 2..n /\ Top = active[n]
  <2>1. active \in Seq(Frames) /\ n \in Nat /\ n \in 1..n /\ Top = active[n]
    BY ActiveStack
  <2> HIDE DEF n
  <2> QED
    BY <1>1, <2>1
<1>3. Len(active') = n - 1 /\ \A i \in 1..(n - 1) : active'[i] = active[i]
  <2>1. \A i \in 1..(n - 1) : active[i] \in Frames
    BY <1>2, ElementOfSeq
  <2>2. active' = SubSeq(active, 1, n - 1)
    BY <1>1 DEF Front
  <2> QED
    BY <1>1, <1>2, <2>1, <2>2, SubSeqProperties
<1>4. name \in Needed /\ name \notin visited /\ name \in DOMAIN Bundles /\ name = active[n].name
  BY <1>2 DEF StackInv, LoadingInv
<1>5. ExtendsOf(name) \subseteq visited
  <2>1. n # 1
    <3> HIDE DEF n
    <3> QED
      BY <1>1, <1>2
  <2>2. Wanted(n) = ExtendsOf(name)
    BY <1>4, <2>1 DEF Wanted
  <2>3. Range(active[n].left) = {}
    <3>1. active[n].left = <<>>
      BY <1>1, <1>2
    <3> QED
      BY <3>1 DEF Range
  <2>4. \A d \in Wanted(n) : d \in Range(active[n].left) \cup visited \/ n < n
    BY <1>2 DEF StackInv
  <2> HIDE DEF n
  <2> QED
    BY <1>2, <2>2, <2>3, <2>4
<1>6. name \notin Below(name)
  <2>1. visited \subseteq DOMAIN Bundles /\ \A m \in visited : ExtendsOf(m) \subseteq visited
    BY DEF VisitedInv, NeededBundles
  <2>2. Below(name) \subseteq visited
    BY <1>5, <2>1, Complete DEF Below
  <2> QED
    BY <1>4, <2>2
<1>7. VisitedInv'
  <2>1. visited' \subseteq NeededBundles'
    BY <1>1, <1>4, SameCommand DEF VisitedInv, NeededBundles
  <2>2. \A m \in visited' : ExtendsOf(m) \subseteq visited' /\ m \notin Below(m)
    BY <1>1, <1>5, <1>6 DEF VisitedInv
  <2> QED
    BY <2>1, <2>2 DEF VisitedInv
<1> HIDE DEF n
<1>8. ASSUME NEW i \in 1..(n - 1) PROVE i \in 1..n /\ Wanted(i)' = Wanted(i)
  BY <1>1, <1>2, <1>3 DEF Wanted
<1>9. ASSUME NEW i \in 2..(n - 1) PROVE i \in 1..(n - 1) /\ i \in 2..n /\ i < n
  BY <1>2
<1>10. ASSUME NEW i \in 1..(n - 1)
       PROVE  /\ Range(active'[i].left) \subseteq Wanted(i)'
              /\ \A d \in Wanted(i)' : \/ d \in Range(active'[i].left) \cup visited'
                                       \/ i < n - 1 /\ d = active'[i + 1].name
  <2>1. Range(active'[i].left) \subseteq Wanted(i)'
    BY <1>3, <1>8 DEF StackInv, n
  <2>2. ASSUME NEW d \in Wanted(i), d \notin Range(active[i].left) \cup visited', i + 1 # n
        PROVE  i < n - 1 /\ d = active'[i + 1].name
    <3>1. i + 1 \in 1..(n - 1) /\ i < n - 1
      BY <1>2, <2>2
    <3>2. d = active[i + 1].name
      BY <1>1, <1>8, <2>2 DEF StackInv, n
    <3> QED
      BY <1>3, <3>1, <3>2
  <2>3. ASSUME NEW d \in Wanted(i), d \notin Range(active[i].left) \cup visited', i + 1 = n
        PROVE  FALSE
    BY <1>1, <1>4, <1>8, <2>3 DEF StackInv, n
  <2> QED
    BY <1>3, <1>8, <2>1, <2>2, <2>3
<1>11. ASSUME NEW i \in 2..(n - 1) PROVE active'[i].name \in Needed' \ visited'
  <2>1. active[i].name \in Needed \ visited
    BY <1>9 DEF StackInv, n
  <2>2. active[i].name # name
    BY <1>2, <1>4, <1>9 DEF StackInv, n
  <2> QED
    BY <1>1, <1>3, <1>9, <2>1, <2>2, SameCommand
<1>12. ASSUME NEW i \in 2..(n - 1), NEW j \in 2..(n - 1), i < j
       PROVE  active'[j].name # active'[i].name /\ active'[j].name \in Below(active'[i].name)
  BY <1>3, <1>9, <1>12 DEF StackInv, n
<1>13. StackInv'
  BY <1>3, <1>10, <1>11, <1>12 DEF StackInv
<1> QED
  BY <1>7, <1>13

LEMMA RefuseBundleStep ==
  ASSUME LoadingInv, StackInv, RefusedRightly, RefuseBundle
  PROVE  RefusedRightly'
<1> DEFINE n == Len(active)
           name == Head(Top.left)
<1>1. Top.left # <<>> /\ command' = command
  BY DEF RefuseBundle, sourceVars
<1>2. name \in Needed /\ \A i \in 2..n : name \in Below(active[i].name)
  BY <1>1, NextIsNeeded
<1>3. CASE name \in ActiveNames /\ error' = "Cycle"
  <2>1. PICK i \in 2..n : name = active[i].name
    BY <1>3 DEF ActiveNames
  <2>2. name \in DOMAIN Bundles /\ name \in Below(name)
    BY <1>2, <2>1 DEF LoadingInv
  <2>3. name \in Circular
    BY <1>2, <2>2 DEF Circular, NeededBundles, Below, ExtendsOf
  <2> HIDE DEF name
  <2> QED
    BY <1>1, <1>3, <2>3, SameCommand DEF RefusedRightly
<1>4. CASE name \notin DOMAIN Bundles /\ error' = "Unknown"
  <2> HIDE DEF name
  <2> QED
    BY <1>1, <1>2, <1>4, SameCommand DEF RefusedRightly
<1>5. (name \in ActiveNames /\ error' = "Cycle") \/ (name \notin DOMAIN Bundles /\ error' = "Unknown")
  BY DEF RefuseBundle, Refuse
<1> QED
  BY <1>3, <1>4, <1>5

LEMMA ResolvedStack ==
  ASSUME LoadingInv, StackInv, VisitedInv, Resolved
  PROVE  VisitedInv' /\ (Needed \subseteq visited)'
<1>1. /\ Top.left = <<>> /\ Len(active) = 1
      /\ visited' = visited /\ command' = command
  BY DEF Resolved
<1>2. Top = active[Len(active)] /\ Len(active) \in 1..Len(active)
  BY ActiveStack
<1>3. Range(active[1].left) = {}
  <2>1. active[1].left = <<>>
    BY <1>1, <1>2
  <2> QED
    BY <2>1 DEF Range
<1>4. Range(command.roots) \subseteq visited
  <2>1. Wanted(1) = Range(command.roots)
    BY DEF Wanted
  <2>2. 1 \in 1..Len(active) /\ ~(1 < Len(active))
    <3>1. ~(1 < 1)
      OBVIOUS
    <3> QED
      BY <1>1, <1>2, <3>1, Zenon
  <2> QED
    BY <1>3, <2>1, <2>2 DEF StackInv
<1>5. Needed \subseteq visited
  <2>1. visited \subseteq DOMAIN Bundles /\ \A m \in visited : ExtendsOf(m) \subseteq visited
    BY DEF VisitedInv, NeededBundles
  <2> QED
    BY <1>4, <2>1, Complete DEF Needed
<1> QED
  BY <1>1, <1>5, SameCommand DEF VisitedInv

-----------------------------------------------------------------------------
\* The files.

\* Whether the file at the path is there to be read, or was read.
IsThere(path) == path \in Range(read) \/ \E f \in Range(files) : f.path = path

LEMMA MoreFiles ==
  ASSUME files \in Seq(SourceFiles), NEW new \in Seq(SourceFiles), files' = files \o new,
         read' = read
  PROVE  /\ Range(files') = Range(files) \cup Range(new)
         /\ \A x, y : ComesBefore(x, y) /\ IsThere(x) => ComesBefore(x, y)'
<1> DEFINE n == Len(files)
<1>1. /\ n \in Nat /\ Len(new) \in Nat /\ DOMAIN files = 1..n /\ DOMAIN new = 1..Len(new)
      /\ DOMAIN files' = 1..(n + Len(new))
      /\ \A i \in 1..(n + Len(new)) : files'[i] = IF i <= n THEN files[i] ELSE new[i - n]
  BY ConcatProperties
<1> HIDE DEF n
<1>2. ASSUME NEW i \in 1..n PROVE i \in DOMAIN files' /\ files'[i] = files[i]
  BY <1>1
<1>3. ASSUME NEW i \in 1..Len(new) PROVE n + i \in DOMAIN files' /\ files'[n + i] = new[i]
  BY <1>1
<1>4. ASSUME NEW i \in DOMAIN files'
      PROVE  i \in 1..n \/ (i > n /\ \E k \in 1..Len(new) : i = n + k)
  <2>1. CASE i > n
    <3>1. i - n \in 1..Len(new) /\ i = n + (i - n)
      BY <1>1, <2>1
    <3> QED
      BY <2>1, <3>1
  <2>2. CASE ~(i > n)
    BY <1>1, <2>2
  <2> QED
    BY <2>1, <2>2
<1>5. Range(files') = Range(files) \cup Range(new)
  <2>1. ASSUME NEW x \in Range(files') PROVE x \in Range(files) \cup Range(new)
    BY <1>1, <1>2, <1>3, <1>4 DEF Range
  <2>2. Range(files) \subseteq Range(files')
    BY <1>1, <1>2 DEF Range
  <2>3. Range(new) \subseteq Range(files')
    BY <1>1, <1>3 DEF Range
  <2> QED
    BY <2>1, <2>2, <2>3
<1>6. ASSUME NEW x, NEW y, ComesBefore(x, y), IsThere(x), NEW j \in DOMAIN files', files'[j].path = y
      PROVE  x \in Range(read) \/ \E i \in DOMAIN files' : i < j /\ files'[i].path = x
  <2>1. CASE j \in 1..n
    <3>1. x \in Range(read) \/ \E i \in 1..n : i < j /\ files[i].path = x
      BY <1>1, <1>2, <1>6, <2>1 DEF ComesBefore
    <3> QED
      BY <1>2, <3>1
  <2>2. CASE j > n
    <3>1. x \in Range(read) \/ \E i \in 1..n : files[i].path = x
      BY <1>1, <1>6 DEF IsThere, Range
    <3>2. ASSUME NEW i \in 1..n PROVE i < j
      BY <1>1, <2>2
    <3> QED
      BY <1>2, <3>1, <3>2
  <2> QED
    BY <1>4, <2>1, <2>2
<1>7. \A x, y : ComesBefore(x, y) /\ IsThere(x) => ComesBefore(x, y)'
  <2> SUFFICES ASSUME NEW x, NEW y, ComesBefore(x, y), IsThere(x) PROVE ComesBefore(x, y)'
    OBVIOUS
  <2>1. \A j \in DOMAIN files' : files'[j].path = y =>
          x \in Range(read') \/ \E i \in DOMAIN files' : i < j /\ files'[i].path = x
    BY <1>6
  <2> QED
    BY <2>1 DEF ComesBefore
<1> QED
  BY <1>5, <1>7

LEMMA FewerFiles ==
  ASSUME files \in Seq(SourceFiles), files # <<>>, files' = Tail(files),
         Range(read) \subseteq Range(read'), File.path \in Range(read')
  PROVE  /\ Range(files) = {File} \cup Range(files')
         /\ \A x, y : ComesBefore(x, y) => ComesBefore(x, y)'
<1> DEFINE n == Len(files)
<1>1. /\ n \in Nat /\ n # 0 /\ DOMAIN files = 1..n /\ DOMAIN files' = 1..(n - 1) /\ File = files[1]
      /\ \A i \in 1..(n - 1) : files'[i] = files[i + 1]
      /\ Range(files) = {File} \cup Range(files')
  BY HeadAndTail DEF File
<1> HIDE DEF n
<1>2. ASSUME NEW x, NEW y, ComesBefore(x, y), NEW j \in DOMAIN files', files'[j].path = y
      PROVE  x \in Range(read') \/ \E i \in DOMAIN files' : i < j /\ files'[i].path = x
  <2>1. j \in 1..(n - 1) /\ j + 1 \in DOMAIN files /\ files[j + 1].path = y
    BY <1>1, <1>2
  <2>2. CASE x \in Range(read)
    BY <2>2
  <2>3. CASE \E i \in DOMAIN files : i < j + 1 /\ files[i].path = x
    <3>1. PICK i \in DOMAIN files : i < j + 1 /\ files[i].path = x
      BY <2>3
    <3>2. CASE i = 1
      BY <1>1, <3>1, <3>2
    <3>3. CASE i # 1
      <4>1. i - 1 \in 1..(n - 1) /\ i - 1 < j /\ (i - 1) + 1 = i
        BY <1>1, <2>1, <3>1, <3>3
      <4>2. files'[i - 1].path = x
        BY <1>1, <3>1, <4>1
      <4> QED
        BY <1>1, <4>1, <4>2
    <3> QED
      BY <3>2, <3>3
  <2> QED
    BY <1>2, <2>1, <2>2, <2>3 DEF ComesBefore
<1>3. \A x, y : ComesBefore(x, y) => ComesBefore(x, y)'
  <2> SUFFICES ASSUME NEW x, NEW y, ComesBefore(x, y) PROVE ComesBefore(x, y)'
    OBVIOUS
  <2>1. \A j \in DOMAIN files' : files'[j].path = y =>
          x \in Range(read') \/ \E i \in DOMAIN files' : i < j /\ files'[i].path = x
    BY <1>2
  <2> QED
    BY <2>1 DEF ComesBefore
<1> QED
  BY <1>1, <1>3

LEMMA ReadMore ==
  ASSUME read \in Seq(Paths), \A i, j \in DOMAIN read : read[i] = read[j] => i = j,
         NEW path \in Paths, path \notin Range(read), read' = Append(read, path)
  PROVE  /\ read' \in Seq(Paths)
         /\ \A i, j \in DOMAIN read' : read'[i] = read'[j] => i = j
         /\ Range(read') = Range(read) \cup {path}
         /\ \A x, y : ReadBefore(x, y) /\ (y = path => x \in Range(read)) => ReadBefore(x, y)'
<1> DEFINE n == Len(read)
<1>1. /\ n \in Nat /\ DOMAIN read = 1..n /\ DOMAIN read' = 1..(n + 1) /\ read' \in Seq(Paths)
      /\ \A i \in 1..n : read'[i] = read[i]
      /\ read'[n + 1] = path
  BY AppendProperties
<1> HIDE DEF n
<1>2. ASSUME NEW i \in DOMAIN read' PROVE i = n + 1 \/ i \in 1..n
  BY <1>1
<1>3. \A i \in 1..n : i < n + 1 /\ i # n + 1 /\ i \in 1..(n + 1)
  BY <1>1
<1>4. n + 1 \in 1..(n + 1)
  BY <1>1
<1>5. \A i \in 1..n : read'[i] # path
  BY <1>1 DEF Range
<1>6. \A i, j \in DOMAIN read' : read'[i] = read'[j] => i = j
  BY <1>1, <1>2, <1>5
<1>7. Range(read') = Range(read) \cup {path}
  <2>1. Range(read') \subseteq Range(read) \cup {path}
    BY <1>1, <1>2 DEF Range
  <2>2. Range(read) \cup {path} \subseteq Range(read')
    BY <1>1, <1>3, <1>4 DEF Range
  <2> QED
    BY <2>1, <2>2
<1>8. ASSUME NEW x, NEW y, ReadBefore(x, y), y = path => x \in Range(read),
             NEW j \in DOMAIN read', read'[j] = y
      PROVE  \E i \in DOMAIN read' : i < j /\ read'[i] = x
  <2>1. CASE j = n + 1
    <3>1. \E i \in 1..n : read[i] = x
      BY <1>1, <1>8, <2>1 DEF Range
    <3> QED
      BY <1>1, <1>3, <2>1, <3>1
  <2>2. CASE j \in 1..n
    <3>1. \E i \in 1..n : i < j /\ read[i] = x
      BY <1>1, <1>8, <2>2 DEF ReadBefore
    <3> QED
      BY <1>1, <1>3, <3>1
  <2> QED
    BY <1>2, <2>1, <2>2
<1>9. \A x, y : ReadBefore(x, y) /\ (y = path => x \in Range(read)) => ReadBefore(x, y)'
  <2> SUFFICES ASSUME NEW x, NEW y, ReadBefore(x, y), y = path => x \in Range(read)
               PROVE  ReadBefore(x, y)'
    OBVIOUS
  <2>1. \A j \in DOMAIN read' : read'[j] = y => \E i \in DOMAIN read' : i < j /\ read'[i] = x
    BY <1>8
  <2> QED
    BY <2>1 DEF ReadBefore
<1> QED
  BY <1>1, <1>6, <1>7, <1>9

LEMMA EverythingIsThere ==
  ASSUME FilesInv, NEW f \in Collected
  PROVE  IsThere(f.path)
BY DEF FilesInv, IsThere

LEMMA CollectedAreGiven ==
  ASSUME LoadingInv, VisitedInv
  PROVE  Collected \subseteq FilesFor(command)
<1>1. visited \subseteq DOMAIN Bundles
  BY DEF VisitedInv, NeededBundles
<1> SUFFICES ASSUME NEW f \in Collected PROVE f \in FilesFor(command)
  OBVIOUS
<1>2. CASE f \in Range(command.inputs)
  BY <1>2 DEF FilesFor
<1>3. CASE f \in OfVisited
  <2>1. f \in UNION {FilesOf(n) : n \in DOMAIN Bundles}
    BY <1>1, <1>3 DEF OfVisited
  <2> QED
    BY <2>1 DEF FilesFor
<1>4. f \in OfVisited \/ f \in Range(command.inputs)
  BY DEF Collected
<1> QED
  BY <1>2, <1>3, <1>4

LEMMA LeaveFiles ==
  ASSUME LoadingInv, StackInv, VisitedInv, VisitedInv', FilesInv, read = <<>>, LeaveBundle
  PROVE  FilesInv'
<1> DEFINE name == Top.name
           new == Bundles[name].files
<1>1. /\ stage = "bundles" /\ stage' = "bundles" /\ Len(active) > 1
      /\ visited' = visited \cup {name} /\ files' = files \o new
      /\ read' = read /\ command' = command
  BY DEF LeaveBundle, theoryVars
<1>2. name \in DOMAIN Bundles /\ name \notin visited /\ visited \subseteq DOMAIN Bundles
  <2>1. Len(active) \in Nat /\ Top = active[Len(active)]
    BY ActiveStack
  <2>2. Len(active) \in 2..Len(active)
    BY <1>1, <2>1
  <2> QED
    BY <2>1, <2>2 DEF StackInv, LoadingInv, VisitedInv, NeededBundles
<1>3. ExtendsOf(name) \subseteq visited
  <2>1. ExtendsOf(name) \subseteq visited' /\ name \notin Below(name)
    BY <1>1 DEF VisitedInv
  <2> QED
    BY <1>1, <2>1, Begins DEF Below
<1>4. files \in Seq(SourceFiles) /\ new \in Seq(SourceFiles) /\ command \in Commands
  BY <1>2, SourcesAssumption DEF LoadingInv
<1>5. /\ Range(files') = Range(files) \cup FilesOf(name)
      /\ \A x, y : ComesBefore(x, y) /\ IsThere(x) => ComesBefore(x, y)'
  <2> HIDE DEF new
  <2>1. Range(new) = FilesOf(name)
    BY DEF new, FilesOf
  <2> QED
    BY <1>1, <1>4, <2>1, MoreFiles
<1> HIDE DEF name, new
<1>6. Collected = UNION {FilesOf(n) : n \in visited}
  BY <1>1 DEF Collected, OfVisited
<1>7. Collected' = Collected \cup FilesOf(name)
  <2>1. Collected' = UNION {FilesOf(n) : n \in visited'}
    BY <1>1 DEF Collected, OfVisited
  <2> QED
    BY <1>1, <1>6, <2>1
<1>8. ASSUME NEW m \in visited', NEW d \in ExtendsOf(m), NEW f \in FilesOf(d), NEW g \in FilesOf(m)
      PROVE  ReadBefore(f.path, g.path)' /\ ComesBefore(f.path, g.path)'
  <2>1. ReadBefore(f.path, g.path)'
    <3>1. DOMAIN read' = {}
      BY <1>1
    <3> QED
      BY <3>1 DEF ReadBefore
  <2>2. d \in visited
    BY <1>1, <1>3, <1>8 DEF VisitedInv
  <2>3. IsThere(f.path)
    BY <1>6, <2>2, EverythingIsThere
  <2>4. ComesBefore(f.path, g.path)
    <3>1. CASE m \in visited
      BY <3>1 DEF FilesInv
    <3>2. CASE m = name
      <4>1. ASSUME NEW j \in DOMAIN files, files[j].path = g.path PROVE FALSE
        <5>1. files[j] \in Collected
          BY DEF FilesInv, Range
        <5>2. PICK k \in visited : files[j] \in FilesOf(k)
          BY <1>6, <5>1
        <5>3. files[j] \in FilesFor(command) /\ g \in FilesFor(command)
          BY <1>2, <1>8, <3>2, <5>1, CollectedAreGiven DEF FilesFor
        <5>4. files[j] = g
          BY <1>4, <4>1, <5>3, LibraryAssumption
        <5>5. k # name /\ k \in DOMAIN Bundles
          BY <1>2, <5>2
        <5>6. FilesOf(k) \cap FilesOf(name) = {}
          BY <1>2, <5>5, LibraryAssumption
        <5> QED
          BY <1>8, <3>2, <5>2, <5>4, <5>6
      <4> QED
        BY <4>1 DEF ComesBefore
    <3> QED
      BY <1>1, <3>1, <3>2
  <2> QED
    BY <1>5, <2>1, <2>3, <2>4
<1>9. \A n \in visited' : \A d \in ExtendsOf(n) : \A f \in FilesOf(d), g \in FilesOf(n) :
        ReadBefore(f.path, g.path)' /\ ComesBefore(f.path, g.path)'
  BY <1>8
<1>10. /\ Range(files') \subseteq Collected' /\ Range(read') \subseteq {f.path : f \in Collected'}
       /\ \A f \in Collected' : f.path \in Range(read') \/ f \in Range(files')
       /\ read' \in Seq(Paths) /\ \A i, j \in DOMAIN read' : read'[i] = read'[j] => i = j
  BY <1>1, <1>5, <1>7 DEF FilesInv
<1> QED
  BY <1>9, <1>10 DEF FilesInv

LEMMA ResolvedFiles ==
  ASSUME LoadingInv, VisitedInv, FilesInv, Resolved
  PROVE  FilesInv'
<1>1. /\ stage = "bundles" /\ stage' = "merge" /\ visited' = visited
      /\ files' = files \o command.inputs /\ read' = read /\ command' = command
  BY DEF Resolved
<1>2. files \in Seq(SourceFiles) /\ command.inputs \in Seq(SourceFiles)
  BY SourcesAssumption DEF LoadingInv
<1>3. /\ Range(files') = Range(files) \cup Range(command.inputs)
      /\ \A x, y : ComesBefore(x, y) /\ IsThere(x) => ComesBefore(x, y)'
  BY <1>1, <1>2, MoreFiles
<1>4. /\ Collected = UNION {FilesOf(n) : n \in visited}
      /\ Collected' = Collected \cup Range(command.inputs)
  <2>1. Collected = OfVisited /\ OfVisited' = OfVisited
    BY <1>1 DEF Collected, OfVisited
  <2>2. Collected' = OfVisited' \cup Range(command'.inputs)
    BY <1>1 DEF Collected
  <2>3. Collected' = Collected \cup Range(command.inputs)
    BY <1>1, <2>1, <2>2
  <2> QED
    BY <2>1, <2>3 DEF OfVisited
<1>5. ASSUME NEW m \in visited, NEW d \in ExtendsOf(m), NEW f \in FilesOf(d), NEW g \in FilesOf(m)
      PROVE  ReadBefore(f.path, g.path)' /\ ComesBefore(f.path, g.path)'
  <2>1. d \in visited
    BY DEF VisitedInv
  <2>2. IsThere(f.path)
    BY <1>4, <2>1, EverythingIsThere
  <2>3. ReadBefore(f.path, g.path) /\ ComesBefore(f.path, g.path)
    BY DEF FilesInv
  <2>4. ReadBefore(f.path, g.path)'
    BY <1>1, <2>3 DEF ReadBefore
  <2> QED
    BY <1>3, <2>2, <2>3, <2>4
<1>6. \A n \in visited' : \A d \in ExtendsOf(n) : \A f \in FilesOf(d), g \in FilesOf(n) :
        ReadBefore(f.path, g.path)' /\ ComesBefore(f.path, g.path)'
  BY <1>1, <1>5
<1>7. /\ Range(files') \subseteq Collected' /\ Range(read') \subseteq {f.path : f \in Collected'}
      /\ \A f \in Collected' : f.path \in Range(read') \/ f \in Range(files')
      /\ read' \in Seq(Paths) /\ \A i, j \in DOMAIN read' : read'[i] = read'[j] => i = j
  BY <1>1, <1>3, <1>4 DEF FilesInv
<1> QED
  BY <1>6, <1>7 DEF FilesInv

LEMMA ReadStep ==
  ASSUME LoadingInv, FilesInv, SkipFile \/ MergeFile
  PROVE  FilesInv' /\ File \in Collected /\ Range(read') = Range(read) \cup {File.path}
<1>1. /\ stage = "merge" /\ stage' = "merge" /\ visited' = visited /\ files # <<>>
      /\ files' = Tail(files) /\ command' = command
  BY DEF SkipFile, MergeFile, AtFile, theoryVars
<1>2. files \in Seq(SourceFiles)
  BY DEF LoadingInv
<1>3. File \in Range(files) /\ File.path \in Paths
  <2>1. File \in Range(files) /\ File \in SourceFiles
    BY <1>1, <1>2, HeadAndTail DEF File
  <2> QED
    BY <2>1 DEF Paths
<1>4. /\ read' \in Seq(Paths) /\ \A i, j \in DOMAIN read' : read'[i] = read'[j] => i = j
      /\ Range(read') = Range(read) \cup {File.path}
      /\ \A x, y : ReadBefore(x, y) /\ ComesBefore(x, y) => ReadBefore(x, y)'
  <2>1. CASE SkipFile
    <3>1. read' = read /\ File.path \in Range(read)
      BY <2>1 DEF SkipFile
    <3> QED
      BY <3>1 DEF FilesInv, ReadBefore
  <2>2. CASE MergeFile
    <3>1. read' = Append(read, File.path) /\ File.path \notin Range(read)
      BY <2>2 DEF MergeFile
    <3>2. /\ read' \in Seq(Paths) /\ \A i, j \in DOMAIN read' : read'[i] = read'[j] => i = j
          /\ Range(read') = Range(read) \cup {File.path}
          /\ \A x, y : ReadBefore(x, y) /\ (y = File.path => x \in Range(read)) => ReadBefore(x, y)'
      BY <1>3, <3>1, ReadMore DEF FilesInv
    <3>3. ASSUME NEW x, ComesBefore(x, File.path) PROVE x \in Range(read)
      <4>1. 1 \in DOMAIN files /\ files[1] = File /\ \A i \in DOMAIN files : ~(i < 1)
        BY <1>1, <1>2, HeadAndTail DEF File
      <4> QED
        BY <3>3, <4>1 DEF ComesBefore
    <3> QED
      BY <3>2, <3>3
  <2> QED
    BY <2>1, <2>2
<1>5. /\ Range(files) = {File} \cup Range(files')
      /\ \A x, y : ComesBefore(x, y) => ComesBefore(x, y)'
  BY <1>1, <1>2, <1>4, FewerFiles
<1>6. Collected' = Collected /\ File \in Collected
  BY <1>1, <1>3 DEF Collected, OfVisited, FilesInv
<1>7. ASSUME NEW m \in visited, NEW d \in ExtendsOf(m), NEW f \in FilesOf(d), NEW g \in FilesOf(m)
      PROVE  ReadBefore(f.path, g.path)' /\ ComesBefore(f.path, g.path)'
  <2>1. ReadBefore(f.path, g.path) /\ ComesBefore(f.path, g.path)
    BY DEF FilesInv
  <2> QED
    BY <1>4, <1>5, <2>1
<1>8. \A n \in visited' : \A d \in ExtendsOf(n) : \A f \in FilesOf(d), g \in FilesOf(n) :
        ReadBefore(f.path, g.path)' /\ ComesBefore(f.path, g.path)'
  BY <1>1, <1>7
<1>9. Range(files') \subseteq Collected' /\ Range(read') \subseteq {f.path : f \in Collected'}
  <2>1. {f.path : f \in Collected} = {f.path : f \in Collected'}
    BY <1>6
  <2>2. File.path \in {f.path : f \in Collected}
    BY <1>6
  <2>3. Range(read) \subseteq {f.path : f \in Collected} /\ Range(files) \subseteq Collected
    BY DEF FilesInv
  <2> QED
    BY <1>4, <1>5, <1>6, <2>1, <2>2, <2>3
<1>10. \A f \in Collected' : f.path \in Range(read') \/ f \in Range(files')
  BY <1>4, <1>5, <1>6 DEF FilesInv
<1> QED
  BY <1>4, <1>6, <1>8, <1>9, <1>10 DEF FilesInv

\* A file that is merged is there as it was declared, and so is what was there.
LEMMA MergeHolds ==
  ASSUME LoadingInv, TheoriesInv, VisitedInv, MergedInv, MergeFile,
         File \in Collected, Range(read') = Range(read) \cup {File.path}
  PROVE  MergedInv'
<1>1. /\ File \in FilesFor(command) /\ command \in Commands /\ command' = command /\ ~Conflict
      /\ \A f \in FilesFor(command) : f.path = File.path => f = File
  <2>1. File \in FilesFor(command) /\ command \in Commands
    BY CollectedAreGiven DEF LoadingInv
  <2>2. \A f \in FilesFor(command) : f.path = File.path => f = File
    BY <2>1, LibraryAssumption
  <2> QED
    BY <2>1, <2>2 DEF MergeFile
<1>2. File \in SourceFiles
  BY HeadTailProperties DEF LoadingInv, MergeFile, AtFile, File
<1>3. ASSUME NEW t \in DOMAIN File.theories
      PROVE  {"syntax", "arrows"} \subseteq DOMAIN File.theories[t]
  BY <1>2, SourcesAssumption DEF IsSourceFile
<1>4. ASSUME NEW t \in Shared
      PROVE  /\ t \in DOMAIN raw /\ t \in DOMAIN File.theories /\ t \in DOMAIN raw'
             /\ "syntax" \in DOMAIN raw'[t] /\ raw'[t].syntax = raw[t].syntax
             /\ raw'[t].arrows = Override(raw[t].arrows, File.theories[t].arrows)
  <2>1. /\ t \in DOMAIN raw /\ t \in DOMAIN File.theories
        /\ "arrows" \in DOMAIN raw[t] /\ "syntax" \in DOMAIN raw[t]
    BY DEF Shared, TheoriesInv, MergedInv
  <2>2. /\ t \in DOMAIN raw'
        /\ raw'[t] = [raw[t] EXCEPT !.arrows = Override(raw[t].arrows, File.theories[t].arrows)]
    BY DEF MergeFile, Override
  <2> QED
    BY <2>1, <2>2
<1>5. ASSUME NEW t \in DOMAIN raw \ Shared PROVE t \in DOMAIN raw' /\ raw'[t] = raw[t]
  BY DEF MergeFile, Override
<1>6. ASSUME NEW t \in DOMAIN File.theories \ DOMAIN raw
      PROVE  t \in DOMAIN raw' /\ raw'[t] = File.theories[t]
  BY DEF MergeFile, Override, Shared
<1>7. DOMAIN raw' = DOMAIN raw \cup DOMAIN File.theories
  BY DEF MergeFile, Override, Shared
<1>8. ASSUME NEW t \in DOMAIN raw' PROVE "syntax" \in DOMAIN raw'[t]
  <2>1. CASE t \in Shared
    BY <1>4, <2>1
  <2>2. CASE t \in DOMAIN raw \ Shared
    BY <1>5, <2>2 DEF MergedInv
  <2>3. CASE t \in DOMAIN File.theories \ DOMAIN raw
    BY <1>3, <1>6, <2>3
  <2> QED
    BY <1>7, <2>1, <2>2, <2>3
<1>9. Holds(File, raw')
  <2> SUFFICES ASSUME NEW t \in DOMAIN File.theories
               PROVE  /\ t \in DOMAIN raw' /\ raw'[t].syntax = File.theories[t].syntax
                      /\ \A o \in DOMAIN File.theories[t].arrows :
                           /\ o \in DOMAIN raw'[t].arrows
                           /\ raw'[t].arrows[o].maps = File.theories[t].arrows[o].maps
                           /\ raw'[t].arrows[o].def = File.theories[t].arrows[o].def
    BY DEF Holds
  <2>1. CASE t \notin DOMAIN raw
    BY <1>6, <2>1
  <2>2. CASE t \in DOMAIN raw
    <3>1. t \in Shared
      BY <2>2 DEF Shared
    <3>2. raw[t].syntax = File.theories[t].syntax
      BY <1>1, <3>1 DEF Conflict
    <3>3. ASSUME NEW o \in DOMAIN File.theories[t].arrows
          PROVE  /\ o \in DOMAIN raw'[t].arrows
                 /\ raw'[t].arrows[o].maps = File.theories[t].arrows[o].maps
                 /\ raw'[t].arrows[o].def = File.theories[t].arrows[o].def
      <4>1. CASE o \in DOMAIN raw[t].arrows
        <5>1. Repeated(t, o)
          BY <1>1, <3>1, <4>1 DEF Conflict
        <5>2. o \in DOMAIN raw'[t].arrows /\ raw'[t].arrows[o] = raw[t].arrows[o]
          BY <1>4, <3>1, <4>1 DEF Override
        <5> QED
          BY <5>1, <5>2 DEF Repeated
      <4>2. CASE o \notin DOMAIN raw[t].arrows
        <5>1. o \in DOMAIN raw'[t].arrows /\ raw'[t].arrows[o] = File.theories[t].arrows[o]
          BY <1>4, <3>1, <4>2 DEF Override
        <5> QED
          BY <5>1
      <4> QED
        BY <4>1, <4>2
    <3> QED
      BY <1>4, <3>1, <3>2, <3>3
  <2> QED
    BY <2>1, <2>2
<1>10. ASSUME NEW f, Holds(f, raw) PROVE Holds(f, raw')
  <2>1. Stay
    BY MergeStep
  <2>2. ASSUME NEW t \in DOMAIN raw PROVE t \in DOMAIN raw' /\ raw'[t].syntax = raw[t].syntax
    BY <1>4, <1>5
  <2> QED
    BY <1>10, <2>1, <2>2 DEF Holds, Stay
<1>11. ASSUME NEW f \in FilesFor(command), f.path \in Range(read') PROVE Holds(f, raw')
  <2>1. CASE f.path = File.path
    BY <1>1, <1>9, <2>1
  <2>2. CASE f.path \in Range(read)
    BY <1>10, <2>2 DEF MergedInv
  <2> QED
    BY <1>11, <2>1, <2>2
<1>12. FilesFor(command') = FilesFor(command)
  BY <1>1
<1> HIDE DEF FilesFor
<1> QED
  BY <1>8, <1>11, <1>12 DEF MergedInv

LEMMA SameSources ==
  ASSUME UNCHANGED <<command, visited, files, read, raw>>,
         stage' = stage \/ (stage # "bundles" /\ stage' # "bundles")
  PROVE  VisitedInv /\ FilesInv /\ MergedInv => VisitedInv' /\ FilesInv' /\ MergedInv'
<1>1. VisitedInv => VisitedInv'
  BY SameCommand DEF VisitedInv
<1>2. MergedInv => MergedInv'
  BY DEF MergedInv
<1>3. Collected' = Collected
  BY DEF Collected, OfVisited
<1>4. FilesInv => FilesInv'
  BY <1>3 DEF FilesInv, ReadBefore, ComesBefore
<1> QED
  BY <1>1, <1>2, <1>4

\* A step that leaves the program that was read behind.
LEMMA LeavesLoading ==
  ASSUME RefusedRightly, command' = command, stage' \notin Loading,
         error' = error \/ error' \notin {"Cycle", "Unknown"}
  PROVE  SourcesInv'
BY RefusesNothing DEF SourcesInv, Loading

LEMMA LoadSources ==
  ASSUME Inv, SourcesInv, Load
  PROVE  SourcesInv'
<1>1. LoadingInv /\ TheoriesInv /\ RefusedRightly
  BY DEF Inv, SourcesInv
<1>2. CASE VisitAgain
  <2>1. /\ stage = "bundles" /\ stage' = stage /\ error' = error
        /\ UNCHANGED <<command, visited, files, read, raw>>
    BY <1>2 DEF VisitAgain, AtName, theoryVars
  <2>2. VisitedInv /\ FilesInv /\ MergedInv /\ StackInv /\ read = <<>>
    BY <2>1 DEF SourcesInv, Loading
  <2>3. StackInv'
    BY <1>1, <1>2, <2>2, VisitAgainStep
  <2> QED
    BY <1>1, <2>1, <2>2, <2>3, SameSources, RefusesNothing DEF SourcesInv
<1>3. CASE EnterBundle
  <2>1. /\ stage = "bundles" /\ stage' = stage /\ error' = error
        /\ UNCHANGED <<command, visited, files, read, raw>>
    BY <1>3 DEF EnterBundle, AtName, theoryVars
  <2>2. VisitedInv /\ FilesInv /\ MergedInv /\ StackInv /\ read = <<>>
    BY <2>1 DEF SourcesInv, Loading
  <2>3. StackInv'
    BY <1>1, <1>3, <2>2, EnterStep
  <2> QED
    BY <1>1, <2>1, <2>2, <2>3, SameSources, RefusesNothing DEF SourcesInv
<1>4. CASE LeaveBundle
  <2>1. stage = "bundles" /\ stage' = stage /\ error' = error /\ UNCHANGED <<command, read, raw>>
    BY <1>4 DEF LeaveBundle, theoryVars
  <2>2. VisitedInv /\ FilesInv /\ MergedInv /\ StackInv /\ read = <<>>
    BY <2>1 DEF SourcesInv, Loading
  <2>3. StackInv' /\ VisitedInv'
    BY <1>1, <1>4, <2>2, LeaveStack
  <2>4. FilesInv'
    BY <1>1, <1>4, <2>2, <2>3, LeaveFiles
  <2>5. MergedInv'
    BY <2>1, <2>2 DEF MergedInv
  <2> QED
    BY <1>1, <2>1, <2>2, <2>3, <2>4, <2>5, RefusesNothing DEF SourcesInv
<1>5. CASE Resolved
  <2>1. /\ stage = "bundles" /\ stage' = "merge" /\ error' = error
        /\ UNCHANGED <<command, read, raw>>
    BY <1>5 DEF Resolved
  <2>2. VisitedInv /\ FilesInv /\ MergedInv /\ StackInv
    BY <2>1 DEF SourcesInv, Loading
  <2>3. VisitedInv' /\ (Needed \subseteq visited)'
    BY <1>1, <1>5, <2>2, ResolvedStack
  <2>4. FilesInv'
    BY <1>1, <1>5, <2>2, ResolvedFiles
  <2>5. MergedInv'
    BY <2>1, <2>2 DEF MergedInv
  <2> QED
    BY <1>1, <2>1, <2>3, <2>4, <2>5, RefusesNothing DEF SourcesInv
<1>6. CASE SkipFile \/ MergeFile
  <2>1. /\ stage = "merge" /\ stage' = stage /\ error' = error
        /\ UNCHANGED <<command, visited>>
    BY <1>6 DEF SkipFile, MergeFile, AtFile, theoryVars
  <2>2. VisitedInv /\ FilesInv /\ MergedInv /\ Needed \subseteq visited
    BY <2>1 DEF SourcesInv, Loading
  <2>3. FilesInv' /\ File \in Collected /\ Range(read') = Range(read) \cup {File.path}
    BY <1>1, <1>6, <2>2, ReadStep
  <2>4. VisitedInv' /\ (Needed \subseteq visited)'
    BY <2>1, <2>2, SameCommand DEF VisitedInv
  <2>5. MergedInv'
    <3>1. CASE SkipFile
      <4>1. read' = read /\ raw' = raw
        BY <3>1 DEF SkipFile, theoryVars
      <4> QED
        BY <2>1, <2>2, <4>1 DEF MergedInv
    <3>2. CASE MergeFile
      BY <1>1, <2>2, <2>3, <3>2, MergeHolds
    <3> QED
      BY <1>6, <3>1, <3>2
  <2> QED
    BY <1>1, <2>1, <2>3, <2>4, <2>5, RefusesNothing DEF SourcesInv
<1>7. CASE Loaded
  <2>1. /\ stage = "merge" /\ stage' = "literals u64" /\ error' = error /\ files = <<>>
        /\ UNCHANGED <<command, visited, files, read, raw>>
    BY <1>7 DEF Loaded, sourceVars
  <2>2. VisitedInv /\ FilesInv /\ MergedInv /\ Needed \subseteq visited
    BY <2>1 DEF SourcesInv, Loading
  <2>3. VisitedInv' /\ FilesInv' /\ MergedInv'
    BY <2>1, <2>2, SameSources
  <2>4. (Needed \subseteq visited)'
    BY <2>1, <2>2, SameCommand
  <2> QED
    BY <1>1, <2>1, <2>3, <2>4, RefusesNothing DEF SourcesInv
<1>8. CASE RefuseBundle
  <2>1. stage = "bundles" /\ stage' = "refused"
    BY <1>8 DEF RefuseBundle, Refuse
  <2>2. RefusedRightly'
    BY <1>1, <1>8, <2>1, RefuseBundleStep DEF SourcesInv
  <2> QED
    BY <2>1, <2>2 DEF SourcesInv, Loading
<1>9. CASE RefuseFile
  <2>1. stage' = "refused" /\ error' = "Merge" /\ command' = command
    BY <1>9 DEF RefuseFile, Refuse, sourceVars
  <2> QED
    BY <1>1, <2>1, LeavesLoading DEF Loading
<1> QED
  BY <1>2, <1>3, <1>4, <1>5, <1>6, <1>7, <1>8, <1>9 DEF Load

-----------------------------------------------------------------------------
\* Elaboration refuses for other reasons.

LEMMA ContinueErrors ==
  ASSUME NEW reasons, NEW after, NEW then, Continue(reasons, after, then),
         DOMAIN reasons \subseteq Nat,
         \A i \in DOMAIN reasons : reasons[i][2] \notin {"Cycle", "Unknown"}
  PROVE  error' = error \/ error' \notin {"Cycle", "Unknown"}
<1> DEFINE wrong == {i \in DOMAIN reasons : reasons[i][1]}
<1>1. CASE wrong = {}
  BY <1>1, Zenon DEF Continue
<1>2. CASE wrong # {}
  <2>1. error' = reasons[Min(wrong)][2]
    BY <1>2, Zenon DEF Continue, Refuse
  <2>2. wrong \subseteq DOMAIN reasons
    OBVIOUS
  <2> HIDE DEF wrong
  <2>3. \E n \in wrong : \A m \in wrong : n <= m
    BY <1>2, <2>2, LeastNat
  <2>4. Min(wrong) \in wrong
    BY <2>3 DEF Min
  <2> QED
    BY <2>1, <2>2, <2>4
<1> QED
  BY <1>1, <1>2

LEMMA OneReason ==
  ASSUME NEW reason, NEW why, NEW reasons, reasons = <<<<reason, why>>>>
  PROVE  DOMAIN reasons \subseteq Nat /\ \A i \in DOMAIN reasons : reasons[i][2] = why
<1> DEFINE pair == <<reason, why>>
<1>1. pair[2] = why
  OBVIOUS
<1>2. reasons = <<pair>>
  OBVIOUS
<1> HIDE DEF pair
<1>3. DOMAIN reasons \subseteq Nat /\ \A i \in DOMAIN reasons : reasons[i] = pair
  BY <1>2
<1> QED
  BY <1>1, <1>3

LEMMA LiteralsErrors ==
  ASSUME NEW kind, NEW then, TypeLiterals(kind, then)
  PROVE  /\ error' = error \/ error' \notin {"Cycle", "Unknown"}
         /\ stage' \in {then, "refused"} /\ command' = command
<1>1. PICK wrong, new :
        \/ Continue(<<>>, raw, then)
        \/ Continue(<<<<"type" \notin DOMAIN raw, "MissingTheory">>, <<wrong, "InvalidConstant">>>>,
                    Extended(new), then)
  <2> DEFINE used == [t \in DOMAIN raw |-> IF t \in Typed THEN LiteralsIn(raw[t], kind) ELSE {}]
             all == UNION Range(used)
             new == [t \in DOMAIN raw |->
                       IF t = "type" THEN [o \in all |-> TypeArrow("0", "1")]
                       ELSE [o \in used[t] |-> SymbolicConstArrow(o, kind)]]
             wrong == \/ \E o \in all : ~ValidConstant(o, kind)
                      \/ \E t \in DOMAIN raw : ~Compatible(raw[t], new[t])
  <2>1. \/ Continue(<<>>, raw, then)
        \/ Continue(<<<<"type" \notin DOMAIN raw, "MissingTheory">>, <<wrong, "InvalidConstant">>>>,
                    Extended(new), then)
    BY DEF TypeLiterals
  <2> HIDE DEF new, wrong
  <2> QED
    BY <2>1
<1> DEFINE reasons == <<<<"type" \notin DOMAIN raw, "MissingTheory">>, <<wrong, "InvalidConstant">>>>
<1>2. CASE Continue(<<>>, raw, then)
  <2>1. DOMAIN <<>> \subseteq Nat /\ \A i \in DOMAIN <<>> : FALSE
    OBVIOUS
  <2> QED
    BY <1>2, <2>1, ContinueErrors, ContinueCases DEF sourceVars
<1>3. CASE Continue(reasons, Extended(new), then)
  <2>1. DOMAIN reasons \subseteq Nat /\ \A i \in DOMAIN reasons : reasons[i][2] \notin {"Cycle", "Unknown"}
    OBVIOUS
  <2> HIDE DEF reasons
  <2> QED
    BY <1>3, <2>1, ContinueErrors, ContinueCases DEF sourceVars
<1> QED
  BY <1>1, <1>2, <1>3

LEMMA OtherSteps ==
  ASSUME RefusedRightly, Elaborate, ~Load
  PROVE  SourcesInv'
<1>1. CASE TypeLiteralsU64 \/ TypeLiteralsU32
  <2>1. PICK kind \in {U64, U32}, then \in {"literals u32", "validation"} : TypeLiterals(kind, then)
    BY <1>1 DEF TypeLiteralsU64, TypeLiteralsU32
  <2> QED
    BY <2>1, LiteralsErrors, LeavesLoading DEF Loading
<1>2. CASE Validate
  <2>1. Continue(ValidationReasons, raw, "constants u64")
    BY <1>2 DEF Validate
  <2>2. /\ DOMAIN ValidationReasons \subseteq Nat
        /\ \A i \in DOMAIN ValidationReasons : ValidationReasons[i][2] \notin {"Cycle", "Unknown"}
    <3> DEFINE a == \E x \in ArrowsIn(DOMAIN raw) : ReservedName(x[2])
               b == \E t \in DOMAIN raw : \E o \in InTheory(raw[t]) : ReservedReference(o)
               c == \E x \in ArrowsIn(DOMAIN raw) : raw[x[1]].arrows[x[2]].reserved
               d == \E t \in Above : raw[t].syntax \notin DOMAIN raw
               e == \E x \in ArrowsIn(Above) : Uninterpreted(x[1], x[2])
               f == \E x \in ArrowsIn(Above) : Mismatch(x[1], x[2])
    <3>1. ValidationReasons =
            <<<<a, "ReservedOperationPrefix">>, <<b, "ReservedOperationReference">>,
              <<c, "ReservedVariablePrefix">>, <<d, "Graph">>, <<e, "TypeMapInterpretation">>,
              <<f, "TypeMapDomainMismatch">>>>
      BY DEF ValidationReasons
    <3> HIDE DEF a, b, c, d, e, f
    <3> QED
      BY <3>1
  <2>3. error' = error \/ error' \notin {"Cycle", "Unknown"}
    BY <2>1, <2>2, ContinueErrors
  <2>4. stage' \in {"refused", "constants u64"} /\ command' = command
    BY <2>1, ContinueCases DEF sourceVars
  <2> QED
    BY <2>3, <2>4, LeavesLoading DEF Loading
<1>3. CASE ConstantsU64 \/ ConstantsU32
  <2>1. PICK kind \in {U64, U32}, then \in {"constants u32", "uses"} : Constants(kind, then)
    BY <1>3 DEF ConstantsU64, ConstantsU32
  <2>2. PICK reason, after : Continue(<<<<reason, "InvalidConstant">>>>, after, then)
    BY <2>1, Zenon DEF Constants
  <2> DEFINE reasons == <<<<reason, "InvalidConstant">>>>
  <2>3. DOMAIN reasons \subseteq Nat /\ \A i \in DOMAIN reasons : reasons[i][2] \notin {"Cycle", "Unknown"}
    <3>1. \A i \in DOMAIN reasons : reasons[i][2] = "InvalidConstant"
      BY OneReason
    <3>2. DOMAIN reasons \subseteq Nat
      BY OneReason
    <3> QED
      BY <3>1, <3>2
  <2>4. Continue(reasons, after, then)
    BY <2>2
  <2> HIDE DEF reasons
  <2> QED
    BY <2>3, <2>4, ContinueErrors, ContinueCases, LeavesLoading DEF Loading, sourceVars
<1>4. CASE CollectUses \/ PartialsDone \/ NameSymbols
  <2>1. stage' \in {"partials", "names", "elaborated"} /\ error' = error /\ command' = command
    BY <1>4 DEF CollectUses, PartialsDone, NameSymbols, sourceVars
  <2> QED
    BY <2>1, LeavesLoading DEF Loading
<1>5. CASE SkipPartial \/ AddPartial
  <2>1. stage' = "partials" /\ error' = error /\ command' = command
    BY <1>5 DEF SkipPartial, AddPartial, IsNext, sourceVars, theoryVars
  <2> QED
    BY <2>1, LeavesLoading DEF Loading
<1>6. CASE RefusePartial
  <2>1. /\ stage' = "refused" /\ command' = command
        /\ error' \in {"InvalidPartialApplication", "MissingPartialApplicationArrow"}
    BY <1>6 DEF RefusePartial, Refuse, sourceVars
  <2> QED
    BY <2>1, LeavesLoading DEF Loading
<1> QED
  BY <1>1, <1>2, <1>3, <1>4, <1>5, <1>6 DEF Elaborate

LEMMA SourcesBegin == ElaborationInit => SourcesInv
<1> SUFFICES ASSUME ElaborationInit PROVE SourcesInv
  OBVIOUS
<1>1. /\ command \in Commands /\ active = <<Frame("", command.roots)>>
      /\ visited = {} /\ files = <<>> /\ read = <<>> /\ raw = <<>>
      /\ stage = "bundles" /\ error = "none"
  BY DEF ElaborationInit, SourcesInit
<1>2. LoadingInv
  BY Init DEF Inv
<1>3. Len(active) = 1 /\ 2..Len(active) = {} /\ active[1].left = command.roots
  <2> DEFINE frame == Frame("", command.roots)
  <2>1. frame.left = command.roots
    BY DEF Frame
  <2>2. frame \in {frame}
    OBVIOUS
  <2> HIDE DEF frame
  <2>3. active = <<frame>> /\ active[1] = frame
    BY <1>1 DEF frame
  <2>4. Len(active) = 1
    BY <2>2, <2>3, Single
  <2> QED
    BY <2>1, <2>3, <2>4
<1>4. StackInv
  <2>1. Wanted(1) = Range(active[1].left)
    BY <1>3 DEF Wanted
  <2>2. \A i \in 1..Len(active) : i = 1
    BY <1>3
  <2> QED
    BY <1>3, <2>1, <2>2 DEF StackInv
<1>5. VisitedInv
  BY <1>1 DEF VisitedInv
<1>6. DOMAIN read = {} /\ DOMAIN files = {} /\ DOMAIN raw = {} /\ Range(read) = {} /\ Range(files) = {}
  <2>1. read = <<>> /\ files = <<>> /\ raw = <<>>
    BY <1>1
  <2>2. DOMAIN read = {} /\ DOMAIN files = {}
    BY <2>1
  <2>3. DOMAIN raw = {}
    BY <2>1
  <2> QED
    BY <2>2, <2>3 DEF Range
<1>7. FilesInv
  <2>1. Collected = {}
    BY <1>1 DEF Collected, OfVisited
  <2>2. read \in Seq(Paths)
    BY <1>1, EmptySeq
  <2> QED
    BY <1>1, <1>6, <2>1, <2>2 DEF FilesInv
<1>8. MergedInv
  BY <1>6 DEF MergedInv
<1> QED
  BY <1>1, <1>4, <1>5, <1>7, <1>8 DEF SourcesInv, RefusedRightly

LEMMA SourcesStep ==
  ASSUME Inv, SourcesInv, [Elaborate]_elaborationVars
  PROVE  SourcesInv'
<1>1. CASE Load
  BY <1>1, LoadSources
<1>2. CASE Elaborate /\ ~Load
  BY <1>2, OtherSteps DEF SourcesInv
<1>3. CASE UNCHANGED elaborationVars
  <2>1. UNCHANGED <<command, active, visited, files, read, raw, stage, error>>
    BY <1>3 DEF elaborationVars, sourceVars, theoryVars
  <2>2. VisitedInv /\ FilesInv /\ MergedInv => VisitedInv' /\ FilesInv' /\ MergedInv'
    BY <2>1, SameSources
  <2>3. StackInv => StackInv'
    BY <2>1, SameCommand DEF StackInv, Wanted
  <2>4. RefusedRightly => RefusedRightly'
    BY <2>1, RefusesNothing
  <2> QED
    BY <2>1, <2>2, <2>3, <2>4, SameCommand DEF SourcesInv
<1> QED
  BY <1>1, <1>2, <1>3

LEMMA SourcesAreRight ==
  ASSUME LoadingInv, SourcesInv
  PROVE  SourcesAreLoaded
<1>1. /\ error = "Cycle" => Circular # {}
      /\ error = "Unknown" => ~(Needed \subseteq DOMAIN Bundles)
  BY DEF SourcesInv, RefusedRightly
<1>2. CASE stage # "literals u64"
  BY <1>1, <1>2 DEF SourcesAreLoaded
<1>3. CASE stage = "literals u64"
  <2>1. VisitedInv /\ FilesInv /\ MergedInv /\ Needed \subseteq visited /\ files = <<>>
    BY <1>3 DEF SourcesInv, Loading
  <2>2. Needed \subseteq DOMAIN Bundles /\ NeededBundles = visited /\ Needed = visited
    BY <2>1 DEF VisitedInv, NeededBundles
  <2>3. Circular = {}
    BY <2>1, <2>2 DEF Circular, VisitedInv, Below, ExtendsOf
  <2>4. Collected = NeededFiles
    <3>1. Collected = OfVisited \cup Range(command.inputs)
      BY <1>3 DEF Collected
    <3>2. OfVisited = UNION {Range(Bundles[n].files) : n \in NeededBundles}
      BY <2>2 DEF OfVisited, FilesOf
    <3> QED
      BY <3>1, <3>2 DEF NeededFiles
  <2>5. Range(files) = {}
    BY <2>1 DEF Range
  <2>6. Range(read) = {f.path : f \in NeededFiles}
    <3>1. \A f \in NeededFiles : f.path \in Range(read)
      BY <2>1, <2>4, <2>5 DEF FilesInv
    <3>2. Range(read) \subseteq {f.path : f \in NeededFiles}
      BY <2>1, <2>4 DEF FilesInv
    <3> QED
      BY <3>1, <3>2
  <2>7. ASSUME NEW n \in Needed, NEW d \in Range(Bundles[n].extends),
               NEW f \in Range(Bundles[d].files), NEW g \in Range(Bundles[n].files)
        PROVE  Before(f, g)
    <3>1. ReadBefore(f.path, g.path)
      BY <2>1, <2>2 DEF FilesInv, ExtendsOf, FilesOf
    <3>2. \A i, j \in DOMAIN read : read[i] = read[j] => i = j
      BY <2>1 DEF FilesInv
    <3> QED
      BY <3>1, <3>2 DEF Before, ReadBefore
  <2>8. ASSUME NEW f \in NeededFiles PROVE Holds(f, raw)
    <3>1. f.path \in Range(read)
      BY <2>1, <2>4, <2>5 DEF FilesInv
    <3>2. f \in FilesFor(command)
      BY <2>1, <2>4, CollectedAreGiven
    <3> QED
      BY <2>1, <3>1, <3>2 DEF MergedInv
  <2>9. \A f \in NeededFiles : \A t \in DOMAIN f.theories :
          /\ raw[t].syntax = f.theories[t].syntax
          /\ \A o \in DOMAIN f.theories[t].arrows :
               /\ raw[t].arrows[o].maps = f.theories[t].arrows[o].maps
               /\ raw[t].arrows[o].def = f.theories[t].arrows[o].def
    BY <2>8 DEF Holds
  <2> QED
    BY <1>1, <2>2, <2>3, <2>6, <2>7, <2>9 DEF SourcesAreLoaded
<1> QED
  BY <1>2, <1>3

\* A program is loaded exactly from the files of the bundles that it needs and its
\* own, each bundle after those that it extends, with every arrow as it was declared;
\* and only a set of bundles that has a cycle, or a gap, is refused for it: for every
\* library and every command (BundleRegistry::visit, load_theories, merge).
THEOREM Loads == ElaborationSpec => []SourcesAreLoaded
<1>1. ElaborationInit => Inv /\ SourcesInv
  BY Init, SourcesBegin
<1>2. Inv /\ SourcesInv /\ [Elaborate]_elaborationVars => (Inv /\ SourcesInv)'
  BY Step, Stutter, SourcesStep
<1>3. Inv /\ SourcesInv => SourcesAreLoaded
  BY SourcesAreRight DEF Inv
<1> QED
  BY <1>1, <1>2, <1>3, PTL DEF ElaborationSpec
=============================================================================
