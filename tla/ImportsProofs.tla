----------------------------- MODULE ImportsProofs -----------------------------
(***************************************************************************)
(* An accepted project gives nobody a name for what is private elsewhere,  *)
(* and what imports were found to mean is what their paths mean at the end.*)
(***************************************************************************)
EXTENDS Imports, SequenceTheorems, WellFoundedInduction, TLAPS

(* Up to n: a set with 0 that has, with a number, the one after it.        *)
LEMMA Upward ==
  ASSUME NEW n \in Nat, NEW S, 0 \in S, \A k \in 1 .. n : k - 1 \in S => k \in S
  PROVE  \A k \in 0 .. n : k \in S
<1>. SUFFICES ASSUME NEW x \in 0 .. n, x \notin S PROVE FALSE
  OBVIOUS
<1>. DEFINE D == {d \in Nat : d <= n /\ d \notin S}
<1>1. D \in SUBSET Nat /\ x \in D
  OBVIOUS
<1>2. PICK d \in D : \A e \in D : <<e, d>> \notin OpToRel(<, Nat)
  BY <1>1, WFMin, NatLessThanWellFounded, Zenon
<1>3. d \in 1 .. n /\ d - 1 \in Nat /\ d - 1 < d /\ d \notin S /\ d - 1 <= n
  OBVIOUS
<1>4. d - 1 \in D
  BY <1>3
<1>5. <<d - 1, d>> \in OpToRel(<, Nat)
  BY <1>3, Zenon DEF OpToRel
<1>. QED  BY <1>2, <1>4, <1>5
-----------------------------------------------------------------------------
(* Paths and what holds what.                                              *)
LEMMA PrefixMeans ==
  ASSUME NEW s \in Seq(STRING), NEW t \in Seq(STRING)
  PROVE  IsPrefix(s, t) <=> Len(s) <= Len(t) /\ \A i \in 1 .. Len(s) : s[i] = t[i]
<1>2. Len(s) \in Nat /\ Len(t) \in Nat
  BY LenProperties
<1>3. SubSeq(s, 1, Len(s)) = s
  OBVIOUS
<1>4. Len(s) <= Len(t) => /\ SubSeq(t, 1, Len(s)) \in Seq(STRING) /\ Len(SubSeq(t, 1, Len(s))) = Len(s)
                          /\ \A i \in 1 .. Len(s) : SubSeq(t, 1, Len(s))[i] = t[i]
  BY <1>2
<1>5. Len(s) <= Len(t) => (s = SubSeq(t, 1, Len(s)) <=> \A i \in 1 .. Len(s) : s[i] = t[i])
  BY <1>2, <1>4, SeqEqual
<1>. QED  BY <1>3, <1>5 DEF IsPrefix

LEMMA DescendsTransitive ==
  ASSUME NEW k \in Modules, NEW m \in Modules, NEW n \in Modules, Descends(k, m), Descends(m, n)
  PROVE  Descends(k, n)
<1>1. k[2] \in Seq(STRING) /\ m[2] \in Seq(STRING) /\ n[2] \in Seq(STRING)
  BY DEF Modules
<1>2. Len(k[2]) \in Nat /\ Len(m[2]) \in Nat /\ Len(n[2]) \in Nat
  BY <1>1, LenProperties
<1>. QED  BY <1>1, <1>2, PrefixMeans DEF Descends

LEMMA DescendsReflexive == \A m \in Modules : Descends(m, m)
<1>1. \A m \in Modules : m[2] \in Seq(STRING)
  BY DEF Modules
<1>2. \A m \in Modules : Len(m[2]) \in Nat
  BY <1>1, LenProperties
<1>. QED  BY <1>1, <1>2, PrefixMeans DEF Descends

(* A module lies in those its path begins with.                            *)
LEMMA DescendsFromStart ==
  ASSUME NEW m \in Modules, NEW n \in 0 .. Len(m[2])
  PROVE  /\ <<m[1], SubSeq(m[2], 1, n)>> \in Modules
         /\ Descends(m, <<m[1], SubSeq(m[2], 1, n)>>)
<1>1. m[1] \in Libraries /\ m[2] \in Seq(STRING) /\ Len(m[2]) \in Nat
  BY LenProperties DEF Modules
<1>. DEFINE s == SubSeq(m[2], 1, n)
<1>2. s \in Seq(STRING) /\ Len(s) = n /\ \A i \in 1 .. n : s[i] = m[2][i]
  BY <1>1
<1>. HIDE DEF s
<1>3. <<m[1], s>> \in Modules /\ <<m[1], s>>[1] = m[1] /\ <<m[1], s>>[2] = s
  BY <1>1, <1>2 DEF Modules
<1>4. IsPrefix(s, m[2])
  BY <1>1, <1>2, PrefixMeans
<1>5. Descends(m, <<m[1], s>>)
  BY <1>3, <1>4 DEF Descends
<1>. QED  BY <1>3, <1>5 DEF s

(* How many segments of a path go up is a number.                          *)
LEMMA LeadingTyped ==
  ASSUME NEW path \in Seq(STRING)
  PROVE  Leading(path) \in 0 .. Len(path)
<1>. DEFINE n == Len(path)
            Up(k) == \A i \in 1 .. k : path[i] = "super"
            S == {k \in 0 .. n : Up(k)}
            P(k) == Up(k) /\ (k < n => path[k + 1] # "super")
<1>0. n \in Nat
  BY LenProperties
<1>. HIDE DEF n
<1>1. \E k \in 0 .. n : P(k)
  <2>. SUFFICES ASSUME \A k \in 0 .. n : ~ P(k) PROVE FALSE
    OBVIOUS
  <2>1. 0 \in S
    BY <1>0
  <2>2. ASSUME NEW k \in 1 .. n, k - 1 \in S PROVE k \in S
    <3>1. k - 1 \in 0 .. n /\ k - 1 < n /\ (k - 1) + 1 = k /\ k \in 0 .. n
      BY <1>0
    <3>2. Up(k - 1) /\ path[k] = "super"
      BY <3>1, <2>2
    <3>3. \A i \in 1 .. k : i = k \/ i \in 1 .. k - 1
      BY <1>0
    <3>. QED  BY <3>1, <3>2, <3>3
  <2>3. \A k \in 0 .. n : k \in S
    <3>1. \A k \in 1 .. n : k - 1 \in S => k \in S
      BY <2>2
    <3>. HIDE DEF S
    <3>. QED  BY <1>0, <2>1, <3>1, Upward
  <2>4. n \in 0 .. n /\ n \in S
    BY <1>0, <2>3
  <2>. QED  BY <2>4, <1>0
<1>2. Leading(path) = CHOOSE k \in 0 .. n : P(k)
  BY DEF Leading, n
<1>. HIDE DEF P
<1>3. Leading(path) \in 0 .. n
  BY <1>1, <1>2
<1>. QED  BY <1>3 DEF n
-----------------------------------------------------------------------------
(* The states along a path.                                                *)
StepsAlong(m, path) == [j \in 1 .. Len(path) - Start(m, path).taken |-> Start(m, path).taken + j]
First(m, path) == [found |-> {ModuleEntity(Start(m, path).module)}, hidden |-> {}]
AreAlong(t, m, path, f) ==
  f = [n \in 0 .. Len(StepsAlong(m, path)) |->
         IF n = 0 THEN First(m, path)
         ELSE OnlyOne({Along(t, m, path, p, StepsAlong(m, path)[n]) : p \in {f[n - 1]}})]
StatesAlong(t, m, path) == CHOOSE f : AreAlong(t, m, path, f)

LEMMA TakenTyped ==
  ASSUME NEW m, NEW path \in Seq(STRING), path # <<>>
  PROVE  /\ Start(m, path).taken \in 0 .. Len(path)
         /\ Len(StepsAlong(m, path)) = Len(path) - Start(m, path).taken
         /\ \A n \in 1 .. Len(path) - Start(m, path).taken : StepsAlong(m, path)[n] = Start(m, path).taken + n
<1>1. Len(path) \in Nat /\ Len(path) # 0
  BY LenProperties, EmptySeq
<1>2. Start(m, path).taken \in {0, 1, Leading(path)}
  BY DEF Start
<1>3. Start(m, path).taken \in 0 .. Len(path)
  BY <1>1, <1>2, LeadingTyped
<1>. DEFINE l == Len(path) - Start(m, path).taken
<1>4. l \in Nat
  BY <1>1, <1>3
<1>5. StepsAlong(m, path) = [j \in 1 .. l |-> Start(m, path).taken + j]
  BY DEF StepsAlong
<1>. HIDE DEF l
<1>6. Len(StepsAlong(m, path)) = l /\ \A n \in 1 .. l : StepsAlong(m, path)[n] = Start(m, path).taken + n
  BY <1>4, <1>5
<1>. QED  BY <1>3, <1>6 DEF l

LEMMA AlongExists ==
  ASSUME NEW t, NEW m, NEW path \in Seq(STRING), path # <<>>
  PROVE  AreAlong(t, m, path, StatesAlong(t, m, path))
<1>. DEFINE n == Len(StepsAlong(m, path))
            Next1(prior, i) == OnlyOne({Along(t, m, path, p, StepsAlong(m, path)[i]) : p \in {prior}})
            Is(i, f) == f = [k \in 0 .. i |-> IF k = 0 THEN First(m, path) ELSE Next1(f[k - 1], k)]
            S == {i \in 0 .. n : \E f : Is(i, f)}
<1>0. n \in Nat
  BY TakenTyped, LenProperties
<1>. HIDE DEF n, Next1
<1>1. 0 \in S
  <2>1. Is(0, [k \in 0 .. 0 |-> First(m, path)])
    OBVIOUS
  <2>. HIDE DEF Is
  <2>. QED  BY <1>0, <2>1
<1>2. ASSUME NEW i \in 1 .. n, i - 1 \in S PROVE i \in S
  <2>1. PICK f : Is(i - 1, f)
    BY <1>2
  <2>. DEFINE g == [k \in 0 .. i |-> IF k = i THEN Next1(f[i - 1], i) ELSE f[k]]
  <2>2. \A k \in 0 .. i : g[k] = IF k = 0 THEN First(m, path) ELSE Next1(g[k - 1], k)
    <3>. SUFFICES ASSUME NEW k \in 0 .. i
                  PROVE g[k] = IF k = 0 THEN First(m, path) ELSE Next1(g[k - 1], k)
      OBVIOUS
    <3>1. k # 0 => g[k - 1] = f[k - 1]
      BY <1>0
    <3>2. CASE k = i
      BY <1>0, <3>1, <3>2
    <3>3. CASE k # i
      <4>1. k \in 0 .. i - 1
        BY <1>0, <3>3
      <4>2. f[k] = IF k = 0 THEN First(m, path) ELSE Next1(f[k - 1], k)
        BY <4>1, <2>1
      <4>. QED  BY <1>0, <3>1, <3>3, <4>2
    <3>. QED  BY <3>2, <3>3
  <2>3. g = [k \in 0 .. i |-> g[k]]
    OBVIOUS
  <2>. HIDE DEF g
  <2>4. g = [k \in 0 .. i |-> IF k = 0 THEN First(m, path) ELSE Next1(g[k - 1], k)]
    BY <2>2, <2>3
  <2>. QED  BY <2>4, <1>0
<1>3. n \in S
  <2>1. \A k \in 1 .. n : k - 1 \in S => k \in S
    BY <1>2
  <2>. HIDE DEF S
  <2>. QED  BY <1>0, <1>1, <2>1, Upward
<1>4. PICK f : Is(n, f)
  BY <1>3
<1>5. AreAlong(t, m, path, f)
  BY <1>4 DEF AreAlong, n, Next1
<1>. HIDE DEF Is, S
<1>. QED  BY <1>5, Zenon DEF StatesAlong

(* A lookup starts at the module its path says and follows the segments.   *)
LEMMA LookupSteps ==
  ASSUME NEW t, NEW m, NEW path \in Seq(STRING), path # <<>>
  PROVE  LET n == Len(path) - Start(m, path).taken
         IN  /\ ~ Escapes(m, path) => Lookup(t, m, path) = StatesAlong(t, m, path)[n]
             /\ Escapes(m, path) => Lookup(t, m, path).found = {}
             /\ StatesAlong(t, m, path)[0] = First(m, path)
             /\ \A k \in 1 .. n : StatesAlong(t, m, path)[k]
                  = Along(t, m, path, StatesAlong(t, m, path)[k - 1], Start(m, path).taken + k)
<1>. DEFINE n == Len(path) - Start(m, path).taken
            f == StatesAlong(t, m, path)
            Is(g) == g = [k \in 0 .. Len(StepsAlong(m, path)) |->
                            IF k = 0 THEN First(m, path)
                            ELSE OnlyOne({Along(t, m, path, p, StepsAlong(m, path)[k]) : p \in {g[k - 1]}})]
<1>1. Start(m, path).taken \in 0 .. Len(path) /\ Len(path) \in Nat /\ n \in Nat /\ Len(StepsAlong(m, path)) = n
      /\ \A k \in 1 .. n : StepsAlong(m, path)[k] = Start(m, path).taken + k
  BY TakenTyped, LenProperties
<1>2. Escapes(m, path) => Lookup(t, m, path).found = {}
  BY DEF Lookup
<1>3. ~ Escapes(m, path) => Lookup(t, m, path) = (CHOOSE g : Is(g))[Len(StepsAlong(m, path))]
  BY DEF Lookup, After, StepsAlong, First
<1>4. f = CHOOSE g : Is(g)
  BY DEF StatesAlong, AreAlong
<1>5. Is(f)
  BY AlongExists DEF AreAlong
<1>. HIDE DEF f, n
<1>6. \A k \in 0 .. n : f[k] = IF k = 0 THEN First(m, path)
                               ELSE OnlyOne({Along(t, m, path, p, StepsAlong(m, path)[k]) : p \in {f[k - 1]}})
  BY <1>1, <1>5
<1>7. \A k \in 1 .. n : f[k] = Along(t, m, path, f[k - 1], StepsAlong(m, path)[k])
  BY <1>1, <1>6 DEF OnlyOne
<1>8. \A k \in 1 .. n : f[k] = Along(t, m, path, f[k - 1], Start(m, path).taken + k)
  BY <1>1, <1>7
<1>9. f[0] = First(m, path)
  <2>1. 0 \in 0 .. n
    BY <1>1
  <2>2. f[0] = IF 0 = 0 THEN First(m, path)
               ELSE OnlyOne({Along(t, m, path, p, StepsAlong(m, path)[0]) : p \in {f[0 - 1]}})
    BY <2>1, <1>6, Zenon
  <2>. QED  BY <2>2
<1>. HIDE DEF Is
<1>10. ~ Escapes(m, path) => Lookup(t, m, path) = f[n]
  BY <1>1, <1>3, <1>4
<1>. QED  BY <1>2, <1>8, <1>9, <1>10 DEF f, n
-----------------------------------------------------------------------------
(* Nobody may use what is private elsewhere.                               *)
Fits(m, e) == ~ IsPublic(e) => HomeOf(e) \in Modules /\ Descends(m, HomeOf(e))
Guarded(t) ==
  /\ \A d \in t.all : d.in \in Modules /\ Fits(d.in, d.target)
  /\ \A d \in t.public : IsPublic(d.target)

(* What is in reach of a module and open to it fits it.                    *)
LEMMA OpenFits ==
  ASSUME IsProject(project), NEW t, Guarded(t), NEW m \in Modules, NEW c, NEW name, NEW e \in Open(t, m, c, name)
  PROVE  Fits(m, e)
<1>1. CASE \E d \in t.all : d.target = e /\ (d \in t.public \/ Descends(m, d.in))
  <2>1. PICK d \in t.all : d.target = e /\ (d \in t.public \/ Descends(m, d.in))
    BY <1>1
  <2>2. d \in t.public => IsPublic(e)
    BY <2>1 DEF Guarded
  <2>3. d.in \in Modules /\ Fits(d.in, e)
    BY <2>1 DEF Guarded
  <2>4. ASSUME Descends(m, d.in) PROVE Fits(m, e)
    BY <2>3, <2>4, DescendsTransitive DEF Fits
  <2>. QED  BY <2>1, <2>2, <2>4 DEF Fits
<1>2. CASE e \in Members(c) /\ (IsPublic(e) \/ Descends(m, e.module))
  <2>1. e \in project.entities
    BY <1>2 DEF Members
  <2>2. HomeOf(e) = e.module /\ e.module \in Modules
    BY <2>1 DEF HomeOf, IsProject
  <2>. QED  BY <1>2, <2>2 DEF Fits
<1>3. e \in {d.target : d \in {x \in DeliveriesNamed(t.all, c, name) : x \in t.public \/ Descends(m, x.in)}}
        => \E d \in t.all : d.target = e /\ (d \in t.public \/ Descends(m, d.in))
  BY DEF DeliveriesNamed
<1>. QED  BY <1>1, <1>2, <1>3 DEF Open

(* A path that only goes up means a module that its own is in.             *)
LEMMA StartFits ==
  ASSUME IsProject(project), NEW m \in Modules, NEW path \in Seq(STRING), path # <<>>,
         ~ Escapes(m, path), Start(m, path).taken = Len(path)
  PROVE  Fits(m, ModuleEntity(Start(m, path).module))
<1>. DEFINE n == Len(m[2]) - Leading(path)
            s == <<m[1], SubSeq(m[2], 1, n)>>
            e == ModuleEntity(s)
<1>1. Len(path) \in Nat \ {0} /\ Leading(path) \in 0 .. Len(path) /\ Len(m[2]) \in Nat /\ m[2] \in Seq(STRING)
      /\ m[1] \in Libraries
  BY LenProperties, EmptySeq, LeadingTyped DEF Modules
<1>2. n \in 0 .. Len(m[2])
  BY <1>1 DEF Escapes
<1>3. Start(m, path).module = s
  <2>1. path[1] = "super"
    <3>. SUFFICES ASSUME path[1] # "super" PROVE FALSE
      OBVIOUS
    <3>1. CASE (path[1] = "root" \/ path[1] = "self") /\ Len(path) > 1
      <4>1. Start(m, path).taken = 1
        <5>1. path[1] = "root" => Start(m, path) = [module |-> Root(m[1]), taken |-> 1]
          BY <3>1 DEF Start
        <5>2. path[1] = "self" => Start(m, path) = [module |-> m, taken |-> 1]
          BY <3>1 DEF Start
        <5>. QED  BY <3>1, <5>1, <5>2
      <4>. QED  BY <1>1, <3>1, <4>1
    <3>2. CASE ~ ((path[1] = "root" \/ path[1] = "self") /\ Len(path) > 1)
      <4>1. Start(m, path) = [module |-> m, taken |-> 0]
        BY <3>2 DEF Start
      <4>. QED  BY <1>1, <4>1
    <3>. QED  BY <3>1, <3>2
  <2>. QED  BY <2>1 DEF Start
<1>. HIDE DEF n
<1>4. s \in Modules /\ Descends(m, s) /\ s[1] = m[1] /\ s[2] = SubSeq(m[2], 1, n)
  BY <1>2, DescendsFromStart
<1>5. e.kind = "module" /\ e.module = s
  BY DEF ModuleEntity
<1>. HIDE DEF s, e
<1>6. ASSUME ~ IsPublic(e) PROVE HomeOf(e) \in Modules /\ Descends(m, HomeOf(e))
  <2>1. s \in DOMAIN project.inline /\ s[2] # <<>>
    BY <1>5, <1>6 DEF IsPublic, IsProject, Inline
  <2>2. Len(s[2]) = n /\ n # 0
    BY <1>1, <1>2, <1>4, <2>1
  <2>3. n - 1 \in 0 .. Len(m[2]) /\ n - 1 \in 0 .. n
    BY <1>1, <1>2, <2>2
  <2>4. SubSeq(s[2], 1, n - 1) = SubSeq(m[2], 1, n - 1)
    BY <1>1, <1>2, <1>4, <2>2, <2>3
  <2>5. HomeOf(e) = <<m[1], SubSeq(m[2], 1, n - 1)>>
    BY <1>4, <1>5, <2>2, <2>4 DEF HomeOf, Parent, Front
  <2>. QED  BY <2>3, <2>5, DescendsFromStart
<1>7. Fits(m, e)
  BY <1>6 DEF Fits
<1>. QED  BY <1>3, <1>7 DEF e

(* Whatever a lookup finds fits the module that looks it up.               *)
LEMMA FoundFits ==
  ASSUME IsProject(project), NEW t, Guarded(t), NEW m \in Modules, NEW path \in Seq(STRING), path # <<>>,
         NEW e \in Lookup(t, m, path).found
  PROVE  Fits(m, e)
<1>. DEFINE n == Len(path) - Start(m, path).taken
            f == StatesAlong(t, m, path)
            i == Start(m, path).taken + n
<1>1. Start(m, path).taken \in 0 .. Len(path) /\ Len(path) \in Nat
  BY TakenTyped, LenProperties
<1>2. ~ Escapes(m, path) /\ e \in f[n].found
  BY LookupSteps
<1>3. CASE n = 0
  <2>1. f[n] = First(m, path)
    BY <1>3, LookupSteps
  <2>2. e = ModuleEntity(Start(m, path).module)
    BY <1>2, <2>1 DEF First
  <2>. QED  BY <1>1, <1>2, <1>3, <2>2, StartFits
<1>4. CASE n # 0
  <2>1. n \in 1 .. n /\ f[n] = Along(t, m, path, f[n - 1], i)
    <3>1. n \in 1 .. n
      BY <1>1, <1>4
    <3>. QED  BY <3>1, LookupSteps
  <2>. HIDE DEF f, n, i
  <2>2. e \in Along(t, m, path, f[n - 1], i).found
    BY <1>2, <2>1
  <2>3. \/ \E c \in f[n - 1].found : e \in Open(t, m, c, path[i])
        \/ e \in Language
    BY <2>2 DEF Along, LanguageNamed
  <2>4. e \in Language => Fits(m, e)
    BY DEF Fits, IsPublic
  <2>. QED  BY <2>3, <2>4, OpenFits
<1>. QED  BY <1>3, <1>4
-----------------------------------------------------------------------------
(* Nothing but the project decides what is public, and where.              *)
LEMMA PublicFixed ==
  ASSUME project' = project
  PROVE  /\ \A e : IsPublic(e)' <=> IsPublic(e)
         /\ \A m, e : Fits(m, e)' <=> Fits(m, e)
         /\ \A t : Guarded(t)' <=> Guarded(t)
         /\ IsProject(project)' <=> IsProject(project)
<1>1. \A e : IsPublic(e)' <=> IsPublic(e)
  BY DEF IsPublic, Inline
<1>2. \A e : HomeOf(e)' = HomeOf(e)
  BY DEF HomeOf
<1>3. \A m, e : Fits(m, e)' <=> Fits(m, e)
  BY <1>1, <1>2 DEF Fits
<1>4. \A t : Guarded(t)' <=> Guarded(t)
  BY <1>1, <1>3 DEF Guarded
<1>. QED  BY <1>1, <1>3, <1>4

(* What the modules hold of their own is guarded.                          *)
LEMMA ModulesTyped == IsProject(project) => \A parsed : KnownModules(parsed) \subseteq Modules
<1>. SUFFICES ASSUME IsProject(project), NEW parsed, NEW m \in KnownModules(parsed) PROVE m \in Modules
  OBVIOUS
<1>1. CASE m \in Inventory
  <2>1. PICK f \in project.files : \E n \in 0 .. Len(f[2]) : m = <<f[1], SubSeq(f[2], 1, n)>>
    BY <1>1 DEF Inventory
  <2>2. f \in Modules
    BY DEF IsProject
  <2>. QED  BY <2>1, <2>2, DescendsFromStart
<1>2. CASE m \in Inline
  BY <1>2 DEF Inline, IsProject
<1>. QED  BY <1>1, <1>2 DEF KnownModules

LEMMA ParentTyped == \A m \in Modules : m[2] # <<>> => Parent(m) \in Modules
<1>. SUFFICES ASSUME NEW m \in Modules, m[2] # <<>> PROVE Parent(m) \in Modules
  OBVIOUS
<1>1. m[2] \in Seq(STRING) /\ Len(m[2]) \in Nat /\ Len(m[2]) # 0
  BY LenProperties, EmptySeq DEF Modules
<1>2. Len(m[2]) - 1 \in 0 .. Len(m[2])
  BY <1>1
<1>. QED  BY <1>2, DescendsFromStart DEF Parent, Front

LEMMA OwnGuarded == IsProject(project) => Guarded(OwnTables)
<1>. SUFFICES ASSUME IsProject(project) PROVE Guarded(OwnTables)
  OBVIOUS
<1>. DEFINE modules == {m \in KnownModules(Parsed) : m[2] # <<>>}
            children == {Delivery(Parent(m), Last(m[2]), ModuleEntity(m)) : m \in modules}
            roots == {Delivery(Root(d[1]), d[2], ModuleEntity(Root(d[3]))) : d \in project.dependencies}
            declared == {Delivery(e.module, e.name, e) :
                           e \in {f \in project.entities : f.owner = "" /\ FileOf(f.module) \in Parsed}}
<1>1. /\ OwnTables.all = children \cup roots \cup declared
      /\ \A d \in OwnTables.public : IsPublic(d.target)
  BY DEF OwnTables
<1>2. \A m, name, e : Delivery(m, name, e).in = m /\ Delivery(m, name, e).target = e
  BY DEF Delivery
<1>3. \A d \in children : d.in \in Modules /\ Fits(d.in, d.target)
  <2>. SUFFICES ASSUME NEW m \in modules, NEW d, d = Delivery(Parent(m), Last(m[2]), ModuleEntity(m))
                PROVE d.in \in Modules /\ Fits(d.in, d.target)
    BY Zenon
  <2>1. Parent(m) \in Modules
    BY ModulesTyped, ParentTyped
  <2>2. d.in = Parent(m) /\ d.target = ModuleEntity(m)
    BY DEF Delivery
  <2>3. ModuleEntity(m).kind = "module" /\ ModuleEntity(m).module = m
    BY DEF ModuleEntity
  <2>4. HomeOf(d.target) = Parent(m)
    BY <2>2, <2>3 DEF HomeOf
  <2>. QED  BY <2>1, <2>2, <2>4, DescendsReflexive DEF Fits
<1>4. \A d \in roots : d.in \in Modules /\ Fits(d.in, d.target)
  <2>. SUFFICES ASSUME NEW x \in project.dependencies, NEW d, d = Delivery(Root(x[1]), x[2], ModuleEntity(Root(x[3])))
                PROVE d.in \in Modules /\ Fits(d.in, d.target)
    BY Zenon
  <2>1. d.in = Root(x[1]) /\ d.target = ModuleEntity(Root(x[3]))
    BY <1>2, Zenon
  <2>2. Root(x[3])[2] = <<>> /\ Root(x[1]) \in Modules
    <3>1. x[1] \in Libraries
      BY DEF IsProject
    <3>2. <<>> \in Seq(STRING)
      OBVIOUS
    <3>. QED  BY <3>1, <3>2 DEF Root, Modules
  <2>3. Root(x[3]) \notin Inline
    BY <2>2 DEF Inline, IsProject
  <2>4. IsPublic(d.target)
    <3>1. \A m : ModuleEntity(m).kind = "module" /\ ModuleEntity(m).module = m
      BY DEF ModuleEntity
    <3>. QED  BY <2>1, <2>3, <3>1 DEF IsPublic
  <2>. QED  BY <2>1, <2>2, <2>4 DEF Fits
<1>5. \A d \in declared : d.in \in Modules /\ Fits(d.in, d.target)
  <2>. SUFFICES ASSUME NEW e \in project.entities, NEW d, d = Delivery(e.module, e.name, e)
                PROVE d.in \in Modules /\ Fits(d.in, d.target)
    BY Zenon
  <2>1. e.module \in Modules /\ HomeOf(e) = e.module
    BY DEF IsProject, HomeOf
  <2>. QED  BY <1>2, <2>1, DescendsReflexive DEF Fits
<1>. HIDE DEF children, roots, declared
<1>. QED  BY <1>1, <1>3, <1>4, <1>5 DEF Guarded
-----------------------------------------------------------------------------
(* The imports of the uses.                                                *)
Imported == [module : Modules, public : BOOLEAN, path : Seq(STRING) \ {<<>>}, local : STRING]

LEMMA FlatTyped ==
  ASSUME NEW S, NEW seqs \in Seq(Seq(S))
  PROVE  FlattenSeq(seqs) \in Seq(S)
<1>. DEFINE n == Len(seqs)
            Is(k, f) == f = [i \in 1 .. k |-> IF i = 1 THEN seqs[i] ELSE f[i - 1] \o seqs[i]]
            T == {k \in 0 .. n : \E f \in [1 .. k -> Seq(S)] : Is(k, f)}
<1>0. n \in Nat
  BY LenProperties
<1>3. \A i \in 1 .. n : seqs[i] \in Seq(S)
  BY ElementOfSeq
<1>1. CASE n = 0
  <2>1. FlattenSeq(seqs) = seqs /\ seqs = <<>>
    BY <1>1, EmptySeq DEF FlattenSeq
  <2>. QED  BY <2>1
<1>2. CASE n # 0
  <2>. HIDE DEF n
  <2>1. 0 \in T
    <3>1. Is(0, [i \in 1 .. 0 |-> seqs]) /\ [i \in 1 .. 0 |-> seqs] \in [1 .. 0 -> Seq(S)]
      OBVIOUS
    <3>. HIDE DEF Is
    <3>2. \E f \in [1 .. 0 -> Seq(S)] : Is(0, f)
      BY <3>1, Zenon
    <3>3. 0 \in 0 .. n
      BY <1>0
    <3>. QED  BY <3>2, <3>3
  <2>2. ASSUME NEW k \in 1 .. n, k - 1 \in T PROVE k \in T
    <3>1. PICK f \in [1 .. k - 1 -> Seq(S)] : Is(k - 1, f)
      BY <2>2
    <3>. DEFINE g == [i \in 1 .. k |-> IF i = k THEN IF k = 1 THEN seqs[k] ELSE f[k - 1] \o seqs[k] ELSE f[i]]
    <3>2. k # 1 => f[k - 1] \in Seq(S)
      BY <1>0
    <3>3. g \in [1 .. k -> Seq(S)]
      <4>1. seqs[k] \in Seq(S) /\ (k # 1 => f[k - 1] \o seqs[k] \in Seq(S))
        BY <1>3, <3>2
      <4>2. \A i \in 1 .. k : i # k => f[i] \in Seq(S)
        BY <1>0
      <4>. QED  BY <1>0, <4>1, <4>2
    <3>4. \A i \in 1 .. k : g[i] = IF i = 1 THEN seqs[i] ELSE g[i - 1] \o seqs[i]
      <4>. SUFFICES ASSUME NEW i \in 1 .. k
                    PROVE g[i] = IF i = 1 THEN seqs[i] ELSE g[i - 1] \o seqs[i]
        OBVIOUS
      <4>1. i # 1 => g[i - 1] = f[i - 1]
        BY <1>0
      <4>2. CASE i = k
        BY <1>0, <4>1, <4>2
      <4>3. CASE i # k
        <5>1. i \in 1 .. k - 1
          BY <1>0, <4>3
        <5>2. f[i] = IF i = 1 THEN seqs[i] ELSE f[i - 1] \o seqs[i]
          BY <5>1, <3>1
        <5>. QED  BY <1>0, <4>1, <4>3, <5>2
      <4>. QED  BY <4>2, <4>3
    <3>5. g = [i \in 1 .. k |-> g[i]]
      OBVIOUS
    <3>. HIDE DEF g
    <3>6. Is(k, g)
      BY <3>4, <3>5
    <3>. HIDE DEF Is
    <3>. QED  BY <3>3, <3>6, <1>0
  <2>3. n \in T
    <3>1. \A k \in 1 .. n : k - 1 \in T => k \in T
      BY <2>2
    <3>. HIDE DEF T
    <3>2. \A k \in 0 .. n : k \in T
      BY <1>0, <2>1, <3>1, Upward
    <3>. QED  BY <1>0, <3>2
  <2>4. PICK f \in [1 .. n -> Seq(S)] : Is(n, f)
    BY <2>3
  <2>5. FlattenSeq(seqs) = (CHOOSE h : Is(n, h))[n]
    BY <1>2 DEF FlattenSeq, n
  <2>6. ASSUME NEW h, Is(n, h)
        PROVE \A i \in 1 .. n : h[i] = IF i = 1 THEN seqs[i] ELSE h[i - 1] \o seqs[i]
    BY <2>6
  <2>7. PICK h : h = (CHOOSE x : Is(n, x)) /\ Is(n, h)
    <3>. HIDE DEF Is
    <3>. QED  BY <2>4, Zenon
  <2>. DEFINE U == {k \in 0 .. n : k = 0 \/ h[k] \in Seq(S)}
  <2>8. \A i \in 1 .. n : h[i] = IF i = 1 THEN seqs[i] ELSE h[i - 1] \o seqs[i]
    <3>. HIDE DEF Is
    <3>. QED  BY <2>6, <2>7
  <2>9. ASSUME NEW k \in 1 .. n, k - 1 \in U PROVE k \in U
    <3>1. k # 1 => h[k - 1] \in Seq(S)
      BY <2>9, <1>0
    <3>2. seqs[k] \in Seq(S) /\ (k # 1 => h[k - 1] \o seqs[k] \in Seq(S))
      BY <3>1, <1>3
    <3>3. h[k] = IF k = 1 THEN seqs[k] ELSE h[k - 1] \o seqs[k]
      BY <2>8
    <3>4. h[k] \in Seq(S) /\ k \in 0 .. n
      BY <1>0, <3>2, <3>3
    <3>. QED  BY <3>4
  <2>10. n \in U
    <3>1. (\A k \in 1 .. n : k - 1 \in U => k \in U) /\ 0 \in U
      BY <2>9, <1>0
    <3>. HIDE DEF U
    <3>2. \A k \in 0 .. n : k \in U
      BY <1>0, <3>1, Upward
    <3>. QED  BY <1>0, <3>2
  <2>. QED  BY <1>0, <1>2, <2>5, <2>7, <2>10
<1>. QED  BY <1>1, <1>2

LEMMA ImportsTyped == IsProject(project) => \A parsed : ImportsOf(parsed) \in Seq(Imported)
<1>. SUFFICES ASSUME IsProject(project), NEW parsed PROVE ImportsOf(parsed) \in Seq(Imported)
  OBVIOUS
<1>. DEFINE uses == project.uses
            flat == [i \in DOMAIN uses |-> IF FileOf(uses[i].module) \in parsed THEN Flatten(uses[i]) ELSE <<>>]
<1>1. uses \in Seq(Uses)
  BY DEF IsProject
<1>2. \A u \in Uses : Flatten(u) \in Seq(Imported)
  <2>. SUFFICES ASSUME NEW u \in Uses PROVE Flatten(u) \in Seq(Imported)
    OBVIOUS
  <2>1. /\ u.module \in Modules /\ u.public \in BOOLEAN /\ u.alias \in STRING
        /\ u.path \in Seq(STRING) /\ u.path # <<>> /\ u.items \in Seq(STRING \X STRING)
    BY DEF Uses
  <2>2. \A path \in Seq(STRING) \ {<<>>}, local \in STRING : Import(u, path, local) \in Imported
    BY <2>1 DEF Import, Imported
  <2>3. Local(u) \in STRING
    <3>1. Last(u.path) \in STRING
      BY <2>1, LenProperties, EmptySeq, ElementOfSeq DEF Last
    <3>. QED  BY <2>1, <3>1 DEF Local
  <2>4. CASE u.items = <<>>
    <3>1. Import(u, u.path, Local(u)) \in Imported
      BY <2>1, <2>2, <2>3
    <3>2. Flatten(u) = <<Import(u, u.path, Local(u))>>
      BY <2>4 DEF Flatten
    <3>. QED  BY <3>1, <3>2
  <2>5. CASE u.items # <<>>
    <3>1. \A i \in DOMAIN u.items : /\ Append(u.path, u.items[i][1]) \in Seq(STRING) \ {<<>>}
                                    /\ u.items[i][2] \in STRING
      <4>1. \A i \in DOMAIN u.items : u.items[i] \in STRING \X STRING
        BY <2>1
      <4>2. \A x \in STRING : Append(u.path, x) \in Seq(STRING) /\ Append(u.path, x) # <<>>
        BY <2>1, AppendProperties
      <4>. QED  BY <4>1, <4>2
    <3>2. DOMAIN u.items = 1 .. Len(u.items) /\ Len(u.items) \in Nat
      BY <2>1, LenProperties
    <3>3. Flatten(u) = [i \in 1 .. Len(u.items) |-> Import(u, Append(u.path, u.items[i][1]), u.items[i][2])]
      BY <2>5, <3>2 DEF Flatten
    <3>4. Flatten(u) \in [1 .. Len(u.items) -> Imported]
      <4>1. \A i \in 1 .. Len(u.items) : Import(u, Append(u.path, u.items[i][1]), u.items[i][2]) \in Imported
        BY <2>2, <3>1, <3>2
      <4>. QED  BY <3>3, <4>1
    <3>. QED  BY <3>2, <3>4
  <2>. QED  BY <2>4, <2>5
<1>3. flat \in Seq(Seq(Imported))
  <2>1. DOMAIN uses = 1 .. Len(uses) /\ Len(uses) \in Nat /\ \A i \in DOMAIN uses : uses[i] \in Uses
    BY <1>1, LenProperties
  <2>2. flat \in [1 .. Len(uses) -> Seq(Imported)]
    BY <1>2, <2>1
  <2>. QED  BY <2>1, <2>2
<1>. HIDE DEF flat
<1>4. FlattenSeq(flat) \in Seq(Imported)
  BY <1>3, FlatTyped
<1>. QED  BY <1>4 DEF ImportsOf, flat
-----------------------------------------------------------------------------
(* Either some import re-exports what is private, which no later step      *)
(* undoes, or all that was delivered and found fits.                       *)
Exposed == \E i \in DOMAIN imports : imports[i].public /\ \E e \in candidates[i] : ~ IsPublic(e)
CandidatesFit == \A i \in DOMAIN imports : \A e \in candidates[i] : Fits(imports[i].module, e)
StateTyped ==
  /\ IsProject(project)
  /\ imports \in Seq(Imported)
  /\ candidates = [i \in DOMAIN imports |-> candidates[i]]
  /\ turn \in Nat /\ (phase = "import" => turn > 0)
PrivateInv ==
  /\ StateTyped
  /\ Exposed \/ (Guarded(tables) /\ CandidatesFit)
  /\ phase = "accepted" => ~ Exposed

LEMMA PrivateInit == Init => PrivateInv
<1>. SUFFICES ASSUME Init PROVE PrivateInv
  OBVIOUS
<1>1. IsProject(project) /\ phase = "parse"
  BY InputsAssumption DEF Init, DiscoveryInit
<1>2. imports = <<>> /\ candidates = <<>> /\ turn = 0 /\ tables = [all |-> {}, public |-> {}]
  BY DEF Init
<1>3. DOMAIN imports = {} /\ imports \in Seq(Imported) /\ candidates = [i \in DOMAIN imports |-> candidates[i]]
  BY <1>2
<1>4. StateTyped
  BY <1>1, <1>2, <1>3 DEF StateTyped
<1>5. Guarded(tables) /\ CandidatesFit
  BY <1>2, <1>3 DEF Guarded, CandidatesFit
<1>. QED  BY <1>1, <1>4, <1>5 DEF PrivateInv

(* Every step either leaves the imports alone, indexes them, or takes one. *)
LEMMA TypedNext == StateTyped /\ [Next]_vars => StateTyped'
<1>. SUFFICES ASSUME StateTyped, [Next]_vars PROVE StateTyped'
  OBVIOUS
<1>. USE DEF StateTyped
<1>1. IsProject(project)' /\ project' = project
  <2>1. project' = project
    BY DEF Next, ParseStep, Parse, Discover, RejectBroken, IndexEntities, Resolve, ImportTurn, NextRound, Conclude, vars
  <2>. QED  BY <2>1, PublicFixed
<1>2. CASE ParseStep
  BY <1>1, <1>2 DEF ParseStep, Parse, Discover, RejectBroken
<1>3. CASE IndexEntities
  <2>1. imports' = ImportsOf(Parsed) /\ turn' = 1 /\ candidates' = [i \in DOMAIN imports' |-> {}]
    BY <1>3 DEF IndexEntities
  <2>2. imports' \in Seq(Imported)
    BY <2>1, ImportsTyped
  <2>3. candidates' = [i \in DOMAIN imports' |-> candidates'[i]]
    BY <2>1
  <2>. QED  BY <1>1, <2>1, <2>2, <2>3
<1>4. CASE ImportTurn
  <2>1. imports' = imports /\ turn' = turn + 1 /\ phase' = phase
    BY <1>4 DEF ImportTurn
  <2>2. candidates' = [i \in DOMAIN imports' |-> candidates'[i]]
    <3>1. candidates' = [candidates EXCEPT ![turn] = @ \cup Lookup(tables, imports[turn].module, imports[turn].path).found]
      BY <1>4 DEF ImportTurn
    <3>. QED  BY <2>1, <3>1
  <2>. QED  BY <1>1, <2>1, <2>2
<1>5. CASE NextRound
  BY <1>1, <1>5 DEF NextRound
<1>6. CASE Conclude
  BY <1>1, <1>6 DEF Conclude
<1>7. CASE UNCHANGED vars
  BY <1>1, <1>7 DEF vars
<1>. QED  BY <1>2, <1>3, <1>4, <1>5, <1>6, <1>7 DEF Next, Resolve

(* The import whose turn it is.                                            *)
LEMMA TurnTyped ==
  ASSUME StateTyped, phase = "import", turn <= Len(imports)
  PROVE  /\ turn \in DOMAIN imports
         /\ imports[turn].module \in Modules
         /\ imports[turn].path \in Seq(STRING) /\ imports[turn].path # <<>>
<1>1. turn \in 1 .. Len(imports) /\ DOMAIN imports = 1 .. Len(imports)
  BY LenProperties DEF StateTyped
<1>2. imports[turn] \in Imported
  BY <1>1, ElementOfSeq DEF StateTyped
<1>. QED  BY <1>1, <1>2 DEF Imported

LEMMA PrivateTurn ==
  ASSUME PrivateInv, ImportTurn, project' = project
  PROVE  Exposed' \/ (Guarded(tables) /\ CandidatesFit)'
<1>. DEFINE i == turn
            import == imports[turn]
            found == Lookup(tables, import.module, import.path).found
            new == {Delivery(import.module, import.local, e) : e \in candidates'[i]}
<1>1. /\ i \in DOMAIN imports /\ imports' = imports
      /\ import.module \in Modules /\ import.path \in Seq(STRING) /\ import.path # <<>>
  BY TurnTyped DEF PrivateInv, ImportTurn
<1>2. \A j \in DOMAIN imports : candidates'[j] = IF j = i THEN candidates[j] \cup found ELSE candidates[j]
  BY <1>1 DEF PrivateInv, StateTyped, ImportTurn
<1>3. tables'.all = tables.all \cup new /\ tables'.public = tables.public \cup (IF import.public THEN new ELSE {})
  BY DEF ImportTurn, Deliver
<1>4. \A d \in new : d.in = import.module /\ d.target \in candidates'[i]
  BY DEF Delivery
<1>5. /\ \A e : IsPublic(e)' <=> IsPublic(e)
      /\ \A m, e : Fits(m, e)' <=> Fits(m, e)
      /\ \A t : Guarded(t)' <=> Guarded(t)
  BY PublicFixed
<1>. HIDE DEF i, import, found, new
<1>6. Exposed => Exposed'
  BY <1>1, <1>2, <1>5 DEF Exposed
<1>7. ASSUME Guarded(tables), CandidatesFit, ~ Exposed'
      PROVE  (Guarded(tables) /\ CandidatesFit)'
  <2>1. \A e \in found : Fits(import.module, e)
    BY <1>1, <1>7, FoundFits DEF found, PrivateInv, StateTyped
  <2>2. \A j \in DOMAIN imports : \A e \in candidates'[j] : Fits(imports[j].module, e)
    BY <1>2, <1>7, <2>1 DEF CandidatesFit, import, i
  <2>3. CandidatesFit'
    BY <1>1, <1>5, <2>2 DEF CandidatesFit
  <2>4. \A d \in new : d.in \in Modules /\ Fits(d.in, d.target)
    BY <1>1, <1>4, <2>2 DEF import, i
  <2>5. ASSUME NEW d \in new, import.public PROVE IsPublic(d.target)
    <3>1. d.target \in candidates'[i] /\ imports'[i].public /\ i \in DOMAIN imports'
      BY <1>1, <1>4, <2>5 DEF import, i
    <3>. QED  BY <1>5, <1>7, <3>1 DEF Exposed
  <2>6. /\ \A d \in tables'.all : d.in \in Modules /\ Fits(d.in, d.target)
        /\ \A d \in tables'.public : IsPublic(d.target)
    BY <1>3, <1>7, <2>4, <2>5 DEF Guarded
  <2>7. Guarded(tables)'
    BY <1>5, <2>6 DEF Guarded
  <2>. QED  BY <2>3, <2>7
<1>. QED  BY <1>6, <1>7 DEF PrivateInv

LEMMA PrivateNext == PrivateInv /\ [Next]_vars => PrivateInv'
<1>. SUFFICES ASSUME PrivateInv, [Next]_vars PROVE PrivateInv'
  OBVIOUS
<1>1. StateTyped'
  BY TypedNext DEF PrivateInv
<1>2. project' = project
  BY DEF Next, ParseStep, Parse, Discover, RejectBroken, IndexEntities, Resolve, ImportTurn, NextRound, Conclude, vars
<1>3. /\ \A e : IsPublic(e)' <=> IsPublic(e)
      /\ \A m, e : Fits(m, e)' <=> Fits(m, e)
      /\ \A t : Guarded(t)' <=> Guarded(t)
  BY <1>2, PublicFixed
<1>4. UNCHANGED <<tables, imports, candidates>> =>
        /\ Exposed' <=> Exposed
        /\ (Guarded(tables) /\ CandidatesFit)' <=> (Guarded(tables) /\ CandidatesFit)
  <2>. SUFFICES ASSUME UNCHANGED <<tables, imports, candidates>>
                PROVE /\ Exposed' <=> Exposed
                      /\ (Guarded(tables) /\ CandidatesFit)' <=> (Guarded(tables) /\ CandidatesFit)
    OBVIOUS
  <2>1. Exposed' <=> Exposed
    BY <1>3 DEF Exposed
  <2>2. CandidatesFit' <=> CandidatesFit
    BY <1>3 DEF CandidatesFit
  <2>3. Guarded(tables)' <=> Guarded(tables)
    BY <1>3
  <2>. QED  BY <2>1, <2>2, <2>3
<1>5. CASE ParseStep
  <2>1. UNCHANGED <<tables, imports, candidates>> /\ phase' # "accepted"
    BY <1>5 DEF ParseStep, Parse, Discover, RejectBroken
  <2>. QED  BY <1>1, <1>4, <2>1 DEF PrivateInv
<1>6. CASE IndexEntities
  <2>1. tables' = OwnTables /\ candidates' = [i \in DOMAIN imports' |-> {}] /\ phase' # "accepted"
    BY <1>6 DEF IndexEntities
  <2>2. Guarded(tables)'
    BY <1>3, <2>1, OwnGuarded DEF PrivateInv, StateTyped
  <2>3. CandidatesFit'
    BY <2>1 DEF CandidatesFit
  <2>. QED  BY <1>1, <2>1, <2>2, <2>3 DEF PrivateInv
<1>7. CASE ImportTurn
  <2>1. phase' # "accepted"
    BY <1>7 DEF ImportTurn
  <2>. QED  BY <1>1, <1>2, <1>7, <2>1, PrivateTurn DEF PrivateInv
<1>8. CASE NextRound
  <2>1. UNCHANGED <<tables, imports, candidates>> /\ phase' # "accepted"
    BY <1>8 DEF NextRound
  <2>. QED  BY <1>1, <1>4, <2>1 DEF PrivateInv
<1>9. CASE Conclude
  <2>1. UNCHANGED <<tables, imports, candidates>>
    BY <1>9 DEF Conclude
  <2>2. ASSUME phase' = "accepted" PROVE ~ Exposed
    <3>1. \A i \in DOMAIN imports : "private re-export" \notin ImportErrors(i)
      BY <1>9, <2>2 DEF Conclude
    <3>2. \A i \in DOMAIN imports : ~ (imports[i].public /\ \E e \in candidates[i] : ~ IsPublic(e))
      BY <3>1 DEF ImportErrors
    <3>. QED  BY <3>2 DEF Exposed
  <2>. QED  BY <1>1, <1>4, <2>1, <2>2 DEF PrivateInv
<1>10. CASE UNCHANGED vars
  <2>1. UNCHANGED <<tables, imports, candidates, phase>>
    BY <1>10 DEF vars
  <2>. QED  BY <1>1, <1>4, <2>1 DEF PrivateInv
<1>. QED  BY <1>5, <1>6, <1>7, <1>8, <1>9, <1>10 DEF Next, Resolve

THEOREM PrivateInvariant == Spec => []PrivateInv
  BY PrivateInit, PrivateNext, PTL DEF Spec

LEMMA KeptPrivate == PrivateInv => PrivateStaysPrivate
<1>. SUFFICES ASSUME PrivateInv, phase = "accepted", NEW d \in tables.all, ~ IsPublic(d.target)
              PROVE d.in[1] = HomeOf(d.target)[1] /\ IsPrefix(HomeOf(d.target)[2], d.in[2])
  BY DEF PrivateStaysPrivate
<1>1. Fits(d.in, d.target)
  BY DEF PrivateInv, Guarded
<1>. QED  BY <1>1 DEF Fits, Descends

(* An accepted project, whatever its modules, re-exports and renamings,    *)
(* names private things only inside the module that declares them.         *)
THEOREM PrivateKept == Spec => []PrivateStaysPrivate
  BY PrivateInvariant, KeptPrivate, PTL
-----------------------------------------------------------------------------
(* More in the tables means more in reach, but for names of the language,  *)
(* which a value that is delivered later hides.                            *)
Below(s, t) ==
  /\ s.all \subseteq t.all /\ s.public \subseteq t.public
  /\ \A m, name : LanguageNamed(s.all, m, name) \subseteq LanguageNamed(t.all, m, name)

LEMMA AlongGrows ==
  ASSUME NEW s, NEW t, Below(s, t), NEW m, NEW path, NEW p, NEW q, p.found \subseteq q.found, NEW i
  PROVE  Along(s, m, path, p, i).found \subseteq Along(t, m, path, q, i).found
<1>. DEFINE OpenIn(u, r) == UNION {Open(u, m, c, path[i]) : c \in r.found}
            Named1(u) == IF i = 1 /\ Start(m, path).taken = 0 THEN LanguageNamed(u.all, m, path[i]) ELSE {}
            Kept(S) == IF i = Len(path) THEN S ELSE {e \in S : IsContainer(e)}
<1>1. \A c : Open(s, m, c, path[i]) \subseteq Open(t, m, c, path[i])
  BY DEF Open, DeliveriesNamed, Below
<1>2. OpenIn(s, p) \subseteq OpenIn(t, q)
  BY <1>1
<1>3. Named1(s) \subseteq Named1(t)
  BY DEF Below
<1>4. \A u, r : Along(u, m, path, r, i).found = Kept(OpenIn(u, r) \cup Named1(u))
  BY DEF Along
<1>. HIDE DEF OpenIn, Named1
<1>. QED  BY <1>2, <1>3, <1>4

LEMMA LookupGrows ==
  ASSUME NEW s, NEW t, Below(s, t), NEW m, NEW path \in Seq(STRING), path # <<>>
  PROVE  Lookup(s, m, path).found \subseteq Lookup(t, m, path).found
<1>. DEFINE n == Len(path) - Start(m, path).taken
            f == StatesAlong(s, m, path)
            g == StatesAlong(t, m, path)
            S == {k \in 0 .. n : f[k].found \subseteq g[k].found}
<1>1. n \in Nat
  BY TakenTyped, LenProperties
<1>2. f[0] = First(m, path) /\ g[0] = First(m, path)
  BY LookupSteps
<1>3. \A k \in 1 .. n : /\ f[k] = Along(s, m, path, f[k - 1], Start(m, path).taken + k)
                        /\ g[k] = Along(t, m, path, g[k - 1], Start(m, path).taken + k)
  BY LookupSteps
<1>4. \/ Lookup(s, m, path).found = {}
      \/ Lookup(s, m, path) = f[n] /\ Lookup(t, m, path) = g[n]
  BY LookupSteps
<1>. HIDE DEF n, f, g
<1>5. 0 \in S
  BY <1>1, <1>2
<1>6. ASSUME NEW k \in 1 .. n, k - 1 \in S PROVE k \in S
  <2>1. f[k - 1].found \subseteq g[k - 1].found /\ k \in 0 .. n
    BY <1>1, <1>6
  <2>2. Along(s, m, path, f[k - 1], Start(m, path).taken + k).found
          \subseteq Along(t, m, path, g[k - 1], Start(m, path).taken + k).found
    <3>. DEFINE p == f[k - 1]
                q == g[k - 1]
                i == Start(m, path).taken + k
    <3>1. p.found \subseteq q.found
      BY <2>1
    <3>. HIDE DEF p, q, i
    <3>2. Along(s, m, path, p, i).found \subseteq Along(t, m, path, q, i).found
      BY <3>1, AlongGrows
    <3>. QED  BY <3>2 DEF p, q, i
  <2>. QED  BY <1>3, <2>1, <2>2
<1>7. \A k \in 0 .. n : k \in S
  <2>1. \A k \in 1 .. n : k - 1 \in S => k \in S
    BY <1>6
  <2>. HIDE DEF S
  <2>. QED  BY <1>1, <1>5, <2>1, Upward
<1>8. n \in S
  BY <1>1, <1>7
<1>. QED  BY <1>4, <1>8

LEMMA LookupFixed ==
  ASSUME project' = project
  PROVE  \A t, m, path : Lookup(t, m, path)' = Lookup(t, m, path)
<1>. SUFFICES ASSUME NEW t, NEW m, NEW path PROVE Lookup(t, m, path)' = Lookup(t, m, path)
  OBVIOUS
<1>. DEFINE steps == [j \in 1 .. Len(path) - Start(m, path).taken |-> Start(m, path).taken + j]
            first == [found |-> {ModuleEntity(Start(m, path).module)}, hidden |-> {}]
            Is(g) == g = [k \in 0 .. Len(steps) |->
                            IF k = 0 THEN first
                            ELSE OnlyOne({Along(t, m, path, p, steps[k]) : p \in {g[k - 1]}})]
<1>1. \A p, i : Along(t, m, path, p, i)' = Along(t, m, path, p, i)
  <2>1. \A e : IsPublic(e)' <=> IsPublic(e)
    BY PublicFixed
  <2>2. \A c : Members(c)' = Members(c)
    BY DEF Members
  <2>3. \A c, name : Open(t, m, c, name)' = Open(t, m, c, name)
    BY <2>1, <2>2 DEF Open
  <2>4. \A c, name : ShutOut(t, m, c, name)' = ShutOut(t, m, c, name)
    BY <2>1, <2>2 DEF ShutOut
  <2>5. \A e : IsContainer(e)' <=> IsContainer(e)
    BY <2>2 DEF IsContainer
  <2>. SUFFICES ASSUME NEW p, NEW i PROVE Along(t, m, path, p, i)' = Along(t, m, path, p, i)
    OBVIOUS
  <2>. DEFINE open == UNION {Open(t, m, c, path[i]) : c \in p.found}
              named == IF i = 1 /\ Start(m, path).taken = 0 THEN LanguageNamed(t.all, m, path[i]) ELSE {}
              shut == UNION {ShutOut(t, m, c, path[i]) : c \in p.found}
              Kept(S) == IF i = Len(path) THEN S ELSE {e \in S : IsContainer(e)}
  <2>6. open' = open /\ shut' = shut
    BY <2>3, <2>4
  <2>7. \A S : Kept(S)' = Kept(S)
    BY <2>5
  <2>8. Along(t, m, path, p, i) = [found |-> Kept(open \cup named), hidden |-> p.hidden \cup Kept(shut)]
    BY DEF Along
  <2>9. Along(t, m, path, p, i)' = [found |-> Kept(open \cup named)', hidden |-> p.hidden \cup Kept(shut)']
    BY DEF Along
  <2>10. Kept(open \cup named)' = Kept(open \cup named) /\ Kept(shut)' = Kept(shut)
    BY <2>6, <2>5
  <2>. HIDE DEF open, named, shut, Kept
  <2>. QED  BY <2>8, <2>9, <2>10
<1>2. \A g : Is(g)' <=> Is(g)
  <2>. SUFFICES ASSUME NEW g PROVE Is(g)' <=> Is(g)
    OBVIOUS
  <2>. DEFINE Value(k) == IF k = 0 THEN first ELSE OnlyOne({Along(t, m, path, p, steps[k]) : p \in {g[k - 1]}})
  <2>1. \A k : {Along(t, m, path, p, steps[k])' : p \in {g[k - 1]}} = {Along(t, m, path, p, steps[k]) : p \in {g[k - 1]}}
    BY <1>1
  <2>2. \A k : Value(k)' = Value(k)
    BY <2>1
  <2>3. Is(g) <=> g = [k \in 0 .. Len(steps) |-> Value(k)]
    OBVIOUS
  <2>4. Is(g)' <=> g = [k \in 0 .. Len(steps) |-> Value(k)']
    OBVIOUS
  <2>. HIDE DEF Value, Is
  <2>. QED  BY <2>2, <2>3, <2>4
<1>. DEFINE before == CHOOSE g : Is(g)
            after == CHOOSE g : Is(g)'
<1>3. Lookup(t, m, path) = IF Escapes(m, path) THEN [found |-> {}, hidden |-> {}] ELSE before[Len(steps)]
  BY DEF Lookup, After
<1>4. Lookup(t, m, path)' = IF Escapes(m, path) THEN [found |-> {}, hidden |-> {}]
                           ELSE after[Len(steps)]
  BY DEF Lookup, After
<1>. HIDE DEF Is, steps
<1>5. after = before
  BY <1>2
<1>. HIDE DEF before, after
<1>. QED  BY <1>3, <1>4, <1>5
-----------------------------------------------------------------------------
(* Values of the language are hidden by declarations only, not by imports. *)
HiddenIn(t) ==
  \A d \in t.all, e \in Language :
    d.namespace = "value" /\ e.namespace = "value" /\ d.name = e.name
      => \E own \in OwnTables.all : own.in = d.in /\ own.name = d.name /\ own.namespace = "value"
HiddenByDeclarations == HiddenIn(tables)
Meant(i) == Lookup(tables, imports[i].module, imports[i].path).found
Indexed == turn > 0
FindInv ==
  /\ StateTyped
  /\ phase \in {"parse", "closed"} => ~ Indexed
  /\ Indexed =>
       /\ OwnTables.all \subseteq tables.all
       /\ HiddenByDeclarations => \A i \in DOMAIN imports : candidates[i] \subseteq Meant(i)
       /\ ~ changed => \A i \in DOMAIN imports : i < turn => Meant(i) \subseteq candidates[i]

LEMMA OwnFixed == project' = project /\ attempted' = attempted => OwnTables' = OwnTables
<1>. SUFFICES ASSUME project' = project, attempted' = attempted PROVE OwnTables' = OwnTables
  OBVIOUS
<1>1. \A e : IsPublic(e)' <=> IsPublic(e)
  BY PublicFixed
<1>2. Parsed' = Parsed /\ Inline' = Inline
  BY DEF Parsed, Inline
<1>3. \A m : FileOf(m)' = FileOf(m)
  BY <1>2 DEF FileOf
<1>4. KnownModules(Parsed)' = KnownModules(Parsed)
  <2>1. Inventory' = Inventory
    BY DEF Inventory
  <2>. QED  BY <1>2, <2>1 DEF KnownModules
<1>. DEFINE children == {Delivery(Parent(m), Last(m[2]), ModuleEntity(m)) : m \in {x \in KnownModules(Parsed) : x[2] # <<>>}}
            roots == {Delivery(Root(d[1]), d[2], ModuleEntity(Root(d[3]))) : d \in project.dependencies}
            declared == {Delivery(e.module, e.name, e) :
                           e \in {f \in project.entities : f.owner = "" /\ FileOf(f.module) \in Parsed}}
            public == {d \in children \cup declared : IsPublic(d.target)}
<1>5. children' = children /\ roots' = roots
  BY <1>4
<1>6. declared' = declared
  BY <1>2, <1>3
<1>7. public' = public
  BY <1>1, <1>5, <1>6
<1>8. OwnTables = [all |-> children \cup roots \cup declared, public |-> public]
  BY DEF OwnTables
<1>9. OwnTables' = [all |-> children' \cup roots' \cup declared', public |-> public']
  BY DEF OwnTables
<1>. HIDE DEF children, roots, declared, public
<1>. QED  BY <1>5, <1>6, <1>7, <1>8, <1>9

(* While only declarations hide, larger tables have more in reach.         *)
LEMMA LanguageGrows ==
  ASSUME NEW s, NEW t, NEW own, own \subseteq s.all, s.all \subseteq t.all, s.public \subseteq t.public,
         \A d \in t.all, e \in Language :
           d.namespace = "value" /\ e.namespace = "value" /\ d.name = e.name
             => \E o \in own : o.in = d.in /\ o.name = d.name /\ o.namespace = "value"
  PROVE  Below(s, t)
<1>. SUFFICES ASSUME NEW m, NEW name, NEW e \in LanguageNamed(s.all, m, name) PROVE e \in LanguageNamed(t.all, m, name)
  BY DEF Below
<1>1. /\ e \in Language /\ e.name = name
      /\ e.namespace = "value" => ~ \E d \in s.all : d.in = m /\ d.name = name /\ d.namespace = "value"
  BY DEF LanguageNamed
<1>2. e.namespace = "value" => ~ \E d \in t.all : d.in = m /\ d.name = name /\ d.namespace = "value"
  BY <1>1
<1>. QED  BY <1>1, <1>2 DEF LanguageNamed

LEMMA FindTurn ==
  ASSUME FindInv, Resolve, project' = project
  PROVE  FindInv'
<1>. DEFINE import == imports[turn]
            found == Lookup(tables, import.module, import.path).found
            new == {Delivery(import.module, import.local, e) : e \in candidates'[turn]}
<1>1. /\ turn \in DOMAIN imports /\ imports' = imports /\ phase' = phase /\ phase = "import"
      /\ attempted' = attempted /\ turn' = turn + 1 /\ Indexed /\ Indexed' /\ turn \in Nat
  BY TurnTyped DEF FindInv, StateTyped, Resolve, ImportTurn, Indexed
<1>2. \A j \in DOMAIN imports : candidates'[j] = IF j = turn THEN candidates[j] \cup found ELSE candidates[j]
  BY <1>1 DEF FindInv, StateTyped, Resolve, ImportTurn
<1>3. tables'.all = tables.all \cup new /\ tables.public \subseteq tables'.public
  BY DEF Resolve, ImportTurn, Deliver
<1>4. StateTyped'
  BY TypedNext DEF FindInv, Next
<1>5. OwnTables' = OwnTables
  BY <1>1, OwnFixed
<1>6. OwnTables.all \subseteq tables.all
  BY <1>1 DEF FindInv
<1>7. \A j \in DOMAIN imports : imports[j].path \in Seq(STRING) /\ imports[j].path # <<>>
  <2>1. \A j \in DOMAIN imports : imports[j] \in Imported
    BY DEF FindInv, StateTyped
  <2>. QED  BY <2>1 DEF Imported
<1>8. \A j : Meant(j)' = Lookup(tables', imports[j].module, imports[j].path).found
  BY <1>1, LookupFixed DEF Meant
<1>. HIDE DEF import, new
<1>9. ASSUME HiddenByDeclarations', NEW j \in DOMAIN imports PROVE candidates'[j] \subseteq Meant(j)'
  <2>1. Below(tables, tables')
    BY <1>3, <1>5, <1>6, <1>9, LanguageGrows DEF HiddenByDeclarations, HiddenIn
  <2>2. HiddenByDeclarations
    BY <1>3, <1>5, <1>9 DEF HiddenByDeclarations, HiddenIn
  <2>3. candidates[j] \subseteq Meant(j)
    BY <1>1, <2>2 DEF FindInv
  <2>4. candidates'[j] \subseteq Meant(j)
    BY <1>2, <2>3 DEF Meant, found, import
  <2>5. Meant(j) \subseteq Meant(j)'
    BY <1>7, <1>8, <2>1, LookupGrows DEF Meant
  <2>. QED  BY <2>4, <2>5
<1>10. ASSUME ~ changed', NEW j \in DOMAIN imports, j < turn' PROVE Meant(j)' \subseteq candidates'[j]
  <2>1. ~ changed /\ ~ Grown
    BY <1>10 DEF Resolve
  <2>2. tables' = tables /\ candidates' = candidates
    BY <2>1 DEF Grown
  <2>3. Meant(j)' = Meant(j)
    BY <1>8, <2>2 DEF Meant
  <2>4. CASE j = turn
    BY <1>2, <2>2, <2>3, <2>4 DEF Meant, found, import
  <2>5. CASE j # turn
    <3>1. DOMAIN imports \subseteq Int
      BY LenProperties DEF FindInv, StateTyped
    <3>2. j < turn
      BY <1>1, <1>10, <2>5, <3>1
    <3>. QED  BY <1>1, <2>1, <2>2, <2>3, <3>2 DEF FindInv
  <2>. QED  BY <2>4, <2>5
<1>11. OwnTables'.all \subseteq tables'.all
  BY <1>3, <1>5, <1>6
<1>. QED  BY <1>1, <1>4, <1>9, <1>10, <1>11 DEF FindInv

LEMMA FindInit == Init => FindInv
  BY PrivateInit DEF PrivateInv, FindInv, Init, Indexed

LEMMA FindNext == FindInv /\ [Next]_vars => FindInv'
<1>. SUFFICES ASSUME FindInv, [Next]_vars PROVE FindInv'
  OBVIOUS
<1>1. StateTyped'
  BY TypedNext DEF FindInv
<1>2. project' = project
  BY DEF Next, ParseStep, Parse, Discover, RejectBroken, IndexEntities, Resolve, ImportTurn, NextRound, Conclude, vars
<1>3. ASSUME UNCHANGED <<tables, imports, candidates, attempted>>
      PROVE  /\ OwnTables' = OwnTables
             /\ HiddenByDeclarations' <=> HiddenByDeclarations
             /\ \A i : Meant(i)' = Meant(i)
  <2>1. OwnTables' = OwnTables
    BY <1>2, <1>3, OwnFixed
  <2>2. HiddenByDeclarations' <=> HiddenByDeclarations
    BY <1>3, <2>1 DEF HiddenByDeclarations, HiddenIn
  <2>3. \A i : Meant(i)' = Meant(i)
    BY <1>2, <1>3, LookupFixed DEF Meant
  <2>. QED  BY <2>1, <2>2, <2>3
<1>4. CASE ParseStep
  <2>1. turn' = turn /\ ~ Indexed
    BY <1>4 DEF ParseStep, Parse, Discover, RejectBroken, FindInv
  <2>. QED  BY <1>1, <2>1 DEF FindInv, Indexed
<1>5. CASE IndexEntities
  <2>1. /\ tables' = OwnTables /\ candidates' = [i \in DOMAIN imports' |-> {}] /\ turn' = 1
        /\ phase' \in {"import", "rejected"} /\ attempted' = attempted
    BY <1>5 DEF IndexEntities
  <2>2. OwnTables' = OwnTables
    BY <1>2, <2>1, OwnFixed
  <2>3. \A i \in DOMAIN imports' : ~ i < turn'
    BY <1>1, <2>1, LenProperties DEF StateTyped
  <2>. QED  BY <1>1, <2>1, <2>2, <2>3 DEF FindInv, Indexed
<1>6. CASE Resolve
  BY <1>2, <1>6, FindTurn
<1>7. CASE NextRound
  <2>1. /\ UNCHANGED <<tables, imports, candidates, attempted>>
        /\ turn' = 1 /\ phase' = "import" /\ Indexed
    BY <1>7 DEF NextRound, FindInv, StateTyped, Indexed
  <2>2. \A i \in DOMAIN imports' : ~ i < turn'
    BY <1>1, <2>1, LenProperties DEF StateTyped
  <2>. QED  BY <1>1, <1>3, <2>1, <2>2 DEF FindInv, Indexed
<1>8. CASE Conclude
  <2>1. /\ UNCHANGED <<tables, imports, candidates, attempted, turn, changed>>
        /\ phase' \in {"accepted", "rejected"}
    BY <1>8 DEF Conclude
  <2>. QED  BY <1>1, <1>3, <2>1 DEF FindInv, Indexed
<1>9. CASE UNCHANGED vars
  <2>1. UNCHANGED <<tables, imports, candidates, attempted, turn, changed, phase>>
    BY <1>9 DEF vars
  <2>. QED  BY <1>1, <1>3, <2>1 DEF FindInv, Indexed
<1>. QED  BY <1>4, <1>5, <1>6, <1>7, <1>8, <1>9 DEF Next

THEOREM FindInvariant == Spec => []FindInv
  BY FindInit, FindNext, PTL DEF Spec

LEMMA FoundAtEnd == FindInv => (HiddenByDeclarations => FindingsStand)
<1>. SUFFICES ASSUME FindInv, HiddenByDeclarations, Settled, NEW i \in DOMAIN imports
              PROVE candidates[i] = Lookup(tables, imports[i].module, imports[i].path).found
  BY DEF FindingsStand
<1>1. Indexed /\ ~ changed /\ i < turn
  <2>1. turn > Len(imports) /\ turn > 0 /\ ~ changed
    BY DEF Settled
  <2>2. i \in 1 .. Len(imports) /\ Len(imports) \in Nat /\ turn \in Nat
    BY LenProperties DEF FindInv, StateTyped
  <2>. QED  BY <2>1, <2>2 DEF Indexed
<1>. QED  BY <1>1 DEF FindInv, Meant

(* When the tables have settled, every import means what its path means in *)
(* them, no less and no more, whatever the order in which imports were     *)
(* taken.  The exception is a value of the language's name that an import  *)
(* delivers: it takes a meaning away from imports that were found to have  *)
(* it.                                                                     *)
THEOREM FindingsHold == Spec => [](HiddenByDeclarations => FindingsStand)
  BY FindInvariant, FoundAtEnd, PTL
-----------------------------------------------------------------------------
(* The tables hold what modules declare and what imports deliver, and      *)
(* nothing that some other tables which do so are without.                 *)
Within(s, t) == s.all \subseteq t.all /\ s.public \subseteq t.public
IsTables(t) == t = [all |-> t.all, public |-> t.public]
MeantIn(t, i) == Lookup(t, imports[i].module, imports[i].path).found
Delivers(t) == \A i \in DOMAIN imports : Within(Deliver(t, imports[i], MeantIn(t, i)), t)
Closed(t) == Within(OwnTables, t) /\ HiddenIn(t) /\ Delivers(t)
TablesAreLeast == Settled => Closed(tables) /\ \A t : Closed(t) => Within(tables, t)
LeastInv ==
  Indexed =>
    /\ IsTables(tables) /\ Within(OwnTables, tables)
    /\ \A i \in DOMAIN imports : Within(Deliver(tables, imports[i], candidates[i]), tables)
    /\ \A t : Closed(t) => /\ Within(tables, t)
                           /\ \A i \in DOMAIN imports : candidates[i] \subseteq MeantIn(t, i)

LEMMA PathsTyped ==
  StateTyped => \A i \in DOMAIN imports : imports[i].path \in Seq(STRING) /\ imports[i].path # <<>>
<1>1. StateTyped => \A i \in DOMAIN imports : imports[i] \in Imported
  BY DEF StateTyped
<1>. QED  BY <1>1 DEF Imported

LEMMA WithinBelow == \A s, t : Within(OwnTables, s) /\ Within(s, t) /\ HiddenIn(t) => Below(s, t)
<1>. SUFFICES ASSUME NEW s, NEW t, Within(OwnTables, s), Within(s, t), HiddenIn(t) PROVE Below(s, t)
  OBVIOUS
<1>. QED  BY LanguageGrows DEF Within, HiddenIn

LEMMA DeliverGrows ==
  ASSUME NEW s, NEW t, Within(s, t), NEW import, NEW A, NEW B, A \subseteq B
  PROVE  Within(Deliver(s, import, A), Deliver(t, import, B)) /\ Within(s, Deliver(s, import, A))
<1>. DEFINE new(S) == {Delivery(import.module, import.local, e) : e \in S}
<1>1. new(A) \subseteq new(B)
  OBVIOUS
<1>2. \A u, S : /\ Deliver(u, import, S).all = u.all \cup new(S)
                /\ Deliver(u, import, S).public = u.public \cup (IF import.public THEN new(S) ELSE {})
  BY DEF Deliver
<1>. HIDE DEF new
<1>. QED  BY <1>1, <1>2 DEF Within

LEMMA DeliverIsTables == \A t, import, S : IsTables(Deliver(t, import, S))
<1>. SUFFICES ASSUME NEW t, NEW import, NEW S PROVE IsTables(Deliver(t, import, S))
  OBVIOUS
<1>. DEFINE new == {Delivery(import.module, import.local, e) : e \in S}
            all == t.all \cup new
            public == t.public \cup (IF import.public THEN new ELSE {})
<1>1. Deliver(t, import, S) = [all |-> all, public |-> public]
  BY DEF Deliver
<1>. HIDE DEF all, public
<1>. QED  BY <1>1 DEF IsTables

LEMMA WithinTransitive == \A s, t, u : Within(s, t) /\ Within(t, u) => Within(s, u)
  BY DEF Within

LEMMA LeastFixed ==
  ASSUME project' = project, attempted' = attempted, imports' = imports
  PROVE  /\ OwnTables' = OwnTables
         /\ \A t, i : MeantIn(t, i)' = MeantIn(t, i)
         /\ \A t : Closed(t)' <=> Closed(t)
<1>1. OwnTables' = OwnTables
  BY OwnFixed
<1>2. \A t, i : MeantIn(t, i)' = MeantIn(t, i)
  BY LookupFixed DEF MeantIn
<1>3. \A t : HiddenIn(t)' <=> HiddenIn(t)
  BY <1>1 DEF HiddenIn
<1>4. \A t : Delivers(t)' <=> Delivers(t)
  BY <1>2 DEF Delivers
<1>. QED  BY <1>1, <1>2, <1>3, <1>4 DEF Closed

LEMMA LeastTurn ==
  ASSUME StateTyped, LeastInv, ImportTurn, project' = project
  PROVE  LeastInv'
<1>. DEFINE import == imports[turn]
<1>1. /\ turn \in DOMAIN imports /\ imports' = imports /\ attempted' = attempted /\ Indexed
      /\ import.path \in Seq(STRING) /\ import.path # <<>>
  BY TurnTyped DEF StateTyped, ImportTurn, Indexed
<1>2. \A j \in DOMAIN imports : candidates'[j] = IF j = turn THEN candidates[j] \cup MeantIn(tables, j) ELSE candidates[j]
  BY <1>1 DEF StateTyped, ImportTurn, MeantIn
<1>3. tables' = Deliver(tables, import, candidates'[turn])
  BY DEF ImportTurn
<1>4. /\ OwnTables' = OwnTables
      /\ \A t, i : MeantIn(t, i)' = MeantIn(t, i)
      /\ \A t : Closed(t)' <=> Closed(t)
  BY <1>1, LeastFixed
<1>5. Within(tables, tables)
  BY DEF Within
<1>6. Within(tables, tables') /\ IsTables(tables')
  <2>1. IsTables(tables')
    BY <1>3, DeliverIsTables
  <2>. QED  BY <1>3, <1>5, <2>1, DeliverGrows
<1>. HIDE DEF import
<1>7. ASSUME NEW j \in DOMAIN imports PROVE Within(Deliver(tables', imports[j], candidates'[j]), tables')
  <2>1. CASE j = turn
    BY <1>3, <2>1 DEF Within, Deliver, import
  <2>2. CASE j # turn
    <3>1. Within(Deliver(tables, imports[j], candidates[j]), tables) /\ candidates'[j] = candidates[j]
      BY <1>1, <1>2, <2>2 DEF LeastInv
    <3>. QED  BY <1>6, <3>1 DEF Within, Deliver
  <2>. QED  BY <2>1, <2>2
<1>8. ASSUME NEW t, Closed(t)
      PROVE  Within(tables', t) /\ \A i \in DOMAIN imports : candidates'[i] \subseteq MeantIn(t, i)
  <2>1. Within(OwnTables, tables) /\ Within(tables, t) /\ \A i \in DOMAIN imports : candidates[i] \subseteq MeantIn(t, i)
    BY <1>1, <1>8 DEF LeastInv
  <2>2. Below(tables, t)
    BY <1>8, <2>1, WithinBelow DEF Closed
  <2>3. MeantIn(tables, turn) \subseteq MeantIn(t, turn)
    BY <1>1, <2>2, LookupGrows DEF MeantIn, import
  <2>4. \A i \in DOMAIN imports : candidates'[i] \subseteq MeantIn(t, i)
    BY <1>2, <2>1, <2>3
  <2>5. candidates'[turn] \subseteq MeantIn(t, turn)
    BY <1>1, <2>4
  <2>6. Within(Deliver(tables, import, candidates'[turn]), Deliver(t, import, MeantIn(t, turn)))
    BY <2>1, <2>5, DeliverGrows
  <2>7. Within(Deliver(t, import, MeantIn(t, turn)), t)
    BY <1>1, <1>8 DEF Closed, Delivers, import
  <2>. QED  BY <1>3, <2>4, <2>6, <2>7, WithinTransitive
<1>9. Within(OwnTables, tables')
  BY <1>1, <1>6, WithinTransitive DEF LeastInv
<1>. QED  BY <1>1, <1>4, <1>6, <1>7, <1>8, <1>9 DEF LeastInv

LEMMA LeastNext == StateTyped /\ FindInv /\ LeastInv /\ [Next]_vars => LeastInv'
<1>. SUFFICES ASSUME StateTyped, FindInv, LeastInv, [Next]_vars PROVE LeastInv'
  OBVIOUS
<1>1. project' = project
  BY DEF Next, ParseStep, Parse, Discover, RejectBroken, IndexEntities, Resolve, ImportTurn, NextRound, Conclude, vars
<1>2. CASE ParseStep
  <2>1. turn' = turn /\ ~ Indexed
    BY <1>2 DEF ParseStep, Parse, Discover, RejectBroken, FindInv
  <2>. QED  BY <2>1 DEF LeastInv, Indexed
<1>3. CASE IndexEntities
  <2>1. tables' = OwnTables /\ candidates' = [i \in DOMAIN imports' |-> {}] /\ attempted' = attempted
    BY <1>3 DEF IndexEntities
  <2>2. OwnTables' = OwnTables
    BY <1>1, <2>1, OwnFixed
  <2>3. IsTables(tables') /\ Within(OwnTables, tables')
    BY <2>1 DEF IsTables, OwnTables, Within
  <2>4. \A i \in DOMAIN imports' : Within(Deliver(tables', imports'[i], candidates'[i]), tables')
    BY <2>1 DEF Within, Deliver
  <2>5. \A t : Closed(t)' => /\ Within(tables', t)
                             /\ \A i \in DOMAIN imports' : candidates'[i] \subseteq MeantIn(t, i)'
    BY <2>1, <2>2 DEF Closed
  <2>. QED  BY <2>2, <2>3, <2>4, <2>5 DEF LeastInv
<1>4. CASE Resolve
  BY <1>1, <1>4, LeastTurn DEF Resolve
<1>5. ASSUME UNCHANGED <<tables, imports, candidates, attempted>>, Indexed' <=> Indexed PROVE LeastInv'
  <2>1. /\ OwnTables' = OwnTables
        /\ \A t, i : MeantIn(t, i)' = MeantIn(t, i)
        /\ \A t : Closed(t)' <=> Closed(t)
    BY <1>1, <1>5, LeastFixed
  <2>. QED  BY <1>5, <2>1 DEF LeastInv
<1>6. CASE NextRound
  <2>1. UNCHANGED <<tables, imports, candidates, attempted>> /\ Indexed /\ Indexed'
    BY <1>6 DEF NextRound, FindInv, StateTyped, Indexed
  <2>. QED  BY <1>5, <2>1
<1>7. CASE Conclude
  BY <1>5, <1>7 DEF Conclude, Indexed
<1>8. CASE UNCHANGED vars
  BY <1>5, <1>8 DEF vars, Indexed
<1>. QED  BY <1>2, <1>3, <1>4, <1>6, <1>7, <1>8 DEF Next

LEMMA LeastAtEnd == FindInv /\ LeastInv => (HiddenByDeclarations => TablesAreLeast)
<1>. SUFFICES ASSUME FindInv, LeastInv, HiddenByDeclarations, Settled
              PROVE Closed(tables) /\ \A t : Closed(t) => Within(tables, t)
  BY DEF TablesAreLeast
<1>1. \A i \in DOMAIN imports : candidates[i] = MeantIn(tables, i)
  BY FoundAtEnd DEF FindingsStand, MeantIn
<1>2. Indexed
  BY DEF Settled, Indexed
<1>3. Delivers(tables)
  BY <1>1, <1>2 DEF Delivers, LeastInv
<1>. QED  BY <1>2, <1>3 DEF LeastInv, Closed, HiddenByDeclarations

THEOREM LeastInvariant == Spec => []LeastInv
<1>1. Init => LeastInv
  BY DEF Init, LeastInv, Indexed
<1>2. FindInv => StateTyped
  BY DEF FindInv
<1>. QED  BY <1>1, <1>2, LeastNext, FindInvariant, PTL DEF Spec

(* The tables that imports settle on are the least that hold what modules  *)
(* declare and what the imports deliver, which leaves their order nothing  *)
(* to decide; but see FindingsHold for names of the language.              *)
THEOREM LeastTables == Spec => [](HiddenByDeclarations => TablesAreLeast)
  BY FindInvariant, LeastInvariant, LeastAtEnd, PTL

(* The imports taken backwards, from where the tables begin.               *)
Turns == FlattenSeq([round \in 1 .. Len(imports) + 1 |-> Reverse(imports)])
OneTurn(t, import) == Deliver(t, import, Lookup(t, import.module, import.path).found)
AreTurned(f) ==
  f = [n \in 0 .. Len(Turns) |->
         IF n = 0 THEN OwnTables ELSE OnlyOne({OneTurn(prior, Turns[n]) : prior \in {f[n - 1]}})]
Turned == CHOOSE f : AreTurned(f)

LEMMA TurnsTyped ==
  StateTyped => Turns \in Seq({imports[i] : i \in DOMAIN imports})
<1>. SUFFICES ASSUME StateTyped PROVE Turns \in Seq({imports[i] : i \in DOMAIN imports})
  OBVIOUS
<1>. DEFINE S == {imports[i] : i \in DOMAIN imports}
            n == Len(imports)
            seqs == [round \in 1 .. n + 1 |-> Reverse(imports)]
<1>1. n \in Nat /\ DOMAIN imports = 1 .. n
  BY LenProperties DEF StateTyped
<1>2. \A i \in 1 .. n : imports[(n - i) + 1] \in S
  BY <1>1
<1>3. Reverse(imports) = [i \in 1 .. n |-> imports[(n - i) + 1]]
  BY DEF Reverse
<1>. HIDE DEF n, S
<1>4. Reverse(imports) \in Seq(S)
  <2>1. Reverse(imports) \in [1 .. n -> S]
    BY <1>2, <1>3
  <2>. QED  BY <1>1, <2>1
<1>5. seqs \in Seq(Seq(S))
  <2>1. seqs \in [1 .. n + 1 -> Seq(S)] /\ n + 1 \in Nat
    BY <1>1, <1>4
  <2>. QED  BY <2>1
<1>. HIDE DEF seqs
<1>6. FlattenSeq(seqs) \in Seq(S)
  BY <1>5, FlatTyped
<1>. QED  BY <1>6 DEF Turns, S, n, seqs

LEMMA TurnedExists == StateTyped => AreTurned(Turned)
<1>. SUFFICES ASSUME StateTyped PROVE AreTurned(Turned)
  OBVIOUS
<1>. DEFINE n == Len(Turns)
            Next1(prior, i) == OnlyOne({OneTurn(p, Turns[i]) : p \in {prior}})
            Is(i, f) == f = [k \in 0 .. i |-> IF k = 0 THEN OwnTables ELSE Next1(f[k - 1], k)]
            S == {i \in 0 .. n : \E f : Is(i, f)}
<1>0. n \in Nat
  BY TurnsTyped, LenProperties
<1>. HIDE DEF n, Next1
<1>1. 0 \in S
  <2>1. Is(0, [k \in 0 .. 0 |-> OwnTables])
    OBVIOUS
  <2>. HIDE DEF Is
  <2>. QED  BY <1>0, <2>1
<1>2. ASSUME NEW i \in 1 .. n, i - 1 \in S PROVE i \in S
  <2>1. PICK f : Is(i - 1, f)
    BY <1>2
  <2>. DEFINE g == [k \in 0 .. i |-> IF k = i THEN Next1(f[i - 1], i) ELSE f[k]]
  <2>2. \A k \in 0 .. i : g[k] = IF k = 0 THEN OwnTables ELSE Next1(g[k - 1], k)
    <3>. SUFFICES ASSUME NEW k \in 0 .. i
                  PROVE g[k] = IF k = 0 THEN OwnTables ELSE Next1(g[k - 1], k)
      OBVIOUS
    <3>1. k # 0 => g[k - 1] = f[k - 1]
      BY <1>0
    <3>2. CASE k = i
      BY <1>0, <3>1, <3>2
    <3>3. CASE k # i
      <4>1. k \in 0 .. i - 1
        BY <1>0, <3>3
      <4>2. f[k] = IF k = 0 THEN OwnTables ELSE Next1(f[k - 1], k)
        BY <4>1, <2>1
      <4>. QED  BY <1>0, <3>1, <3>3, <4>2
    <3>. QED  BY <3>2, <3>3
  <2>3. g = [k \in 0 .. i |-> g[k]]
    OBVIOUS
  <2>. HIDE DEF g
  <2>4. g = [k \in 0 .. i |-> IF k = 0 THEN OwnTables ELSE Next1(g[k - 1], k)]
    BY <2>2, <2>3
  <2>. QED  BY <2>4, <1>0
<1>3. n \in S
  <2>1. \A k \in 1 .. n : k - 1 \in S => k \in S
    BY <1>2
  <2>. HIDE DEF S
  <2>. QED  BY <1>0, <1>1, <2>1, Upward
<1>4. PICK f : Is(n, f)
  BY <1>3
<1>5. AreTurned(f)
  BY <1>4 DEF AreTurned, n, Next1
<1>. HIDE DEF Is, S
<1>. QED  BY <1>5, Zenon DEF Turned

(* They stay within tables that are closed.                                *)
LEMMA BackwardsWithin ==
  ASSUME StateTyped, NEW t, Closed(t)
  PROVE  IsTables(Backwards) /\ Within(OwnTables, Backwards) /\ Within(Backwards, t)
<1>. DEFINE n == Len(Turns)
            f == Turned
            Good(s) == IsTables(s) /\ Within(OwnTables, s) /\ Within(s, t)
            S == {k \in 0 .. n : Good(f[k])}
            Is(g) == g = [k \in 0 .. Len(Turns) |->
                            IF k = 0 THEN OwnTables ELSE OnlyOne({OneTurn(p, Turns[k]) : p \in {g[k - 1]}})]
<1>1. n \in Nat /\ \A k \in 1 .. n : \E i \in DOMAIN imports : Turns[k] = imports[i]
  <2>. DEFINE T == {imports[i] : i \in DOMAIN imports}
  <2>1. Turns \in Seq(T)
    BY TurnsTyped
  <2>. HIDE DEF T
  <2>2. n \in Nat /\ \A k \in 1 .. n : Turns[k] \in T
    BY <2>1, LenProperties, ElementOfSeq
  <2>. QED  BY <2>2 DEF T
<1>2. Is(f)
  BY TurnedExists DEF AreTurned
<1>3. Backwards = f[n]
  <2>1. Backwards = (CHOOSE g : Is(g))[n]
    BY DEF Backwards, After, Turns, OneTurn
  <2>2. f = CHOOSE g : Is(g)
    BY DEF Turned, AreTurned
  <2>. QED  BY <2>1, <2>2
<1>. HIDE DEF n, f
<1>4. \A k \in 0 .. n : f[k] = IF k = 0 THEN OwnTables ELSE OneTurn(f[k - 1], Turns[k])
  BY <1>1, <1>2 DEF OnlyOne, n
<1>5. 0 \in S
  <2>1. f[0] = OwnTables
    BY <1>1, <1>4
  <2>2. Good(OwnTables)
    BY DEF Closed, Within, IsTables, OwnTables
  <2>. QED  BY <1>1, <2>1, <2>2
<1>6. ASSUME NEW k \in 1 .. n, k - 1 \in S PROVE k \in S
  <2>. DEFINE s == f[k - 1]
  <2>1. PICK i \in DOMAIN imports : Turns[k] = imports[i]
    BY <1>1
  <2>2. f[k] = OneTurn(s, imports[i]) /\ k \in 0 .. n
    BY <1>1, <1>4, <2>1
  <2>3. Good(s)
    BY <1>6
  <2>. HIDE DEF s
  <2>4. f[k] = Deliver(s, imports[i], MeantIn(s, i))
    BY <2>2 DEF OneTurn, MeantIn
  <2>5. Below(s, t)
    BY <2>3, WithinBelow DEF Closed
  <2>6. MeantIn(s, i) \subseteq MeantIn(t, i)
    BY <2>5, PathsTyped, LookupGrows DEF MeantIn
  <2>7. /\ Within(Deliver(s, imports[i], MeantIn(s, i)), Deliver(t, imports[i], MeantIn(t, i)))
        /\ Within(s, Deliver(s, imports[i], MeantIn(s, i)))
    BY <2>3, <2>6, DeliverGrows
  <2>8. Within(Deliver(t, imports[i], MeantIn(t, i)), t)
    BY DEF Closed, Delivers
  <2>9. Good(f[k])
    BY <2>3, <2>4, <2>7, <2>8, DeliverIsTables, WithinTransitive
  <2>. QED  BY <2>2, <2>9
<1>7. \A k \in 0 .. n : k \in S
  <2>1. \A k \in 1 .. n : k - 1 \in S => k \in S
    BY <1>6
  <2>. HIDE DEF S
  <2>. QED  BY <1>1, <1>5, <2>1, Upward
<1>8. Good(f[n])
  BY <1>1, <1>7
<1>. QED  BY <1>3, <1>8

LEMMA OrderAtEnd ==
  FindInv /\ LeastInv => (HiddenByDeclarations /\ Delivers(Backwards) => OrderHasNoPriority)
<1>. SUFFICES ASSUME FindInv, LeastInv, HiddenByDeclarations, Delivers(Backwards), Settled
              PROVE tables = Backwards
  BY DEF OrderHasNoPriority
<1>1. Closed(tables) /\ \A t : Closed(t) => Within(tables, t)
  BY LeastAtEnd DEF TablesAreLeast
<1>2. IsTables(Backwards) /\ Within(OwnTables, Backwards) /\ Within(Backwards, tables)
  BY <1>1, BackwardsWithin DEF FindInv
<1>3. HiddenIn(Backwards)
  BY <1>2 DEF HiddenByDeclarations, HiddenIn, Within
<1>4. Within(tables, Backwards)
  BY <1>1, <1>2, <1>3 DEF Closed
<1>5. tables.all = Backwards.all /\ tables.public = Backwards.public
  BY <1>2, <1>4 DEF Within
<1>6. IsTables(tables)
  BY DEF LeastInv, Settled, Indexed
<1>. QED  BY <1>2, <1>5, <1>6 DEF IsTables

(* The opposite order makes the same tables, once its rounds too have come *)
(* to where nothing more is delivered.                                     *)
THEOREM OrderDecidesNothing ==
  Spec => [](HiddenByDeclarations /\ Delivers(Backwards) => OrderHasNoPriority)
  BY FindInvariant, LeastInvariant, OrderAtEnd, PTL
===============================================================================
