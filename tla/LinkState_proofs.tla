--------------------------- MODULE LinkState_proofs ---------------------------
(***************************************************************************)
(* The satellites that serve the access nodes, for every constellation,    *)
(* plan of failures and course of the orbits: links, serving table and     *)
(* location service agree whatever sets, dies or is handed over.           *)
(***************************************************************************)
EXTENDS LinkState, DataLemmas

-----------------------------------------------------------------------------
(* The invariant *)

Places(p) == p.access \cup p.ground

\* The worlds that differ from w in the satellites that serve only.
Served(p, w) ==
  [phase : {w.phase}, satUp : {w.satUp}, islUp : {w.islUp}, ifDown : {w.ifDown}, delay : {w.delay},
   gslUp   : SUBSET (p.access \X p.sats),
   serving : [p.access -> p.sats \cup {None}],
   served  : [Places(p) -> p.sats \cup {None}],
   uplink  : [Places(p) -> p.sats \cup p.access \cup {None}]]

\* The access nodes above city c that have a satellite.
Lifts(p, w, c) == {g \in p.access : p.city[g] = c /\ w.serving[g] # None}

LinksAgree(p, w) == w.gslUp = {<<g, w.serving[g]>> : g \in {x \in p.access : w.serving[x] # None}}
NodesAgree(p, w) == \A g \in p.access : w.served[g] = w.serving[g]
CityAgrees(p, w, c) ==
  LET up == Lifts(p, w, c)
  IN  /\ w.served[c] = IF up = {} THEN None ELSE w.serving[Min(up)]
      /\ w.uplink[c] = IF up = {} THEN None ELSE Min(up)
      /\ \A g \in p.access : p.city[g] = c =>
           w.uplink[g] = IF g \in up THEN w.serving[g] ELSE w.uplink[c]
Agrees(p, w) ==
  /\ LinksAgree(p, w) /\ NodesAgree(p, w)
  /\ Sagin(p) => \A c \in p.ground : CityAgrees(p, w, c)

\* Where a handover may lead from w.
Reachable(p, w) == {v \in Served(p, w) : Agrees(p, v)}

InSight(p, w) == w.satUp \in SUBSET p.sats /\ w.phase \in 1 .. p.phases

IInv == plan \in Plans /\ InSight(plan, world) /\ world \in Reachable(plan, world)

-----------------------------------------------------------------------------
(* Handovers *)

\* The satellite chosen is one of the plan, or none.
LEMMA BestIs ==
  ASSUME NEW p \in Plans, NEW w, InSight(p, w), NEW g \in p.access
  PROVE  BestGsl(p, w, g) \in p.sats \cup {None}
<1> DEFINE el      == p.elev[w.phase][g]
           visible == {s \in w.satUp : el[s] >= p.minElev}
           heights == {el[s] - p.minElev : s \in visible}
           Best(s) == \A r \in visible : el[r] < el[s] \/ (el[r] = el[s] /\ r <= s)
<1>1. /\ p.sats \subseteq Nat /\ IsFiniteSet(p.sats) /\ p.minElev \in Int
      /\ \A s \in p.sats : el[s] \in Int
  BY PlanAssumption DEF InSight
<1>2. visible \subseteq p.sats /\ IsFiniteSet(visible)
  BY <1>1, FS_Subset DEF InSight
<1>3. ASSUME visible # {}
      PROVE  \E s \in visible : Best(s)
  <2>1. heights \in SUBSET Nat /\ heights # {}
    BY <1>1, <1>2, <1>3
  <2>2. IsFiniteSet(heights)
    <3> DEFINE f == [s \in visible |-> el[s] - p.minElev]
    <3>1. DOMAIN f = visible /\ heights = {f[s] : s \in DOMAIN f}
      OBVIOUS
    <3> QED
      BY <1>2, <3>1, RangeFinite, Zenon
  <2>3. PICK h \in heights : \A y \in heights : y <= h
    BY <2>1, <2>2, GreatestExists
  <2> DEFINE highest == {s \in visible : el[s] - p.minElev = h}
  <2>4. highest \in SUBSET Nat /\ highest # {} /\ IsFiniteSet(highest)
    BY <1>1, <1>2, <2>3, FS_Subset
  <2>5. PICK s \in highest : \A r \in highest : r <= s
    BY <2>4, GreatestExists
  <2>6. ASSUME NEW r \in visible
        PROVE  el[r] < el[s] \/ (el[r] = el[s] /\ r <= s)
    <3>1. el[r] \in Int /\ el[s] \in Int /\ p.minElev \in Int /\ h = el[s] - p.minElev
      BY <1>1, <1>2, <2>5
    <3>2. el[r] - p.minElev <= h
      BY <2>3
    <3>3. el[r] = el[s] => r <= s
      BY <2>5, <3>1
    <3> QED
      BY <3>1, <3>2, <3>3
  <2> QED
    BY <2>5, <2>6
<1> HIDE DEF Best
<1>4. CASE visible = {}
  BY <1>4 DEF BestGsl
<1>5. CASE visible # {}
  <2>1. BestGsl(p, w, g) = CHOOSE s \in visible : Best(s)
    BY <1>5 DEF BestGsl, Best
  <2> QED
    BY <1>2, <1>3, <1>5, <2>1
<1> QED
  BY <1>4, <1>5

\* A city's service is what its HAPS say, and the other cities keep theirs.
LEMMA SaginServiceIs ==
  ASSUME NEW p \in Plans, Sagin(p), NEW w, NEW v \in Served(p, w), NEW c \in p.ground
  PROVE  LET u == SaginService(p, v, c)
         IN  /\ u \in Served(p, w) /\ u.gslUp = v.gslUp /\ u.serving = v.serving
             /\ \A g \in p.access : u.served[g] = v.served[g]
             /\ CityAgrees(p, u, c)
             /\ \A d \in p.ground \ {c} : CityAgrees(p, v, d) => CityAgrees(p, u, d)
<1> DEFINE own   == {g \in p.access : p.city[g] = c}
           up    == Lifts(p, v, c)
           first == IF up = {} THEN None ELSE Min(up)
           sat   == IF up = {} THEN None ELSE v.serving[Min(up)]
           link  == [n \in DOMAIN v.uplink |->
                       IF n = c THEN first
                       ELSE IF n \in own THEN IF v.serving[n] # None THEN v.serving[n] ELSE first
                       ELSE v.uplink[n]]
           u     == SaginService(p, v, c)
<1>1. p.access \subseteq Nat /\ p.access \cap p.ground = {}
  BY PlanAssumption
<1>2. /\ v.serving \in [p.access -> p.sats \cup {None}]
      /\ v.served \in [Places(p) -> p.sats \cup {None}]
      /\ v.uplink \in [Places(p) -> p.sats \cup p.access \cup {None}]
      /\ c \in Places(p) /\ p.access \subseteq Places(p) /\ p.ground \subseteq Places(p)
  BY DEF Served, Places
<1>3. up \subseteq own /\ up = {g \in own : v.serving[g] # None} /\ own \subseteq p.access
  BY DEF Lifts
<1>4. up # {} => Min(up) \in up
  BY <1>1, <1>3, MinIs
<1>5. u = [v EXCEPT !.served[c] = sat, !.uplink = link]
  BY <1>3 DEF SaginService
<1>6. first \in p.access \cup {None} /\ sat \in p.sats \cup {None}
  BY <1>2, <1>3, <1>4
<1>7. link \in [Places(p) -> p.sats \cup p.access \cup {None}]
  BY <1>2, <1>3, <1>6
<1>8. /\ link[c] = first
      /\ \A g \in own : link[g] = IF v.serving[g] # None THEN v.serving[g] ELSE first
      /\ \A n \in Places(p) \ (own \cup {c}) : link[n] = v.uplink[n]
  BY <1>1, <1>2, <1>3
<1> HIDE DEF up, first, sat, link, u
<1>9. /\ u.gslUp = v.gslUp /\ u.serving = v.serving /\ u.uplink = link
      /\ u.served = [v.served EXCEPT ![c] = sat]
      /\ u \in Served(p, w)
  BY <1>2, <1>5, <1>6, <1>7 DEF Served
<1>10. u.served[c] = sat /\ \A n \in Places(p) \ {c} : u.served[n] = v.served[n]
  BY <1>2, <1>9
<1>11. \A g \in p.access : u.served[g] = v.served[g]
  BY <1>1, <1>2, <1>10
<1>12. \A d : Lifts(p, u, d) = Lifts(p, v, d)
  BY <1>9 DEF Lifts
<1>13. CityAgrees(p, u, c)
  <2>1. \A g \in p.access : p.city[g] = c => u.uplink[g] = IF g \in up THEN u.serving[g] ELSE u.uplink[c]
    BY <1>3, <1>8, <1>9
  <2> QED
    BY <1>8, <1>9, <1>10, <1>12, <2>1 DEF CityAgrees, up, first, sat
<1>14. ASSUME NEW d \in p.ground \ {c}, CityAgrees(p, v, d)
       PROVE  CityAgrees(p, u, d)
  <2>1. u.served[d] = v.served[d] /\ u.uplink[d] = v.uplink[d]
    BY <1>1, <1>2, <1>3, <1>8, <1>9, <1>10
  <2>2. \A g \in p.access : p.city[g] = d => u.uplink[g] = v.uplink[g]
    BY <1>1, <1>2, <1>3, <1>8, <1>9
  <2> QED
    BY <1>9, <1>12, <1>14, <2>1, <2>2 DEF CityAgrees
<1> QED
  BY <1>9, <1>11, <1>13, <1>14 DEF u

\* A handover keeps links, serving table and location service in agreement.
LEMMA HandoverKeeps ==
  ASSUME NEW p \in Plans, NEW w, NEW v \in Reachable(p, w), NEW g \in p.access,
         NEW to \in p.sats \cup {None}
  PROVE  Handover(p, v, g, to) \in Reachable(p, w)
<1> DEFINE from    == v.serving[g]
           dropped == IF from = None THEN v ELSE SetGsl(v, g, from, FALSE)
           raised  == IF to = None THEN dropped ELSE SetGsl(dropped, g, to, TRUE)
           moved   == [raised EXCEPT !.serving[g] = to, !.served[g] = to]
           others  == {q \in v.gslUp : q[1] # g}
<1>1. /\ v.gslUp = {<<x, v.serving[x]>> : x \in {y \in p.access : v.serving[y] # None}}
      /\ \A x \in p.access : v.served[x] = v.serving[x]
      /\ Sagin(p) => \A c \in p.ground : CityAgrees(p, v, c)
  BY DEF Reachable, Agrees, LinksAgree, NodesAgree
<1>2. /\ v \in Served(p, w)
      /\ v.gslUp \in SUBSET (p.access \X p.sats)
      /\ v.serving \in [p.access -> p.sats \cup {None}]
      /\ v.served \in [Places(p) -> p.sats \cup {None}]
      /\ p.access \subseteq Places(p)
  BY DEF Reachable, Served, Places
<1> SUFFICES ASSUME from # to
             PROVE  Handover(p, v, g, to) \in Reachable(p, w)
  BY DEF Handover
<1>3. dropped = [v EXCEPT !.gslUp = others]
  <2>1. CASE from = None
    <3>1. v.gslUp = others
      BY <1>1, <2>1
    <3>2. v = [v EXCEPT !.gslUp = v.gslUp]
      BY <1>2 DEF Served
    <3> QED
      BY <2>1, <3>1, <3>2
  <2>2. CASE from # None
    <3>1. v.gslUp \ {<<g, from>>} = others
      BY <1>1, <2>2
    <3> QED
      BY <2>2, <3>1 DEF SetGsl
  <2> QED
    BY <2>1, <2>2
<1>4. raised = [v EXCEPT !.gslUp = others \cup (IF to = None THEN {} ELSE {<<g, to>>})]
  <2> HIDE DEF others, dropped
  <2>1. dropped.gslUp = others
    BY <1>2, <1>3 DEF Served
  <2>2. CASE to = None
    BY <1>3, <2>2
  <2>3. CASE to # None
    <3>1. raised = [dropped EXCEPT !.gslUp = others \cup {<<g, to>>}]
      BY <2>1, <2>3 DEF SetGsl
    <3> QED
      BY <1>2, <1>3, <2>3, <3>1 DEF Served
  <2> QED
    BY <2>2, <2>3
<1> HIDE DEF dropped, raised
<1>5. /\ moved \in Served(p, w)
      /\ moved.gslUp = others \cup (IF to = None THEN {} ELSE {<<g, to>>})
      /\ moved.serving = [v.serving EXCEPT ![g] = to]
      /\ moved.served = [v.served EXCEPT ![g] = to]
      /\ moved.uplink = v.uplink
  <2>1. others \cup (IF to = None THEN {} ELSE {<<g, to>>}) \in SUBSET (p.access \X p.sats)
    BY <1>2
  <2> HIDE DEF others
  <2> QED
    BY <1>2, <1>4, <2>1 DEF Served
<1>6. LinksAgree(p, moved)
  <2>1. moved.serving[g] = to /\ \A x \in p.access \ {g} : moved.serving[x] = v.serving[x]
    BY <1>2, <1>5
  <2>2. others = {<<x, v.serving[x]>> : x \in {y \in p.access \ {g} : v.serving[y] # None}}
    BY <1>1
  <2> HIDE DEF others, moved
  <2> QED
    BY <1>5, <2>1, <2>2 DEF LinksAgree
<1> HIDE DEF moved, others
<1>7. NodesAgree(p, moved)
  BY <1>1, <1>2, <1>5 DEF NodesAgree
<1>8. CASE ~Sagin(p)
  <2>1. Handover(p, v, g, to) = moved
    BY <1>8 DEF Handover, moved, raised, dropped
  <2> QED
    BY <1>5, <1>6, <1>7, <1>8, <2>1 DEF Reachable, Agrees
<1>9. CASE Sagin(p)
  <2> DEFINE u == SaginService(p, moved, p.city[g])
  <2>1. Handover(p, v, g, to) = u
    BY <1>9 DEF Handover, moved, raised, dropped
  <2>2. p.city[g] \in p.ground /\ p.access \cap p.ground = {}
    BY <1>9, PlanAssumption
  <2>3. /\ u \in Served(p, w) /\ u.gslUp = moved.gslUp /\ u.serving = moved.serving
        /\ \A x \in p.access : u.served[x] = moved.served[x]
        /\ CityAgrees(p, u, p.city[g])
        /\ \A d \in p.ground \ {p.city[g]} : CityAgrees(p, moved, d) => CityAgrees(p, u, d)
    BY <1>5, <1>9, <2>2, SaginServiceIs
  <2> HIDE DEF u
  <2>4. ASSUME NEW d \in p.ground \ {p.city[g]}
        PROVE  CityAgrees(p, moved, d)
    <3>1. Lifts(p, moved, d) = Lifts(p, v, d) /\ g \notin Lifts(p, v, d)
      BY <1>2, <1>5, <2>4 DEF Lifts
    <3>2. moved.served[d] = v.served[d] /\ moved.uplink = v.uplink
      BY <1>2, <1>5, <2>2
    <3>3. \A x \in p.access : p.city[x] = d => moved.serving[x] = v.serving[x]
      BY <1>2, <1>5, <2>4
    <3>4. Lifts(p, v, d) # {} => Min(Lifts(p, v, d)) \in Lifts(p, v, d)
      <4>1. Lifts(p, v, d) \in SUBSET Nat
        BY PlanAssumption DEF Lifts
      <4> QED
        BY <4>1, MinIs
    <3>5. Lifts(p, v, d) # {} => moved.serving[Min(Lifts(p, v, d))] = v.serving[Min(Lifts(p, v, d))]
      BY <3>3, <3>4 DEF Lifts
    <3>6. CityAgrees(p, v, d)
      BY <1>1, <1>9
    <3> QED
      BY <3>1, <3>2, <3>3, <3>5, <3>6 DEF CityAgrees
  <2>5. \A d \in p.ground : CityAgrees(p, u, d)
    BY <2>3, <2>4
  <2>6. LinksAgree(p, u) /\ NodesAgree(p, u)
    BY <1>6, <1>7, <2>3 DEF LinksAgree, NodesAgree
  <2> QED
    BY <2>1, <2>3, <2>5, <2>6 DEF Reachable, Agrees
<1> QED
  BY <1>8, <1>9

\* A node that hands over to the best satellite keeps it too.
LEMMA BestKeeps ==
  ASSUME NEW p \in Plans, NEW w, InSight(p, w), NEW v \in Reachable(p, w), NEW g \in p.access
  PROVE  Handover(p, v, g, BestGsl(p, v, g)) \in Reachable(p, w)
<1>1. InSight(p, v)
  BY DEF InSight, Reachable, Served
<1>2. BestGsl(p, v, g) \in p.sats \cup {None}
  BY <1>1, BestIs
<1> QED
  BY <1>2, HandoverKeeps

-----------------------------------------------------------------------------
(* The loops *)

\* A loop over a finite set of numbers ends after the greatest of them.
LEMMA LoopBound ==
  ASSUME NEW S \in SUBSET Nat, IsFiniteSet(S)
  PROVE  Max({0} \cup S) + 1 \in Nat /\ \A x \in S : x + 1 <= Max({0} \cup S) + 1
<1> DEFINE T == {0} \cup S
<1>1. T \in SUBSET Nat /\ T # {} /\ IsFiniteSet(T)
  BY FS_EmptySet, FS_AddElement
<1>2. Max(T) \in T /\ \A x \in T : x <= Max(T)
  <2> HIDE DEF T
  <2> QED
    BY <1>1, MaxIs
<1> DEFINE m == Max(T)
<1> HIDE DEF m
<1>3. m \in Nat /\ \A x \in S : x \in Nat /\ x <= m
  BY <1>1, <1>2 DEF m
<1>4. m + 1 \in Nat /\ \A x \in S : x + 1 <= m + 1
  BY <1>3
<1> QED
  BY <1>4 DEF m

\* The round of the handover clock.
LEMMA ClockKeeps ==
  ASSUME NEW p \in Plans, NEW w, InSight(p, w), w \in Reachable(p, w)
  PROVE  HandoverClock(p, w) \in Reachable(p, w)
<1> DEFINE S == p.access
           N == Max({0} \cup S) + 1
           V == Reachable(p, w)
           Step(v, g) == Handover(p, v, g, BestGsl(p, v, g))
           Loop(f) == [n \in 0 .. N |->
                         IF n = 0 THEN w
                         ELSE IF n - 1 \in S THEN Step(f[n - 1], n - 1) ELSE f[n - 1]]
           h == CHOOSE f : f = Loop(f)
           table == [g \in S |-> [v \in V |-> Step(v, g)]]
<1>1. N \in Nat
  BY PlanAssumption, LoopBound
<1>2. HandoverClock(p, w) = h[N]
  BY DEF HandoverClock, ForEach
<1>3. \A g \in S, v \in V : Step(v, g) \in V
  BY BestKeeps
<1> HIDE DEF N, V, Step
<1>4. w \in V /\ table \in [S -> [V -> V]] /\ \A g \in S, v \in V : table[g][v] = Step(v, g)
  BY <1>3 DEF V
<1>5. h = Loop(h)
  <2> HIDE DEF table
  <2>1. PICK f : Loops(f, N, V, w, S, table)
    BY <1>1, <1>4, LoopExists
  <2>2. \A n \in 1 .. N : f[n - 1] \in V
    BY <1>1, <2>1 DEF Loops
  <2>3. f = Loop(f)
    BY <1>1, <1>4, <2>1, <2>2 DEF Loops
  <2> HIDE DEF Loop
  <2> QED
    BY <2>3
<1> HIDE DEF h, table
<1>6. h[0] = w /\ h[0] \in V
  BY <1>1, <1>4, <1>5
<1>7. ASSUME NEW n \in 1 .. N, h[n - 1] \in V PROVE h[n] \in V
  <2>1. h[n] = IF n - 1 \in S THEN Step(h[n - 1], n - 1) ELSE h[n - 1]
    BY <1>1, <1>5
  <2> QED
    BY <1>3, <1>7, <2>1
<1>8. h[N] \in V
  BY <1>1, <1>6, <1>7, RecursiveFunctionType
<1> QED
  BY <1>2, <1>8 DEF V

\* The round of those whose satellite has set or died.
LEMMA WatchKeeps ==
  ASSUME NEW p \in Plans, NEW w, InSight(p, w), w \in Reachable(p, w)
  PROVE  VisibilityWatch(p, w) \in Reachable(p, w)
<1> DEFINE S == p.access
           N == Max({0} \cup S) + 1
           V == Reachable(p, w)
           Step(v, g) == IF Lost(p, v, g) THEN Handover(p, v, g, BestGsl(p, v, g)) ELSE v
           Loop(f) == [n \in 0 .. N |->
                         IF n = 0 THEN w
                         ELSE IF n - 1 \in S THEN Step(f[n - 1], n - 1) ELSE f[n - 1]]
           h == CHOOSE f : f = Loop(f)
           table == [g \in S |-> [v \in V |-> Step(v, g)]]
<1>1. N \in Nat
  BY PlanAssumption, LoopBound
<1>2. VisibilityWatch(p, w) = h[N]
  BY DEF VisibilityWatch, ForEach
<1>3. \A g \in S, v \in V : Step(v, g) \in V
  BY BestKeeps
<1> HIDE DEF N, V, Step
<1>4. w \in V /\ table \in [S -> [V -> V]] /\ \A g \in S, v \in V : table[g][v] = Step(v, g)
  BY <1>3 DEF V
<1>5. h = Loop(h)
  <2> HIDE DEF table
  <2>1. PICK f : Loops(f, N, V, w, S, table)
    BY <1>1, <1>4, LoopExists
  <2>2. \A n \in 1 .. N : f[n - 1] \in V
    BY <1>1, <2>1 DEF Loops
  <2>3. f = Loop(f)
    BY <1>1, <1>4, <2>1, <2>2 DEF Loops
  <2> HIDE DEF Loop
  <2> QED
    BY <2>3
<1> HIDE DEF h, table
<1>6. h[0] = w /\ h[0] \in V
  BY <1>1, <1>4, <1>5
<1>7. ASSUME NEW n \in 1 .. N, h[n - 1] \in V PROVE h[n] \in V
  <2>1. h[n] = IF n - 1 \in S THEN Step(h[n - 1], n - 1) ELSE h[n - 1]
    BY <1>1, <1>5
  <2> QED
    BY <1>3, <1>7, <2>1
<1>8. h[N] \in V
  BY <1>1, <1>6, <1>7, RecursiveFunctionType
<1> QED
  BY <1>2, <1>8 DEF V


\* The first assignment serves every access node by its best satellite and every city by those.
LEMMA StartKeeps ==
  ASSUME NEW p \in Plans, NEW w, InSight(p, w),
         w \in [phase : {w.phase}, satUp : {w.satUp}, islUp : {w.islUp}, ifDown : {w.ifDown},
                delay : {w.delay}, gslUp : {{}}, serving : [p.access -> {None}],
                served : [Places(p) -> {None}], uplink : [Places(p) -> {None}]]
  PROVE  StartService(p, w) \in Reachable(p, w)
<1> DEFINE best  == [g \in p.access |-> BestGsl(p, w, g)]
           first == [w EXCEPT !.serving = best,
                              !.gslUp = {q \in p.access \X p.sats : best[q[1]] = q[2]},
                              !.served = [n \in DOMAIN @ |-> IF n \in p.access THEN best[n] ELSE @[n]]]
<1>1. /\ p.access \subseteq Places(p) /\ p.sats \subseteq Nat
      /\ \A g \in p.access : best[g] \in p.sats \cup {None}
  BY BestIs, PlanAssumption DEF Places
<1> HIDE DEF best
<1>2. best \in [p.access -> p.sats \cup {None}]
  BY <1>1 DEF best
<1>3. /\ first \in Served(p, w)
      /\ first.serving = best
      /\ first.gslUp = {q \in p.access \X p.sats : best[q[1]] = q[2]}
      /\ \A g \in p.access : first.served[g] = best[g]
  BY <1>1, <1>2 DEF Served
<1> HIDE DEF first
<1>4. LinksAgree(p, first)
  <2>1. None \notin p.sats
    BY <1>1 DEF None, NoNode
  <2>2. ASSUME NEW q
        PROVE  q \in first.gslUp <=> q \in {<<g, best[g]>> : g \in {x \in p.access : best[x] # None}}
    BY <1>1, <1>3, <2>1
  <2> QED
    BY <1>3, <2>2 DEF LinksAgree
<1>5. NodesAgree(p, first)
  BY <1>3 DEF NodesAgree
<1>6. CASE ~Sagin(p)
  <2>1. StartService(p, w) = first
    BY <1>6 DEF StartService, first, best
  <2> QED
    BY <1>3, <1>4, <1>5, <1>6, <2>1 DEF Reachable, Agrees
<1>7. CASE Sagin(p)
  <2> DEFINE S == p.ground
             N == Max({0} \cup S) + 1
             V == {v \in Served(p, w) : LinksAgree(p, v) /\ NodesAgree(p, v)}
             Step(v, c) == SaginService(p, v, c)
             Loop(f) == [n \in 0 .. N |->
                           IF n = 0 THEN first
                           ELSE IF n - 1 \in S THEN Step(f[n - 1], n - 1) ELSE f[n - 1]]
             h == CHOOSE f : f = Loop(f)
             table == [c \in S |-> [v \in V |-> Step(v, c)]]
             T == {n \in 0 .. N : h[n] \in V /\ \A c \in S : c < n => CityAgrees(p, h[n], c)}
  <2>1. N \in Nat /\ S \subseteq Nat /\ \A c \in S : c + 1 <= N
    BY PlanAssumption, LoopBound
  <2>2. StartService(p, w) = h[N]
    BY <1>7 DEF StartService, ForEach, first, best
  <2>3. \A c \in S, v \in V :
          /\ Step(v, c) \in V
          /\ CityAgrees(p, Step(v, c), c)
          /\ \A d \in S \ {c} : CityAgrees(p, v, d) => CityAgrees(p, Step(v, c), d)
    <3> TAKE c \in S, v \in V
    <3>1. /\ Step(v, c) \in Served(p, w) /\ Step(v, c).gslUp = v.gslUp
          /\ Step(v, c).serving = v.serving
          /\ \A g \in p.access : Step(v, c).served[g] = v.served[g]
          /\ CityAgrees(p, Step(v, c), c)
          /\ \A d \in S \ {c} : CityAgrees(p, v, d) => CityAgrees(p, Step(v, c), d)
      BY <1>7, SaginServiceIs
    <3> HIDE DEF Step
    <3> QED
      BY <3>1 DEF LinksAgree, NodesAgree
  <2>4. first \in V
    BY <1>3, <1>4, <1>5
  <2> HIDE DEF N, V, Step
  <2>5. table \in [S -> [V -> V]] /\ \A c \in S, v \in V : table[c][v] = Step(v, c)
    BY <2>3
  <2>6. h = Loop(h)
    <3> HIDE DEF table
    <3>1. PICK f : Loops(f, N, V, first, S, table)
      BY <2>1, <2>4, <2>5, LoopExists
    <3>2. \A n \in 1 .. N : f[n - 1] \in V
      BY <2>1, <3>1 DEF Loops
    <3>3. f = Loop(f)
      BY <2>1, <2>5, <3>1, <3>2 DEF Loops
    <3> HIDE DEF Loop
    <3> QED
      BY <3>3
  <2> HIDE DEF h, table
  <2>7. 0 \in T
    BY <2>1, <2>4, <2>6
  <2>8. ASSUME NEW n \in 1 .. N, n - 1 \in T PROVE n \in T
    <3>1. h[n] = IF n - 1 \in S THEN Step(h[n - 1], n - 1) ELSE h[n - 1]
      BY <2>1, <2>6
    <3>2. h[n] \in V
      BY <2>3, <2>8, <3>1
    <3>3. ASSUME NEW c \in S, c < n
          PROVE  CityAgrees(p, h[n], c)
      <4>1. c = n - 1 \/ c < n - 1
        BY <2>1, <3>3
      <4>2. c < n - 1 => CityAgrees(p, h[n - 1], c)
        BY <2>8
      <4>3. c < n - 1 => c # n - 1
        BY <2>1
      <4> QED
        BY <2>3, <2>8, <3>1, <4>1, <4>2, <4>3
    <3> QED
      BY <3>2, <3>3
  <2>9. N \in T
    <3> HIDE DEF T
    <3>1. 0 .. N \subseteq T
      BY <2>1, <2>7, <2>8, BoundedInduction
    <3> QED
      BY <2>1, <3>1
  <2>10. \A c \in S : CityAgrees(p, h[N], c)
    BY <2>1, <2>9
  <2> QED
    BY <2>2, <2>9, <2>10 DEF Reachable, Agrees, V
<1> QED
  BY <1>6, <1>7

-----------------------------------------------------------------------------
(* What goes on besides *)

\* From w to v the satellites, the links between them, interfaces and delays may have changed.
Beside(w, v) ==
  v \in [phase : {v.phase}, satUp : {v.satUp}, islUp : {v.islUp}, ifDown : {v.ifDown},
         delay : {v.delay}, gslUp : {w.gslUp}, serving : {w.serving}, served : {w.served},
         uplink : {w.uplink}]

\* What agrees goes on to agree whatever the satellites and the links between them do.
LEMMA BesideKeeps ==
  ASSUME NEW p \in Plans, NEW w, NEW v, w \in Reachable(p, w), Beside(w, v)
  PROVE  v \in Reachable(p, v)
<1>1. /\ v.gslUp = w.gslUp /\ v.serving = w.serving /\ v.served = w.served /\ v.uplink = w.uplink
      /\ v.gslUp \in SUBSET (p.access \X p.sats)
      /\ v.serving \in [p.access -> p.sats \cup {None}]
      /\ v.served \in [Places(p) -> p.sats \cup {None}]
      /\ v.uplink \in [Places(p) -> p.sats \cup p.access \cup {None}]
  BY DEF Reachable, Served, Beside
<1>2. v \in Served(p, v)
  BY <1>1 DEF Served, Beside
<1>3. \A c : Lifts(p, v, c) = Lifts(p, w, c)
  BY <1>1 DEF Lifts
<1>4. Agrees(p, w)
  BY DEF Reachable
<1>5. LinksAgree(p, v) /\ NodesAgree(p, v)
  BY <1>1, <1>4 DEF Agrees, LinksAgree, NodesAgree
<1>6. \A c \in p.ground : CityAgrees(p, w, c) => CityAgrees(p, v, c)
  BY <1>1, <1>3 DEF CityAgrees
<1> QED
  BY <1>2, <1>4, <1>5, <1>6 DEF Reachable, Agrees

\* MassFail's loop over the links of the victims.
LEMMA StormBeside ==
  ASSUME NEW w, NEW w0, Beside(w, w0), NEW S \in SUBSET Nat, IsFiniteSet(S)
  PROVE  LET u == ForEach(S, w0, LAMBDA v, c : SetIsl(plan, v, c, FALSE, FALSE))
         IN  Beside(w, u) /\ u.phase = w0.phase /\ u.satUp = w0.satUp
<1> DEFINE N == Max({0} \cup S) + 1
           V == [phase : {w0.phase}, satUp : {w0.satUp}, delay : {w0.delay}, gslUp : {w.gslUp},
                 serving : {w.serving}, served : {w.served}, uplink : {w.uplink},
                 islUp : SUBSET w0.islUp, ifDown : SUBSET (w0.ifDown \cup S)]
           Step(v, c) == SetIsl(plan, v, c, FALSE, FALSE)
           Loop(f) == [n \in 0 .. N |->
                         IF n = 0 THEN w0
                         ELSE IF n - 1 \in S THEN Step(f[n - 1], n - 1) ELSE f[n - 1]]
           h == CHOOSE f : f = Loop(f)
           table == [c \in S |-> [v \in V |-> Step(v, c)]]
<1>1. N \in Nat
  BY LoopBound
<1>2. ForEach(S, w0, LAMBDA v, c : SetIsl(plan, v, c, FALSE, FALSE)) = h[N]
  BY DEF ForEach
<1>3. ASSUME NEW c \in S, NEW v \in V PROVE Step(v, c) \in V
  <2>1. Step(v, c) = v
        \/ \E q \in {v.ifDown, v.ifDown \cup {c}} : Step(v, c) = [v EXCEPT !.islUp = @ \ {c}, !.ifDown = q]
    BY DEF SetIsl
  <2> HIDE DEF Step
  <2>2. ASSUME NEW q \in {v.ifDown, v.ifDown \cup {c}}
        PROVE  [v EXCEPT !.islUp = @ \ {c}, !.ifDown = q] \in V
    <3>1. q \in SUBSET (w0.ifDown \cup S) /\ v.islUp \ {c} \in SUBSET w0.islUp
      BY <2>2
    <3> QED
      BY <3>1
  <2> QED
    BY <2>1, <2>2
<1>4. w0 \in V
  BY DEF Beside
<1> HIDE DEF N, V, Step
<1>5. table \in [S -> [V -> V]] /\ \A c \in S, v \in V : table[c][v] = Step(v, c)
  BY <1>3
<1>6. h = Loop(h)
  <2> HIDE DEF table
  <2>1. PICK f : Loops(f, N, V, w0, S, table)
    BY <1>1, <1>4, <1>5, LoopExists
  <2>2. \A n \in 1 .. N : f[n - 1] \in V
    BY <1>1, <2>1 DEF Loops
  <2>3. f = Loop(f)
    BY <1>1, <1>5, <2>1, <2>2 DEF Loops
  <2> HIDE DEF Loop
  <2> QED
    BY <2>3
<1> HIDE DEF h, table
<1>7. h[0] = w0 /\ h[0] \in V
  BY <1>1, <1>4, <1>6
<1>8. ASSUME NEW n \in 1 .. N, h[n - 1] \in V PROVE h[n] \in V
  <2>1. h[n] = IF n - 1 \in S THEN Step(h[n - 1], n - 1) ELSE h[n - 1]
    BY <1>1, <1>6
  <2> QED
    BY <1>3, <1>8, <2>1
<1>9. h[N] \in V
  BY <1>1, <1>7, <1>8, RecursiveFunctionType
<1>10. \A v \in V : Beside(w, v) /\ v.phase = w0.phase /\ v.satUp = w0.satUp
  BY DEF V, Beside
<1> QED
  BY <1>2, <1>9, <1>10

-----------------------------------------------------------------------------
(* The theorem *)

\* The first assignment starts in the invariant.
LEMMA InitAgrees == Init => IInv
<1> SUFFICES ASSUME Init PROVE IInv
  OBVIOUS
<1> DEFINE new  == NewWorld(plan)
           bare == UpdateDelays(plan, new)
<1>1. plan \in Plans /\ world = StartService(plan, bare) /\ plan.phases \in Nat \ {0}
  BY PlanAssumption DEF Init
<1>2. /\ bare.phase = 1 /\ bare.satUp = plan.sats
      /\ bare \in [phase : {bare.phase}, satUp : {bare.satUp}, islUp : {bare.islUp},
                   ifDown : {bare.ifDown}, delay : {bare.delay}, gslUp : {{}},
                   serving : [plan.access -> {None}], served : [Places(plan) -> {None}],
                   uplink : [Places(plan) -> {None}]]
  BY DEF NewWorld, UpdateDelays, Places
<1> HIDE DEF bare
<1>3. InSight(plan, bare)
  BY <1>1, <1>2 DEF InSight
<1>4. world \in Reachable(plan, bare)
  BY <1>1, <1>2, <1>3, StartKeeps
<1>5. InSight(plan, world) /\ world \in Reachable(plan, world)
  BY <1>3, <1>4 DEF InSight, Reachable, Served
<1> QED
  BY <1>1, <1>5 DEF IInv

\* Every failure, timer and packet keeps it.
LEMMA StepAgrees == IInv /\ [Next]_vars => IInv'
<1> SUFFICES ASSUME IInv, [Next]_vars PROVE IInv'
  OBVIOUS
<1>1. plan \in Plans /\ InSight(plan, world) /\ world \in Reachable(plan, world)
  BY DEF IInv
<1>2. Beside(world, world)
  BY <1>1 DEF Beside, Reachable, Served
<1>3. ASSUME plan' = plan, InSight(plan, world'), Beside(world, world')
      PROVE  IInv'
  <2>1. world' \in Reachable(plan, world')
    BY <1>1, <1>3, BesideKeeps
  <2> QED
    BY <1>1, <1>3, <2>1 DEF IInv
<1>4. CASE plan' = plan /\ world' = world
  BY <1>1, <1>4 DEF IInv
<1>5. ASSUME NEW ch \in plan.shaky, IslFail(ch)
      PROVE  IInv'
  <2>1. plan' = plan /\ world' \in {SetIsl(plan, world, ch, ch \in down, FALSE), world}
    BY <1>5 DEF IslFail
  <2>2. world' = world \/ \E q, r : world' = [world EXCEPT !.islUp = q, !.ifDown = r]
    BY <2>1 DEF SetIsl
  <2>3. Beside(world, world') /\ world'.phase = world.phase /\ world'.satUp = world.satUp
    BY <1>2, <2>2 DEF Beside
  <2> QED
    BY <1>1, <1>3, <2>1, <2>3 DEF InSight
<1>6. CASE MassFail
  <2> DEFINE w0  == [world EXCEPT !.satUp = @ \ plan.victims]
             cut == {l \in plan.isls : ~({l.a, l.b} \subseteq w0.satUp)}
             S   == ChannelsOf(cut)
             u   == ForEach(S, w0, LAMBDA v, c : SetIsl(plan, v, c, FALSE, FALSE))
  <2>1. plan' = plan /\ world' = u
    BY <1>6 DEF MassFail
  <2>2. Beside(world, w0) /\ w0.phase = world.phase /\ w0.satUp = world.satUp \ plan.victims
    BY <1>2 DEF Beside
  <2>3. S \in SUBSET Nat /\ IsFiniteSet(S)
    <3>1. ChannelsOf(plan.isls) \subseteq Nat /\ IsFiniteSet(ChannelsOf(plan.isls))
      BY <1>1, PlanAssumption
    <3>2. S \subseteq ChannelsOf(plan.isls)
      BY DEF ChannelsOf
    <3> HIDE DEF S
    <3> QED
      BY <3>1, <3>2, FS_Subset
  <2>4. Beside(world, u) /\ u.phase = w0.phase /\ u.satUp = w0.satUp
    <3> HIDE DEF w0, S
    <3> QED
      BY <2>2, <2>3, StormBeside, Zenon
  <2> HIDE DEF u, w0
  <2>5. InSight(plan, world')
    BY <1>1, <2>1, <2>2, <2>4 DEF InSight
  <2> QED
    BY <1>3, <2>1, <2>4, <2>5
<1>7. ASSUME NEW ch \in plan.breaks, BreakIsl(ch)
      PROVE  IInv'
  <2>1. plan' = plan /\ world' = [world EXCEPT !.islUp = @ \ {ch}, !.ifDown = @ \cup {ch}]
    BY <1>7 DEF BreakIsl
  <2>2. Beside(world, world') /\ world'.phase = world.phase /\ world'.satUp = world.satUp
    BY <1>2, <2>1 DEF Beside
  <2> QED
    BY <1>1, <1>3, <2>1, <2>2 DEF InSight
<1>8. CASE Orbit
  <2>1. plan' = plan /\ world' = [world EXCEPT !.phase = @ + 1] /\ world.phase < plan.phases
    BY <1>8 DEF Orbit
  <2>2. Beside(world, world') /\ world'.phase = world.phase + 1 /\ world'.satUp = world.satUp
    BY <1>2, <2>1 DEF Beside
  <2>3. plan.phases \in Nat
    BY <1>1, PlanAssumption
  <2> QED
    BY <1>1, <1>3, <2>1, <2>2, <2>3 DEF InSight
<1>9. CASE WorldTimer
  <2>1. plan' = plan
    BY <1>9 DEF WorldTimer
  <2>2. CASE Delays
    <3>1. \E d : world' = [world EXCEPT !.delay = d]
      BY <2>2 DEF Delays, UpdateDelays
    <3>2. Beside(world, world') /\ world'.phase = world.phase /\ world'.satUp = world.satUp
      BY <1>2, <3>1 DEF Beside
    <3> QED
      BY <1>1, <1>3, <2>1, <3>2 DEF InSight
  <2>3. ASSUME world' \in Reachable(plan, world)
        PROVE  IInv'
    BY <1>1, <2>1, <2>3 DEF IInv, InSight, Reachable, Served
  <2>4. CASE Clock
    BY <1>1, <2>3, <2>4, ClockKeeps DEF Clock
  <2>5. CASE Watch
    BY <1>1, <2>3, <2>5, WatchKeeps DEF Watch
  <2> QED
    BY <1>9, <2>2, <2>4, <2>5 DEF WorldTimer
<1>10. CASE Tick
  BY <1>4, <1>10 DEF Tick
<1>11. CASE RecomputeTimer
  BY <1>4, <1>11 DEF RecomputeTimer
<1>12. CASE RouteOutput
  BY <1>4, <1>12 DEF RouteOutput
<1>13. CASE RouteInput
  BY <1>4, <1>13 DEF RouteInput
<1>14. CASE UNCHANGED vars
  BY <1>4, <1>14 DEF vars
<1> QED
  BY <1>5, <1>6, <1>7, <1>8, <1>9, <1>10, <1>11, <1>12, <1>13, <1>14 DEF Next

\* It says what the run checks.
LEMMA InvAgrees == IInv => ServiceAgrees
<1> SUFFICES ASSUME IInv PROVE ServiceAgrees
  OBVIOUS
<1>1. /\ Agrees(plan, world)
      /\ \A g \in plan.access : world.served[g] = world.serving[g]
  BY DEF IInv, Reachable, Agrees, NodesAgree
<1>2. ASSUME NEW g \in plan.access
      PROVE  {q[2] : q \in {x \in world.gslUp : x[1] = g}} = {world.serving[g]} \ {None}
  <2> DEFINE mine == {x \in world.gslUp : x[1] = g}
  <2>1. mine = IF world.serving[g] = None THEN {} ELSE {<<g, world.serving[g]>>}
    BY <1>1 DEF Agrees, LinksAgree
  <2> HIDE DEF mine
  <2>2. {q[2] : q \in mine} = {world.serving[g]} \ {None}
    <3>1. CASE world.serving[g] = None
      BY <2>1, <3>1
    <3>2. CASE world.serving[g] # None
      <4>1. mine = {<<g, world.serving[g]>>}
        BY <2>1, <3>2
      <4> QED
        BY <3>2, <4>1
    <3> QED
      BY <3>1, <3>2
  <2> QED
    BY <2>2 DEF mine
<1>3. \A c \in plan.ground : CityAgrees(plan, world, c) =>
        LET up == {g \in plan.access : plan.city[g] = c /\ world.serving[g] # None}
        IN  /\ world.served[c] = IF up = {} THEN None ELSE world.serving[Min(up)]
            /\ world.uplink[c] = IF up = {} THEN None ELSE Min(up)
            /\ \A g \in plan.access : plan.city[g] = c =>
                 world.uplink[g] = IF g \in up THEN world.serving[g] ELSE world.uplink[c]
  BY DEF CityAgrees, Lifts
<1> QED
  BY <1>1, <1>2, <1>3 DEF ServiceAgrees, Agrees

\* Always, an access node has one link up, the one to the satellite that serves it, and the
\* location service names that satellite; with an air layer, a city is served through the first
\* of its HAPS that has a satellite and the others go up by it.  (Handover, HandoverClock,
\* VisibilityWatch, SaginService; MassFail and Orbit take satellites away between two rounds)
THEOREM ServiceAgreesAlways == Spec => []ServiceAgrees
<1> QED
  BY InitAgrees, StepAgrees, InvAgrees, PTL DEF Spec
=============================================================================
