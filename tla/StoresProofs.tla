----------------------------- MODULE StoresProofs -----------------------------
EXTENDS MCStores, WellFoundedInduction, FiniteSetTheorems, SequenceTheorems, TLAPS

\* A set of numbers has a least one.
LEMMA Smallest ==
  ASSUME NEW S \in SUBSET Nat, S # {}
  PROVE \E n \in S : \A m \in S : n <= m
<1> DEFINE R == OpToRel(<, Nat)
<1>1. IsWellFoundedOn(R, Nat)
  BY NatLessThanWellFounded
<1>3. \A x, y \in Nat : y < x => <<y,x>> \in R
  BY DEF OpToRel
<1> HIDE DEF R
<1>2. \E x \in S : \A y \in S : ~ (<<y, x>> \in R)
  BY <1>1, WFMin, Zenon
<1>4. PICK x \in S : \A y \in S : ~ (<<y, x>> \in R)
  BY <1>2
<1>5. \A y \in S : x <= y
  <2> TAKE y \in S
  <2>1. ~ (y < x)
    BY <1>3, <1>4
  <2> QED BY <2>1
<1> QED BY <1>5

\* Induction over the numbers, for a set instead of a predicate.
LEMMA NatInd ==
  ASSUME NEW P \in SUBSET Nat, 0 \in P, \A n \in P : n + 1 \in P
  PROVE P = Nat
<1>1. SUFFICES ASSUME Nat \ P # {} PROVE FALSE
  OBVIOUS
<1>2. PICK n \in Nat \ P : \A m \in Nat \ P : n <= m
  BY <1>1, Smallest
<1>3. n - 1 \in Nat \ P
  BY <1>2
<1> QED BY <1>2, <1>3

-------------------------------------------------------------------------------
\* The registry of agents and workspaces (workspace-manager.js, simple-agent-manager.js).

Book == UNION {[S -> Name] : S \in SUBSET AgentId}

\* A book gives some of the ids a name.
LEMMA BookIs ==
  ASSUME NEW f
  PROVE  f \in Book <=> f \in [DOMAIN f -> Name] /\ DOMAIN f \in SUBSET AgentId
BY DEF Book

\* Remembering an id adds it, or gives it another name, and changes no other.
LEMMA IdsAreKept ==
  ASSUME NEW f \in Book, NEW id \in AgentId, NEW name \in Name
  PROVE  /\ Remember(f, id, name) \in Book
         /\ DOMAIN Remember(f, id, name) = DOMAIN f \cup {id}
         /\ Remember(f, id, name)[id] = name
         /\ \A x \in DOMAIN f : x # id => Remember(f, id, name)[x] = f[x]
<1>1. f \in [DOMAIN f -> Name] /\ DOMAIN f \in SUBSET AgentId
  BY BookIs
<1> DEFINE g == Remember(f, id, name)
<1>2. g = [x \in DOMAIN f \cup {id} |-> IF x = id THEN name ELSE f[x]]
  BY DEF Remember
<1>3. g \in [DOMAIN f \cup {id} -> Name] /\ DOMAIN g = DOMAIN f \cup {id}
  BY <1>1, <1>2
<1>4. DOMAIN g \in SUBSET AgentId
  BY <1>1, <1>3
<1>5. g[id] = name /\ \A x \in DOMAIN f : x # id => g[x] = f[x]
  BY <1>2
<1> HIDE DEF g
<1>6. g \in Book
  BY <1>3, <1>4, BookIs
<1> QED BY <1>3, <1>5, <1>6 DEF g

\* Forgetting an id takes it, and only it, out of the book.
LEMMA IdsGoAway ==
  ASSUME NEW f \in Book, NEW id
  PROVE  /\ Forget(f, id) \in Book
         /\ DOMAIN Forget(f, id) = DOMAIN f \ {id}
         /\ \A x \in DOMAIN f \ {id} : Forget(f, id)[x] = f[x]
<1>1. f \in [DOMAIN f -> Name] /\ DOMAIN f \in SUBSET AgentId
  BY BookIs
<1> DEFINE g == Forget(f, id)
<1>2. g = [x \in DOMAIN f \ {id} |-> f[x]]
  BY DEF Forget
<1>3. g \in [DOMAIN f \ {id} -> Name] /\ DOMAIN g = DOMAIN f \ {id}
  BY <1>1, <1>2
<1>4. DOMAIN g \in SUBSET AgentId /\ \A x \in DOMAIN f \ {id} : g[x] = f[x]
  BY <1>1, <1>2, <1>3
<1> HIDE DEF g
<1>5. g \in Book
  BY <1>3, <1>4, BookIs
<1> QED BY <1>3, <1>4, <1>5 DEF g

-----------------------------------------------------------------------------
Registered(d) == \A id \in AgentId : d.dir[id] # "absent" => id \in DOMAIN d.spaces

\* A list of workspaces, in memory or in the file.
SoundList(l) ==
  /\ l = [spaces |-> l.spaces, default |-> l.default]
  /\ l.spaces \in Book /\ l.default \in AgentId \cup {NoWorkspace}
  /\ l.default \in DOMAIN l.spaces \/ (l.default = NoWorkspace /\ DOMAIN l.spaces = {})
  /\ \A v, w \in DOMAIN l.spaces : l.spaces[v] = l.spaces[w] => v = w

\* What every write leaves.
Sound(d) ==
  /\ d \in Disk
  /\ d.default \in DOMAIN d.spaces \/ (d.default = NoWorkspace /\ DOMAIN d.spaces = {})
  /\ \A v, w \in DOMAIN d.spaces : d.spaces[v] = d.spaces[w] => v = w

\* What a boot that finds no workspace, and therefore does not sweep, can put right.
Confined(d) == DOMAIN d.spaces = {} => \A id \in AgentId : d.dir[id] # "absent" => id = DefaultId

SoulKept(d, e, ids) ==
  \A id \in AgentId : d.dir[id] = "own" /\ e.dir[id] # "own" => id \in ids

\* A write of an operation that began with d and may replace the soul files of ids.
Write(d, e, ids) ==
  /\ Sound(e) /\ SoulKept(d, e, ids)
  /\ DOMAIN d.spaces # {} => DOMAIN e.spaces # {}

\* The writes of an operation.
Writes(d, trail, ids) ==
  /\ trail \in Seq(Disk)
  /\ \A i \in 1..Len(trail) : Write(d, trail[i], ids)

\* What a disk is made of.
LEMMA DiskFields ==
  ASSUME NEW d \in Disk
  PROVE  /\ d.agents \in Book /\ d.spaces \in Book /\ d.default \in AgentId \cup {NoWorkspace}
         /\ d.dir \in [AgentId -> DirState]
         /\ DOMAIN d.spaces \in SUBSET AgentId /\ DOMAIN d.agents \in SUBSET AgentId
         /\ \A id \in DOMAIN d.spaces : d.spaces[id] \in Name
         /\ \A id \in DOMAIN d.agents : d.agents[id] \in Name
<1>1. d.agents \in Book /\ d.spaces \in Book /\ d.default \in AgentId \cup {NoWorkspace}
      /\ d.dir \in [AgentId -> DirState]
  BY DEF Disk, Book
<1> QED BY <1>1, BookIs

WithSpaces(d, s, f) == [d EXCEPT !.spaces = s, !.default = f]
WithAgents(d, a) == [d EXCEPT !.agents = a]

\* workspaces.json written: the other files are as they were.
LEMMA DiskWith ==
  ASSUME NEW d \in Disk, NEW s \in Book, NEW f \in AgentId \cup {NoWorkspace}, NEW e,
         e = WithSpaces(d, s, f)
  PROVE  /\ e \in Disk /\ e.agents = d.agents /\ e.spaces = s /\ e.default = f /\ e.dir = d.dir
BY DEF Disk, Book, WithSpaces, WithAgents

\* agents.json written: the other files are as they were.
LEMMA DiskWithAgents ==
  ASSUME NEW d \in Disk, NEW a \in Book, NEW e, e = WithAgents(d, a)
  PROVE  /\ e \in Disk /\ e.agents = a /\ e.spaces = d.spaces /\ e.default = d.default /\ e.dir = d.dir
BY DEF Disk, Book, WithSpaces, WithAgents

\* A write that changes the directory of one workspace alone.
WithDir(d, id, state) == [d EXCEPT !.dir[id] = state]

\* The directory of one id written: all else is as it was.
LEMMA DirWrite ==
  ASSUME NEW d \in Disk, NEW id \in AgentId, NEW state \in DirState, NEW e,
         e = WithDir(d, id, state)
  PROVE  /\ e \in Disk /\ e.agents = d.agents /\ e.spaces = d.spaces /\ e.default = d.default
         /\ e.dir[id] = state
         /\ \A x \in AgentId : x # id => e.dir[x] = d.dir[x]
<1>1. d.dir \in [AgentId -> DirState]
  BY DiskFields
<1>2. e = [d EXCEPT !.dir = [d.dir EXCEPT ![id] = state]]
  BY DEF WithDir
<1>3. [d.dir EXCEPT ![id] = state] \in [AgentId -> DirState]
  BY <1>1
<1>4. e.agents = d.agents /\ e.spaces = d.spaces /\ e.default = d.default
      /\ e.dir = [d.dir EXCEPT ![id] = state]
  BY <1>2 DEF Disk
<1>5. e \in Disk
  BY <1>2, <1>3 DEF Disk
<1> QED BY <1>1, <1>4, <1>5

\* The directory of a workspace whose user has written nothing, or may lose it, is
\* written: nothing else has to hold for that to be a write.
LEMMA DirSound ==
  ASSUME NEW d, Sound(d), NEW id \in AgentId, NEW state \in DirState, NEW e,
         e = WithDir(d, id, state), NEW ids,
         d.dir[id] # "own" \/ state = "own" \/ id \in ids
  PROVE  Write(d, e, ids)
<1>1. /\ e \in Disk /\ e.agents = d.agents /\ e.spaces = d.spaces /\ e.default = d.default
      /\ e.dir[id] = state
      /\ \A x \in AgentId : x # id => e.dir[x] = d.dir[x]
  <2>1. d \in Disk
    BY DEF Sound
  <2>2. e = WithDir(d, id, state)
    OBVIOUS
  <2> QED BY <2>1, <2>2, DirWrite
<1>2. DOMAIN d.spaces \in SUBSET AgentId
  BY DiskFields DEF Sound
<1>3. Sound(e)
  BY <1>1 DEF Sound
<1>4. SoulKept(d, e, ids)
  BY <1>1, <1>2 DEF SoulKept
<1> QED BY <1>1, <1>3, <1>4 DEF Write

\* Later writes follow earlier ones.
LEMMA WriteAfter ==
  ASSUME NEW d \in Disk, NEW e \in Disk, NEW g, NEW ids, Write(d, e, ids), Write(e, g, ids)
  PROVE  Write(d, g, ids)
BY DEF Write, SoulKept

\* One operation after another: what the writes of both promise.
LEMMA WritesAfter ==
  ASSUME NEW d, Sound(d), NEW t, NEW u, NEW ids, Writes(d, t, ids), Writes(After(d, t), u, ids)
  PROVE  /\ Writes(d, t \o u, ids)
         /\ After(d, t \o u) = After(After(d, t), u)
         /\ After(d, t) \in Disk /\ Sound(After(d, t))
<1>1. t \in Seq(Disk) /\ u \in Seq(Disk)
  BY DEF Writes
<1>2. /\ t \o u \in Seq(Disk)
      /\ Len(t \o u) = Len(t) + Len(u)
      /\ \A i \in 1 .. Len(t) + Len(u) : (t \o u)[i] = IF i <= Len(t) THEN t[i] ELSE u[i - Len(t)]
  BY <1>1, ConcatProperties
<1>3. Len(t) \in Nat /\ Len(u) \in Nat
  BY <1>1, LenProperties
<1>4. t # <<>> => Len(t) \in 1..Len(t) /\ After(d, t) = t[Len(t)]
  <2>1. t # <<>> => Len(t) \in Nat \ {0}
    BY <1>1, EmptySeq
  <2> QED BY <2>1 DEF After, Last
<1>5. After(d, t) \in Disk /\ Sound(After(d, t)) /\ (t # <<>> => Write(d, After(d, t), ids))
  <2>1. CASE t = <<>>
    BY <2>1 DEF After, Sound
  <2>2. CASE t # <<>>
    BY <2>2, <1>4 DEF Writes, Write, Sound
  <2> QED BY <2>1, <2>2
<1>6. ASSUME NEW i \in 1..Len(t \o u) PROVE Write(d, (t \o u)[i], ids)
  <2>1. CASE i <= Len(t)
    <3>1. i \in 1..Len(t) /\ (t \o u)[i] = t[i]
      BY <2>1, <1>2, <1>3
    <3> QED BY <3>1 DEF Writes
  <2>2. CASE ~(i <= Len(t))
    <3>1. i - Len(t) \in 1..Len(u) /\ (t \o u)[i] = u[i - Len(t)]
      BY <2>2, <1>2, <1>3
    <3>2. Write(After(d, t), u[i - Len(t)], ids)
      BY <3>1 DEF Writes
    <3>3. CASE t = <<>>
      <4>1. After(d, t) = d
        BY <3>3 DEF After
      <4> QED BY <4>1, <3>1, <3>2
    <3>4. CASE t # <<>>
      BY <3>4, <3>1, <3>2, <1>5, WriteAfter DEF Sound
    <3> QED BY <3>3, <3>4
  <2> QED BY <2>1, <2>2
<1>7. After(d, t \o u) = After(After(d, t), u)
  <2>1. CASE u = <<>>
    <3>1. t \o u = t
      BY <2>1, <1>1, ConcatEmptySeq
    <3>2. After(After(d, t), u) = After(d, t)
      BY <2>1 DEF After
    <3> QED BY <3>1, <3>2
  <2>2. CASE u # <<>>
    <3>1. Len(u) \in Nat \ {0}
      BY <2>2, <1>1, EmptySeq
    <3>2. t \o u # <<>>
      BY <3>1, <1>2, <1>3
    <3>3. Len(t \o u) \in 1..(Len(t) + Len(u)) /\ ~(Len(t \o u) <= Len(t)) /\ Len(t \o u) - Len(t) = Len(u)
      BY <3>1, <1>2, <1>3
    <3>4. (t \o u)[Len(t \o u)] = u[Len(u)]
      BY <3>3, <1>2
    <3>5. After(d, t \o u) = (t \o u)[Len(t \o u)]
      BY <3>2 DEF After, Last
    <3>6. After(After(d, t), u) = u[Len(u)]
      BY <2>2 DEF After, Last
    <3> QED BY <3>4, <3>5, <3>6
  <2> QED BY <2>1, <2>2
<1> QED BY <1>2, <1>5, <1>6, <1>7 DEF Writes

\* An operation of one write.
LEMMA OneWrite ==
  ASSUME NEW d, NEW a, NEW ids, Write(d, a, ids)
  PROVE  Writes(d, <<a>>, ids) /\ After(d, <<a>>) = a
<1>1. a \in Disk
  BY DEF Write, Sound
<1>2. <<a>> \in Seq(Disk) /\ Len(<<a>>) = 1 /\ <<a>>[1] = a /\ <<a>> # <<>>
  BY <1>1
<1> QED BY <1>2 DEF Writes, After, Last

\* An operation of two writes.
LEMMA TwoWrites ==
  ASSUME NEW d, NEW a, NEW b, NEW ids, Write(d, a, ids), Write(d, b, ids)
  PROVE  Writes(d, <<a, b>>, ids) /\ After(d, <<a, b>>) = b
<1>1. a \in Disk /\ b \in Disk
  BY DEF Write, Sound
<1>2. <<a, b>> \in Seq(Disk) /\ Len(<<a, b>>) = 2 /\ <<a, b>>[1] = a /\ <<a, b>>[2] = b /\ <<a, b>> # <<>>
  BY <1>1
<1>3. \A i \in 1..2 : i = 1 \/ i = 2
  OBVIOUS
<1> QED BY <1>2, <1>3 DEF Writes, After, Last

\* An operation of three writes.
LEMMA ThreeWrites ==
  ASSUME NEW d, NEW a, NEW b, NEW c, NEW ids, Write(d, a, ids), Write(d, b, ids), Write(d, c, ids)
  PROVE  Writes(d, <<a, b, c>>, ids) /\ After(d, <<a, b, c>>) = c
<1>1. a \in Disk /\ b \in Disk /\ c \in Disk
  BY DEF Write, Sound
<1>2. <<a, b, c>> \in Seq(Disk) /\ Len(<<a, b, c>>) = 3 /\ <<a, b, c>>[1] = a /\ <<a, b, c>>[2] = b
      /\ <<a, b, c>>[3] = c /\ <<a, b, c>> # <<>>
  BY <1>1
<1>3. \A i \in 1..3 : i = 1 \/ i = 2 \/ i = 3
  OBVIOUS
<1> QED BY <1>2, <1>3 DEF Writes, After, Last

\* An operation that writes nothing.
LEMMA NoWrites ==
  ASSUME NEW d, NEW ids
  PROVE  Writes(d, <<>>, ids) /\ After(d, <<>>) = d
BY DEF Writes, After

\* The workspaces stay and keep their names.
Grows(d, e) ==
  /\ DOMAIN d.spaces \subseteq DOMAIN e.spaces
  /\ \A x \in DOMAIN d.spaces : e.spaces[x] = d.spaces[x]

\* A name that is taken stays taken while workspaces are only added.
LEMMA TakenStays ==
  ASSUME NEW d, NEW e, Grows(d, e), NEW name, Taken(d.spaces, name)
  PROVE  Taken(e.spaces, name)
BY DEF Grows, Taken

\* Creating a workspace adds at most its id, with a free name, and harms no soul.
LEMMA CreatedWorkspace ==
  ASSUME NEW d, Sound(d), NEW id \in AgentId, NEW name \in Name, NEW ids,
         id \in DOMAIN d.spaces \/ d.dir[id] # "own" \/ id \in ids
  PROVE  LET trail == CreateWorkspace(d, id, name)
             e == After(d, trail)
         IN  /\ Writes(d, trail, ids)
             /\ Grows(d, e) /\ e.agents = d.agents /\ Sound(e)
             /\ id \in DOMAIN e.spaces \/ Taken(d.spaces, name)
             /\ DOMAIN e.spaces # {}
             /\ Registered(d) => Registered(e)
             /\ DOMAIN d.spaces = {} /\ Confined(d) /\ id = DefaultId =>
                  Registered(e) /\ \A i \in 1..Len(trail) : Confined(trail[i])
             /\ trail # <<>> => e.dir[id] = "stock" /\ id \in DOMAIN e.spaces
<1> DEFINE trail == CreateWorkspace(d, id, name)
<1>1. CASE id \in DOMAIN d.spaces \/ Taken(d.spaces, name)
  <2>1. trail = <<>>
    BY <1>1 DEF CreateWorkspace
  <2>2. Writes(d, trail, ids) /\ After(d, trail) = d
    BY <2>1, NoWrites
  <2>3. DOMAIN d.spaces # {}
    BY <1>1 DEF Taken
  <2>4. DOMAIN d.spaces = {} => FALSE
    BY <2>3
  <2> QED BY <2>1, <2>2, <2>3, <2>4, <1>1 DEF Grows
<1>2. CASE ~(id \in DOMAIN d.spaces \/ Taken(d.spaces, name))
  <2> DEFINE state == IF HasSoul(d, id) THEN d.dir[id] ELSE "bare"
             bare == WithDir(d, id, state)
             filled == WithDir(bare, id, "stock")
             spaces == Remember(d.spaces, id, name)
             default == IF d.default = NoWorkspace THEN id ELSE d.default
             made == WithSpaces(filled, spaces, default)
  <2>1. d \in Disk
    BY DEF Sound
  <2>2. state \in DirState
    BY DEF HasSoul, DirState
  <2>3. Write(d, bare, ids)
    BY <1>2, <2>2, DirSound
  <2>4. /\ bare \in Disk /\ bare.agents = d.agents /\ bare.spaces = d.spaces /\ bare.default = d.default
        /\ bare.dir[id] = state
        /\ \A x \in AgentId : x # id => bare.dir[x] = d.dir[x]
    BY <2>1, <2>2, DirWrite
  <2>24. state # "own" \/ id \in ids
    BY <1>2
  <2>0. bare = WithDir(d, id, state) /\ bare = [d EXCEPT !.dir[id] = IF HasSoul(d, id) THEN @ ELSE "bare"]
    BY <2>1 DEF WithDir, Disk
  <2> HIDE DEF state, bare
  <2>5. "stock" \in DirState
    BY DEF DirState
  <2>6. /\ filled \in Disk /\ filled.agents = d.agents /\ filled.spaces = d.spaces /\ filled.default = d.default
        /\ filled.dir[id] = "stock"
        /\ \A x \in AgentId : x # id => filled.dir[x] = d.dir[x]
    <3>1. filled = WithDir(bare, id, "stock")
      OBVIOUS
    <3> HIDE DEF filled
    <3>2. /\ filled \in Disk /\ filled.agents = bare.agents /\ filled.spaces = bare.spaces /\ filled.default = bare.default
          /\ filled.dir[id] = "stock"
          /\ \A x \in AgentId : x # id => filled.dir[x] = bare.dir[x]
      BY <3>1, <2>4, <2>5, DirWrite
    <3> QED BY <3>2, <2>4
  <2>7. Write(bare, filled, ids)
    <3>1. Sound(bare)
      BY <2>3 DEF Write
    <3>2. bare.dir[id] # "own" \/ id \in ids
      BY <2>4, <2>24
    <3>3. filled = WithDir(bare, id, "stock")
      OBVIOUS
    <3> HIDE DEF filled
    <3> QED BY <3>1, <3>2, <3>3, <2>5, DirSound
  <2>8. Write(d, filled, ids)
    BY <2>1, <2>3, <2>4, <2>6, <2>7, WriteAfter
  <2>9. trail = <<bare, filled, made>>
    <3>1. filled.spaces = d.spaces /\ filled.default = d.default
      BY <2>6
    <3>2. made = [filled EXCEPT !.spaces = Remember(@, id, name), !.default = IF @ = NoWorkspace THEN id ELSE @]
      BY <3>1, <2>6 DEF Disk, WithSpaces
    <3>3. filled = Filled(bare, id)
      BY DEF Filled, WithDir
    <3>4. trail = LET b == [d EXCEPT !.dir[id] = IF HasSoul(d, id) THEN @ ELSE "bare"]
                      f == Filled(b, id)
                  IN  <<b, f, [f EXCEPT !.spaces = Remember(@, id, name),
                                        !.default = IF @ = NoWorkspace THEN id ELSE @]>>
      BY <1>2 DEF CreateWorkspace
    <3> HIDE DEF filled, made, trail
    <3> QED BY <3>2, <3>3, <3>4, <2>0
  <2>10. /\ d.spaces \in Book /\ d.default \in AgentId \cup {NoWorkspace} /\ DOMAIN d.spaces \in SUBSET AgentId
         /\ filled.agents \in Book /\ filled.dir \in [AgentId -> DirState]
    BY <2>1, <2>6, DiskFields
  <2>11. /\ spaces \in Book
         /\ DOMAIN spaces = DOMAIN d.spaces \cup {id}
         /\ spaces[id] = name
         /\ \A x \in DOMAIN d.spaces : x # id => spaces[x] = d.spaces[x]
    BY <2>10, IdsAreKept
  <2>12. default \in AgentId \cup {NoWorkspace} /\ default \in DOMAIN spaces
    BY <2>10, <2>11 DEF Sound
  <2> HIDE DEF spaces, default
  <2>13. /\ made.agents = filled.agents /\ made.spaces = spaces /\ made.default = default
         /\ made.dir = filled.dir /\ made \in Disk
    <3>1. made = WithSpaces(filled, spaces, default)
      OBVIOUS
    <3> HIDE DEF made
    <3> QED BY <3>1, <2>6, <2>11, <2>12, DiskWith
  <2>15. made \in Disk
    BY <2>13
  <2> HIDE DEF made
  <2>16. Sound(made)
    <3>1. ASSUME NEW v \in DOMAIN made.spaces, NEW w \in DOMAIN made.spaces, made.spaces[v] = made.spaces[w]
          PROVE  v = w
      <4>1. v \in DOMAIN d.spaces \cup {id} /\ w \in DOMAIN d.spaces \cup {id} /\ spaces[v] = spaces[w]
        BY <3>1, <2>11, <2>13
      <4>2. \A x \in DOMAIN d.spaces : spaces[x] = d.spaces[x] /\ d.spaces[x] # name
        BY <1>2, <2>11 DEF Taken
      <4>3. CASE v = id
        BY <4>1, <4>2, <4>3, <2>11
      <4>4. CASE w = id
        BY <4>1, <4>2, <4>4, <2>11
      <4>5. CASE v # id /\ w # id
        BY <4>1, <4>2, <4>5 DEF Sound
      <4> QED BY <4>3, <4>4, <4>5
    <3>2. made.default \in DOMAIN made.spaces /\ DOMAIN made.spaces # {}
      BY <2>12, <2>13
    <3> QED BY <3>1, <3>2, <2>15 DEF Sound
  <2>17. SoulKept(d, made, ids)
    BY <1>2, <2>6, <2>10, <2>13 DEF SoulKept
  <2>18. Write(d, made, ids)
    BY <2>11, <2>13, <2>16, <2>17 DEF Write
  <2>19. Writes(d, trail, ids) /\ After(d, trail) = made
    BY <2>3, <2>8, <2>9, <2>18, ThreeWrites
  <2>20. Grows(d, made)
    BY <1>2, <2>11, <2>13 DEF Grows
  <2>21. Registered(d) => Registered(made)
    BY <2>6, <2>11, <2>13 DEF Registered
  <2>23. ASSUME DOMAIN d.spaces = {}, Confined(d), id = DefaultId
         PROVE  Registered(made) /\ \A i \in 1..Len(trail) : Confined(trail[i])
    <3>1. Registered(made)
      <4> SUFFICES ASSUME NEW x \in AgentId, made.dir[x] # "absent" PROVE x \in DOMAIN made.spaces
        BY DEF Registered
      <4>1. x = id \/ d.dir[x] # "absent"
        BY <2>6, <2>13
      <4> QED BY <4>1, <2>11, <2>13, <2>23 DEF Confined
    <3>2. Confined(bare) /\ Confined(filled)
      BY <2>4, <2>6, <2>23 DEF Confined
    <3>3. Confined(made)
      BY <2>11, <2>13 DEF Confined
    <3>4. trail = <<bare, filled, made>>
      BY <2>9
    <3> HIDE DEF filled, trail
    <3>5. \A i \in 1..3 : i = 1 \/ i = 2 \/ i = 3
      OBVIOUS
    <3> QED BY <3>1, <3>2, <3>3, <3>4, <3>5
  <2>22. made.dir[id] = "stock" /\ id \in DOMAIN made.spaces /\ made.agents = d.agents
    BY <2>6, <2>11, <2>13
  <2> QED BY <2>11, <2>13, <2>16, <2>19, <2>20, <2>21, <2>22, <2>23
<1> QED BY <1>1, <1>2

\* Deleting one leaves a workspace where there was one, and every directory registered.
LEMMA DeletedWorkspace ==
  ASSUME NEW d, Sound(d), NEW id \in AgentId, NEW force \in BOOLEAN, NEW ids, force => id \in ids
  PROVE  LET trail == DeleteWorkspace(d, id, force)
             e == After(d, trail)
         IN  /\ Writes(d, trail, ids)
             /\ DOMAIN d.spaces # {} => DOMAIN e.spaces # {}
             /\ Registered(d) => Registered(e)
<1> DEFINE trail == DeleteWorkspace(d, id, force)
           refused == id \notin DOMAIN d.spaces \/ Cardinality(DOMAIN d.spaces) = 1 \/ (~force /\ HasSoul(d, id))
<1>1. CASE refused
  <2>1. trail = <<>>
    BY <1>1 DEF DeleteWorkspace
  <2> QED BY <2>1, NoWrites
<1>2. CASE ~refused
  <2> DEFINE gone == WithDir(d, id, "absent")
             left == DOMAIN d.spaces \ {id}
             spaces == Forget(d.spaces, id)
             default == IF d.default = id THEN CHOOSE x \in left : TRUE ELSE d.default
             made == WithSpaces(gone, spaces, default)
  <2>1. d \in Disk
    BY DEF Sound
  <2>2. "absent" \in DirState /\ "absent" # "own" /\ "absent" # "stock"
    BY DEF DirState
  <2>3. d.dir[id] # "own" \/ id \in ids
    BY <1>2 DEF HasSoul
  <2>4. Write(d, gone, ids)
    BY <1>2, <2>2, <2>3, DirSound
  <2>5. /\ gone \in Disk /\ gone.agents = d.agents /\ gone.spaces = d.spaces /\ gone.default = d.default
        /\ gone.dir[id] = "absent"
        /\ \A x \in AgentId : x # id => gone.dir[x] = d.dir[x]
    BY <2>1, <2>2, DirWrite
  <2> HIDE DEF gone
  <2>6. trail = <<gone, made>>
    <3>1. made = [gone EXCEPT !.spaces = Forget(@, id), !.default = IF @ = id THEN CHOOSE x \in left : TRUE ELSE @]
      BY <2>5 DEF Disk, WithSpaces
    <3> QED BY <1>2, <3>1 DEF DeleteWorkspace, WithDir, gone
  <2>7. left # {}
    <3>1. SUFFICES ASSUME left = {} PROVE FALSE
      OBVIOUS
    <3>2. DOMAIN d.spaces = {id}
      BY <3>1, <1>2
    <3>3. Cardinality({id}) = 1
      BY FS_Singleton
    <3>4. Cardinality(DOMAIN d.spaces) = 1
      BY <3>2, <3>3
    <3> QED BY <3>4, <1>2
  <2>8. (CHOOSE x \in left : TRUE) \in left
    BY <2>7
  <2>9. /\ d.spaces \in Book /\ d.default \in AgentId \cup {NoWorkspace} /\ DOMAIN d.spaces \in SUBSET AgentId
        /\ gone.agents \in Book /\ gone.dir \in [AgentId -> DirState]
    BY <2>1, <2>5, DiskFields
  <2>10. /\ spaces \in Book
         /\ DOMAIN spaces = left
         /\ \A x \in left : spaces[x] = d.spaces[x]
    BY <2>9, IdsGoAway
  <2>11. default \in left /\ default \in AgentId \cup {NoWorkspace}
    BY <1>2, <2>8, <2>9 DEF Sound
  <2> HIDE DEF spaces, default
  <2>12. /\ made.agents = gone.agents /\ made.spaces = spaces /\ made.default = default
         /\ made.dir = gone.dir /\ made \in Disk
    <3>1. made = WithSpaces(gone, spaces, default)
      OBVIOUS
    <3> HIDE DEF made
    <3> QED BY <3>1, <2>5, <2>10, <2>11, DiskWith
  <2>14. made \in Disk
    BY <2>12
  <2> HIDE DEF made, left
  <2>15. Sound(made)
    <3>1. ASSUME NEW v \in DOMAIN made.spaces, NEW w \in DOMAIN made.spaces, made.spaces[v] = made.spaces[w]
          PROVE  v = w
      <4>1. v \in left /\ w \in left /\ d.spaces[v] = d.spaces[w]
        BY <3>1, <2>10, <2>12
      <4> QED BY <4>1 DEF Sound, left
    <3> QED BY <3>1, <2>7, <2>10, <2>11, <2>12, <2>14 DEF Sound
  <2>16. SoulKept(d, made, ids)
    BY <2>3, <2>5, <2>9, <2>12 DEF SoulKept
  <2>17. Write(d, made, ids)
    BY <2>7, <2>10, <2>12, <2>15, <2>16 DEF Write
  <2>18. Writes(d, trail, ids) /\ After(d, trail) = made
    BY <2>4, <2>6, <2>17, TwoWrites
  <2>19. Registered(d) => Registered(made)
    BY <2>5, <2>10, <2>12 DEF Registered, left
  <2> QED BY <2>7, <2>10, <2>12, <2>18, <2>19
<1> QED BY <1>1, <1>2

\* The files of the agents matter to no other.
LEMMA AgentsWritten ==
  ASSUME NEW d \in Disk, NEW e, NEW ids, Write(d, e, ids), NEW a \in Book, NEW x, x = WithAgents(e, a)
  PROVE  Write(d, x, ids) /\ x.agents = a /\ x.spaces = e.spaces /\ x.default = e.default /\ x.dir = e.dir
<1>1. e \in Disk
  BY DEF Write, Sound
<1>2. x \in Disk /\ x.agents = a /\ x.spaces = e.spaces /\ x.default = e.default /\ x.dir = e.dir
  BY <1>1, DiskWithAgents
<1>3. Sound(x) /\ SoulKept(d, x, ids)
  BY <1>2 DEF Write, Sound, SoulKept
<1> QED BY <1>2, <1>3 DEF Write

\* Writing what is there already.
LEMMA SelfWrite ==
  ASSUME NEW d, Sound(d), NEW ids PROVE Write(d, d, ids)
BY DEF Write, SoulKept

\* One write more at the end of an operation.
LEMMA OneMore ==
  ASSUME NEW d, NEW t, NEW x, NEW ids, Writes(d, t, ids), Write(d, x, ids)
  PROVE  Writes(d, Append(t, x), ids) /\ After(d, Append(t, x)) = x
<1>1. t \in Seq(Disk) /\ x \in Disk
  BY DEF Writes, Write, Sound
<1>2. /\ Append(t, x) \in Seq(Disk) /\ Append(t, x) # <<>> /\ Len(Append(t, x)) = Len(t) + 1
      /\ \A i \in 1..Len(t) : Append(t, x)[i] = t[i]
      /\ Append(t, x)[Len(t) + 1] = x
  BY <1>1, AppendProperties
<1>3. Len(t) \in Nat
  BY <1>1, LenProperties
<1>4. ASSUME NEW i \in 1..Len(Append(t, x)) PROVE Write(d, Append(t, x)[i], ids)
  <2>1. CASE i = Len(t) + 1
    BY <2>1, <1>2
  <2>2. CASE i # Len(t) + 1
    <3>1. i \in 1..Len(t)
      BY <2>2, <1>2, <1>3
    <3> QED BY <3>1, <1>2 DEF Writes
  <2> QED BY <2>1, <2>2
<1>5. After(d, Append(t, x)) = x
  BY <1>2 DEF After, Last
<1> QED BY <1>2, <1>4, <1>5 DEF Writes

\* What an operation ended with.
LEMMA AfterWrites ==
  ASSUME NEW d, Sound(d), NEW t, NEW ids, Writes(d, t, ids)
  PROVE  Write(d, After(d, t), ids) /\ Sound(After(d, t)) /\ After(d, t) \in Disk
<1>1. CASE t = <<>>
  BY <1>1, SelfWrite DEF After, Sound
<1>2. CASE t # <<>>
  <2>1. Len(t) \in 1..Len(t) /\ After(d, t) = t[Len(t)]
    <3>1. Len(t) \in Nat \ {0}
      BY <1>2, EmptySeq DEF Writes
    <3> QED BY <3>1, <1>2 DEF After, Last
  <2> QED BY <2>1 DEF Writes, Write, Sound
<1> QED BY <1>1, <1>2

\* Creating an agent, its workspace and its files keeps what the registry promises.
LEMMA CreatedAgent ==
  ASSUME NEW d, Sound(d), NEW id \in AgentId, NEW name \in Name,
         NEW template \in BOOLEAN, NEW ids,
         d.dir[id] # "own" \/ id \in ids
  PROVE  LET trail == CreateAgent(d, id, name, template)
             e == After(d, trail)
         IN  /\ Writes(d, trail, ids)
             /\ Grows(d, e) /\ (Registered(d) => Registered(e))
             /\ \/ e.agents = d.agents
                \/ /\ DOMAIN e.agents = DOMAIN d.agents \cup {id}
                   /\ \A x \in DOMAIN d.agents \ {id} : e.agents[x] = d.agents[x]
<1> DEFINE trail == CreateAgent(d, id, name, template)
           stock == WithDir(d, id, "stock")
           made == IF id \in DOMAIN d.spaces THEN <<stock>> ELSE CreateWorkspace(d, id, name)
           book == Remember(After(d, made).agents, id, name)
           last == WithAgents(After(d, made), book)
<1>0. d \in Disk
  BY DEF Sound
<1>1. /\ Writes(d, made, ids)
      /\ Grows(d, After(d, made)) /\ After(d, made).agents = d.agents
      /\ (Registered(d) => Registered(After(d, made)))
  <2>1. CASE id \in DOMAIN d.spaces
    <3>1. "stock" \in DirState
      BY DEF DirState
    <3>2. stock.agents = d.agents /\ stock.spaces = d.spaces
          /\ \A x \in AgentId : x # id => stock.dir[x] = d.dir[x]
      BY <1>0, <3>1, DirWrite
    <3>3. Write(d, stock, ids)
      BY <3>1, DirSound
    <3> HIDE DEF stock
    <3>4. Writes(d, <<stock>>, ids) /\ After(d, <<stock>>) = stock
      BY <3>3, OneWrite
    <3>5. Grows(d, stock) /\ (Registered(d) => Registered(stock))
      BY <2>1, <3>2 DEF Grows, Registered
    <3> QED BY <2>1, <3>2, <3>4, <3>5
  <2>2. CASE id \notin DOMAIN d.spaces
    <3>1. made = CreateWorkspace(d, id, name)
      BY <2>2
    <3> QED BY <3>1, CreatedWorkspace
  <2> QED BY <2>1, <2>2
<1>2. \/ trail = <<>>
      \/ trail = Append(made, last)
  <2>1. \/ trail = <<>>
        \/ trail = Append(made, [After(d, made) EXCEPT !.agents = Remember(@, id, name)])
    BY DEF CreateAgent, WithDir
  <2>2. last = [After(d, made) EXCEPT !.agents = Remember(@, id, name)]
    <3>1. After(d, made) \in Disk
      BY <1>1, AfterWrites
    <3> HIDE DEF made
    <3> QED BY <3>1 DEF WithAgents, Disk
  <2> QED BY <2>1, <2>2
<1> HIDE DEF made
<1>3. CASE trail = <<>>
  <2>1. Writes(d, trail, ids) /\ After(d, trail) = d
    BY <1>3, NoWrites
  <2> QED BY <2>1 DEF Grows
<1>4. CASE trail = Append(made, last)
  <2>1. Write(d, After(d, made), ids)
    BY <1>1, AfterWrites
  <2>2. d.agents \in Book
    BY <1>0, DiskFields
  <2>3. book \in Book /\ DOMAIN book = DOMAIN d.agents \cup {id}
        /\ \A x \in DOMAIN d.agents : x # id => book[x] = d.agents[x]
    <3>1. book = Remember(d.agents, id, name)
      BY <1>1
    <3>2. /\ Remember(d.agents, id, name) \in Book
          /\ DOMAIN Remember(d.agents, id, name) = DOMAIN d.agents \cup {id}
          /\ \A x \in DOMAIN d.agents : x # id => Remember(d.agents, id, name)[x] = d.agents[x]
      BY <2>2, IdsAreKept
    <3> HIDE DEF book
    <3> QED BY <3>1, <3>2
  <2> HIDE DEF book
  <2>4. last = WithAgents(After(d, made), book)
    OBVIOUS
  <2> HIDE DEF last
  <2>5. Write(d, last, ids) /\ last.agents = book /\ last.spaces = After(d, made).spaces
        /\ last.dir = After(d, made).dir
    BY <1>0, <2>1, <2>3, <2>4, AgentsWritten
  <2>6. Writes(d, trail, ids) /\ After(d, trail) = last
    BY <1>1, <1>4, <2>5, OneMore
  <2>7. Grows(d, last) /\ (Registered(d) => Registered(last))
    BY <1>1, <2>5 DEF Grows, Registered
  <2>8. DOMAIN last.agents = DOMAIN d.agents \cup {id}
        /\ \A x \in DOMAIN d.agents \ {id} : last.agents[x] = d.agents[x]
    BY <2>3, <2>5
  <2> QED BY <2>6, <2>7, <2>8
<1> QED BY <1>2, <1>3, <1>4

\* Deleting an agent does, whether its workspace is preserved or not.
LEMMA DeletedAgent ==
  ASSUME NEW d, Sound(d), NEW id \in AgentId,
         NEW force \in BOOLEAN, NEW preserve \in BOOLEAN, NEW ids, force => id \in ids
  PROVE  LET trail == DeleteAgent(d, id, force, preserve)
             e == After(d, trail)
         IN  /\ Writes(d, trail, ids)
             /\ e.spaces = d.spaces /\ (Registered(d) => Registered(e))
<1> DEFINE trail == DeleteAgent(d, id, force, preserve)
           refused == id \notin DOMAIN d.agents \/ (~force /\ HasSoul(d, id))
<1>0. d \in Disk
  BY DEF Sound
<1>1. CASE refused
  <2>1. trail = <<>>
    BY <1>1 DEF DeleteAgent
  <2>2. Writes(d, trail, ids) /\ After(d, trail) = d
    BY <2>1, NoWrites
  <2> QED BY <2>2
<1>2. CASE ~refused
  <2> DEFINE gone == IF preserve THEN d ELSE WithDir(d, id, "absent")
             book == Forget(d.agents, id)
             last == WithAgents(gone, book)
  <2>1. Write(d, gone, ids) /\ gone.agents = d.agents /\ gone.spaces = d.spaces
        /\ \A x \in AgentId : gone.dir[x] = d.dir[x] \/ gone.dir[x] = "absent"
    <3>1. CASE preserve
      BY <3>1, SelfWrite
    <3>2. CASE ~preserve
      <4>1. "absent" \in DirState
        BY DEF DirState
      <4>2. d.dir[id] # "own" \/ id \in ids
        BY <1>2 DEF HasSoul
      <4>3. gone = WithDir(d, id, "absent")
        BY <3>2
      <4> HIDE DEF gone
      <4>4. Write(d, gone, ids)
        BY <4>1, <4>2, <4>3, DirSound
      <4>5. gone.agents = d.agents /\ gone.spaces = d.spaces /\ gone.dir[id] = "absent"
            /\ \A x \in AgentId : x # id => gone.dir[x] = d.dir[x]
        BY <1>0, <4>1, <4>3, DirWrite
      <4> QED BY <4>4, <4>5
    <3> QED BY <3>1, <3>2
  <2>2. gone \in Disk
    BY <2>1 DEF Write, Sound
  <2>3. last = [gone EXCEPT !.agents = Forget(@, id)]
    <3> HIDE DEF gone
    <3> QED BY <2>1, <2>2 DEF WithAgents, Disk
  <2>4. trail = <<gone, last>>
    <3>1. trail = LET g == IF preserve THEN d ELSE [d EXCEPT !.dir[id] = "absent"]
                  IN  <<g, [g EXCEPT !.agents = Forget(@, id)]>>
      BY <1>2 DEF DeleteAgent
    <3>2. gone = IF preserve THEN d ELSE [d EXCEPT !.dir[id] = "absent"]
      BY DEF WithDir
    <3> HIDE DEF trail, gone, last
    <3> QED BY <2>3, <3>1, <3>2
  <2> HIDE DEF gone
  <2>5. book \in Book
    BY <1>0, DiskFields, IdsGoAway
  <2>6. Write(d, last, ids) /\ last.spaces = d.spaces /\ last.dir = gone.dir
    BY <1>0, <2>1, <2>5, AgentsWritten
  <2> HIDE DEF last
  <2>7. Writes(d, trail, ids) /\ After(d, trail) = last
    BY <2>1, <2>4, <2>6, TwoWrites
  <2>8. Registered(d) => Registered(last)
    BY <2>1, <2>6 DEF Registered
  <2> QED BY <2>6, <2>7, <2>8
<1> QED BY <1>1, <1>2
-----------------------------------------------------------------------------
Served(d, left) ==
  \A id \in DOMAIN d.agents \ DOMAIN d.spaces : id \in left \/ Taken(d.spaces, d.agents[id])

RegInv ==
  /\ Sound(disk) /\ SoundList(file)
  /\ phase \in {"down", "boot", "up"}
  /\ due \subseteq AgentId /\ consent \subseteq AgentId
  /\ main \in AgentId \union {NoWorkspace} /\ failed \in BOOLEAN
  /\ phase = "down" \/ ~failed => WorkspaceList(disk) = file
  /\ phase = "down" /\ ~failed => Confined(disk)
  /\ phase # "down" /\ ~failed => DOMAIN disk.spaces # {} /\ Registered(disk)
  /\ phase = "boot" => due \subseteq DOMAIN disk.agents /\ main \in AgentId
  /\ phase = "boot" /\ ~failed => Served(disk, due) /\ main \in DOMAIN disk.spaces

\* Nothing is lost from the state before to the one after, and a boot that has
\* ended has served every agent.
RegGood == RegInv' /\ OwnSoulsStay /\ AgentsAreServed

\* A sound list of workspaces is what memory and file have.
LEMMA ListOf ==
  ASSUME NEW d, Sound(d)
  PROVE  SoundList(WorkspaceList(d)) /\ WorkspaceList(d).spaces = d.spaces /\ WorkspaceList(d).default = d.default
<1>1. d.spaces \in Book /\ d.default \in AgentId \cup {NoWorkspace}
  BY DiskFields DEF Sound
<1> QED BY <1>1 DEF Sound, SoundList, WorkspaceList

\* The list is read again: all else is as it was.
LEMMA ReloadIs ==
  ASSUME NEW d \in Disk, NEW l, SoundList(l), NEW e, e = Reloaded(d, l)
  PROVE  /\ Sound(e) /\ e.agents = d.agents /\ e.dir = d.dir
         /\ e.spaces = l.spaces /\ e.default = l.default
         /\ WorkspaceList(e) = l
         /\ WorkspaceList(d) = l => e = d
<1>1. e = WithSpaces(d, l.spaces, l.default)
  BY DEF Reloaded, WithSpaces
<1>2. l.spaces \in Book /\ l.default \in AgentId \cup {NoWorkspace}
  BY DEF SoundList
<1>3. /\ e \in Disk /\ e.agents = d.agents /\ e.spaces = l.spaces /\ e.default = l.default /\ e.dir = d.dir
  BY <1>1, <1>2, DiskWith
<1>4. Sound(e)
  BY <1>3 DEF Sound, SoundList
<1>5. WorkspaceList(e) = l
  BY <1>3 DEF WorkspaceList, SoundList
<1>6. WorkspaceList(d) = l => e = d
  <2>1. WorkspaceList(d) = l => l.spaces = d.spaces /\ l.default = d.default
    BY DEF WorkspaceList
  <2> QED BY <2>1, <1>1 DEF WithSpaces, Disk
<1> QED BY <1>3, <1>4, <1>5, <1>6

\* What a handler may begin with: memory, or memory after the file was read again.
LEMMA FromIs ==
  ASSUME RegInv, NEW from \in {disk, Reloaded(disk, file)}
  PROVE  /\ Sound(from) /\ from \in Disk /\ from.agents = disk.agents /\ from.dir = disk.dir
         /\ ~failed => from = disk /\ WorkspaceList(from) = file
         /\ phase # "down" /\ ~failed => DOMAIN from.spaces # {} /\ Registered(from)
<1>1. disk \in Disk /\ Sound(disk) /\ SoundList(file)
  BY DEF RegInv, Sound
<1>2. CASE from = disk
  BY <1>1, <1>2 DEF RegInv
<1>3. CASE from = Reloaded(disk, file)
  <2>1. /\ Sound(from) /\ from.agents = disk.agents /\ from.dir = disk.dir
        /\ WorkspaceList(from) = file /\ (WorkspaceList(disk) = file => from = disk)
    BY <1>1, <1>3, ReloadIs
  <2> QED BY <2>1, <1>1 DEF RegInv, Sound
<1> QED BY <1>2, <1>3

\* getWorkspace keeps what is in memory when it has the id.
LEMMA ListSeen ==
  ASSUME NEW id
  PROVE  Seen(id) \in {disk, Reloaded(disk, file)} /\ (id \in DOMAIN disk.spaces => Seen(id) = disk)
BY DEF Seen

\* A save of agents.json that fails leaves a write all the same.
LEMMA KeptIs ==
  ASSUME NEW from \in Disk, NEW e, NEW ids, Write(from, e, ids), NEW lost, NEW k, k = MemoryAfter(from, e, lost)
  PROVE  /\ Write(from, k, ids) /\ k \in Disk
         /\ k.spaces = e.spaces /\ k.default = e.default /\ k.dir = e.dir
         /\ k.agents \in {from.agents, e.agents}
         /\ lost = {} => k = e
<1>1. e \in Disk
  BY DEF Write, Sound
<1>2. CASE "agents" \in lost
  <2>1. k = WithAgents(e, from.agents)
    BY <1>2 DEF MemoryAfter, WithAgents
  <2>2. from.agents \in Book
    BY DiskFields
  <2>3. Write(from, k, ids) /\ k.agents = from.agents /\ k.spaces = e.spaces /\ k.default = e.default /\ k.dir = e.dir
    BY <2>1, <2>2, AgentsWritten
  <2> QED BY <2>3, <1>2 DEF Write, Sound
<1>3. CASE "agents" \notin lost
  <2>1. k = e
    BY <1>3 DEF MemoryAfter
  <2> QED BY <2>1, <1>1
<1> QED BY <1>2, <1>3

\* What workspaces.json has after a write is a list some memory had.
LEMMA SavedIs ==
  ASSUME RegInv, NEW from, NEW e, Sound(e), NEW lost
  PROVE  /\ SoundList(FileAfter(from, e, lost))
         /\ lost = {} /\ WorkspaceList(from) = file => FileAfter(from, e, lost) = WorkspaceList(e)
<1>1. SoundList(WorkspaceList(e))
  BY ListOf
<1>2. SoundList(FileAfter(from, e, lost))
  BY <1>1 DEF RegInv, FileAfter
<1>3. ASSUME lost = {}, WorkspaceList(from) = file PROVE FileAfter(from, e, lost) = WorkspaceList(e)
  <2>1. CASE "workspaces" \in FilesChanged(from, e)
    BY <2>1, <1>3 DEF FileAfter
  <2>2. CASE "workspaces" \notin FilesChanged(from, e)
    <3>1. WorkspaceList(e) = WorkspaceList(from)
      BY <2>2 DEF FilesChanged
    <3> QED BY <3>1, <2>2, <1>3 DEF FileAfter
  <2> QED BY <2>1, <2>2
<1> QED BY <1>2, <1>3

\* A step that leaves the program running with what an operation has written.
LEMMA StaysWell ==
  ASSUME RegInv, NEW from \in {disk, Reloaded(disk, file)}, NEW e, NEW ids, NEW lost,
         Write(from, e, ids), LivesOn(from, e, lost),
         consent' \in SUBSET AgentId, \A x \in DOMAIN disk.spaces : x \in ids => x \in consent'
  PROVE  /\ Sound(disk)' /\ SoundList(file)' /\ OwnSoulsStay
         /\ disk'.spaces = e.spaces /\ disk'.default = e.default /\ disk'.dir = e.dir
         /\ disk'.agents \in {from.agents, e.agents}
         /\ lost = {} => disk' = e
         /\ lost = {} /\ WorkspaceList(from) = file => WorkspaceList(disk)' = file'
<1>1. Sound(from) /\ from \in Disk /\ from.dir = disk.dir
  BY FromIs
<1>2. disk' = MemoryAfter(from, e, lost) /\ file' = FileAfter(from, e, lost)
  BY DEF LivesOn
<1>3. /\ Write(from, disk', ids) /\ disk'.spaces = e.spaces /\ disk'.default = e.default /\ disk'.dir = e.dir
      /\ disk'.agents \in {from.agents, e.agents}
      /\ lost = {} => disk' = e
  BY <1>1, <1>2, KeptIs
<1>4. Sound(disk)'
  BY <1>3 DEF Write, Sound
<1>5. SoundList(file') /\ (lost = {} /\ WorkspaceList(from) = file => file' = WorkspaceList(e))
  <2>1. Sound(e)
    BY DEF Write
  <2> QED BY <2>1, <1>2, SavedIs
<1>6. SoundList(file)'
  BY <1>5 DEF SoundList
<1>7. lost = {} /\ WorkspaceList(from) = file => WorkspaceList(disk)' = file'
  BY <1>3, <1>5 DEF WorkspaceList
<1>8. DOMAIN disk.spaces \in SUBSET AgentId
  BY DiskFields DEF RegInv, Sound
<1>9. OwnSoulsStay
  BY <1>1, <1>3, <1>8 DEF Write, SoulKept, OwnSoulsStay
<1> QED BY <1>3, <1>4, <1>6, <1>7, <1>9

\* A step that ends the program with what an operation has written.
LEMMA DiesWell ==
  ASSUME RegInv, NEW from \in {disk, Reloaded(disk, file)}, NEW e, NEW ids, NEW lost,
         Write(from, e, ids), Dies(from, e, lost),
         consent' \in SUBSET AgentId, \A x \in DOMAIN disk.spaces : x \in ids => x \in consent',
         failed' \in BOOLEAN,
         ~failed' => lost = {} /\ WorkspaceList(from) = file /\ Confined(e)
  PROVE  RegGood
<1>1. Sound(from) /\ from \in Disk /\ from.dir = disk.dir
  BY FromIs
<1>2. /\ disk' = Reloaded(MemoryAfter(from, e, lost), file') /\ file' = FileAfter(from, e, lost)
      /\ phase' = "down" /\ due' = {} /\ main' = NoWorkspace
  BY DEF Dies
<1> DEFINE k == MemoryAfter(from, e, lost)
<1>3. /\ Write(from, k, ids) /\ k \in Disk /\ k.dir = e.dir
  BY <1>1, KeptIs
<1>5. SoundList(file') /\ (lost = {} /\ WorkspaceList(from) = file => file' = WorkspaceList(e))
  <2>1. Sound(e)
    BY DEF Write
  <2> QED BY <2>1, <1>2, SavedIs
<1> HIDE DEF k
<1>6. Sound(disk') /\ disk'.dir = e.dir /\ WorkspaceList(disk') = file' /\ disk'.spaces = file'.spaces
  BY <1>2, <1>3, <1>5, ReloadIs DEF k
<1>7. Sound(disk)' /\ SoundList(file)' /\ WorkspaceList(disk)' = file'
  BY <1>5, <1>6 DEF Sound, SoundList, WorkspaceList
<1>8. ~failed' => Confined(disk)'
  <2>1. ~failed' => disk'.spaces = e.spaces
    BY <1>5, <1>6 DEF WorkspaceList
  <2> QED BY <2>1, <1>6 DEF Confined
<1>9. DOMAIN disk.spaces \in SUBSET AgentId
  BY DiskFields DEF RegInv, Sound
<1>10. OwnSoulsStay
  BY <1>1, <1>3, <1>6, <1>9 DEF Write, SoulKept, OwnSoulsStay
<1>11. AgentsAreServed
  BY <1>2 DEF AgentsAreServed, up
<1> QED BY <1>2, <1>7, <1>8, <1>10, <1>11 DEF RegGood, RegInv

\* A sound operation that is done, stops or crashes at any of its writes is sound,
\* whatever of it is lost.
LEMMA EndsWell ==
  ASSUME RegInv, NEW from \in {disk, Reloaded(disk, file)}, NEW trail, NEW ids,
         NEW next \in {"boot", "up"}, NEW left \in SUBSET AgentId, NEW bad \in BOOLEAN,
         Writes(from, trail, ids), Ends(from, trail, next, left, bad),
         consent' \in SUBSET AgentId, \A x \in DOMAIN disk.spaces : x \in ids => x \in consent',
         main' \in AgentId \union {NoWorkspace},
         phase' = "boot" => main' \in AgentId /\ (~bad => main' \in DOMAIN After(from, trail).spaces),
         next = "boot" => left \subseteq DOMAIN After(from, trail).agents /\ After(from, trail).agents = from.agents,
         next = "up" => left = {},
         ~bad => /\ WorkspaceList(from) = file
                 /\ DOMAIN After(from, trail).spaces # {} /\ Registered(After(from, trail))
                 /\ (phase = "up" /\ next = "up") \/ Served(After(from, trail), left)
                 /\ \A i \in 1..Len(trail) : Confined(trail[i])
  PROVE  RegGood
<1> DEFINE e == After(from, trail)
<1>0. Sound(from) /\ from \in Disk
  BY FromIs
<1>1. ASSUME NEW lost \in SUBSET FilesChanged(from, After(from, trail)), LivesOn(from, e, lost),
             phase' = next, due' = left, failed' = (bad \/ lost # {})
      PROVE  RegGood
  <2>1. Write(from, e, ids)
    BY <1>0, AfterWrites
  <2> HIDE DEF e
  <2>2. /\ Sound(disk)' /\ SoundList(file)' /\ OwnSoulsStay
        /\ disk'.spaces = e.spaces /\ disk'.default = e.default /\ disk'.dir = e.dir
        /\ disk'.agents \in {from.agents, e.agents}
        /\ lost = {} => disk' = e
        /\ lost = {} /\ WorkspaceList(from) = file => WorkspaceList(disk)' = file'
    BY <1>1, <2>1, StaysWell
  <2>3. failed' \in BOOLEAN /\ (~failed' => ~bad /\ lost = {})
    BY <1>1
  <2>4. phase' # "down"
    BY <1>1
  <2>5. ~failed' => WorkspaceList(disk)' = file' /\ (DOMAIN disk.spaces # {} /\ Registered(disk))'
    BY <2>2, <2>3 DEF Registered, e
  <2>6. phase' = "boot" => due' \subseteq DOMAIN disk'.agents
    BY <1>1, <2>2 DEF e
  <2>7. ~failed' => (phase = "up" /\ phase' = "up") \/ Served(disk', left)
    BY <1>1, <2>2, <2>3 DEF e
  <2>8. phase' = "boot" /\ ~failed' => Served(disk, due)' /\ main' \in DOMAIN disk'.spaces
    BY <1>1, <2>2, <2>3, <2>7 DEF Served, Taken, e
  <2>9. AgentsAreServed
    BY <1>1, <2>7 DEF AgentsAreServed, Served, up
  <2>10. due' \subseteq AgentId
    BY <1>1
  <2> QED BY <1>1, <2>2, <2>3, <2>4, <2>5, <2>6, <2>8, <2>9, <2>10 DEF RegGood, RegInv
<1>2. ASSUME NEW i \in 1 .. Len(trail) - 1, NEW lost \in SUBSET FilesChanged(from, trail[i]),
             \/ /\ next = "up" /\ LivesOn(from, trail[i], lost) /\ phase' = "up" /\ due' = {} /\ failed' = TRUE
             \/ Dies(from, trail[i], lost) /\ failed' = (bad \/ lost # {})
      PROVE  RegGood
  <2>1. i \in 1..Len(trail)
    <3>1. Len(trail) \in Nat
      BY LenProperties DEF Writes
    <3> QED BY <3>1
  <2>2. Write(from, trail[i], ids)
    BY <2>1 DEF Writes
  <2> DEFINE x == trail[i]
  <2> HIDE DEF x
  <2>3. CASE LivesOn(from, x, lost) /\ phase' = "up" /\ due' = {} /\ failed' = TRUE
    <3>1. Sound(disk)' /\ SoundList(file)' /\ OwnSoulsStay
      BY <2>2, <2>3, StaysWell DEF x
    <3>2. AgentsAreServed
      BY <2>3 DEF AgentsAreServed
    <3> QED BY <2>3, <3>1, <3>2 DEF RegGood, RegInv
  <2>4. CASE Dies(from, x, lost) /\ failed' = (bad \/ lost # {})
    <3>1. failed' \in BOOLEAN /\ (~failed' => lost = {} /\ WorkspaceList(from) = file /\ Confined(x))
      BY <2>1, <2>4 DEF x
    <3> QED BY <2>2, <2>4, <3>1, DiesWell DEF x
  <2> QED BY <1>2, <2>3, <2>4 DEF x
<1> QED BY <1>1, <1>2 DEF Ends

\* Where there is a workspace, every write leaves one, and a boot will sweep.
LEMMA NoneConfined ==
  ASSUME NEW d, NEW trail, NEW ids, Writes(d, trail, ids), DOMAIN d.spaces # {}
  PROVE  \A i \in 1..Len(trail) : Confined(trail[i])
BY DEF Writes, Write, Confined

\* The same for an operation of a running program, which does not change the phase.
LEMMA RunsWell ==
  ASSUME RegInv, NEW from \in {disk, Reloaded(disk, file)}, NEW trail, NEW ids \in SUBSET AgentId,
         Runs(from, trail, ids), Writes(from, trail, ids),
         Registered(from) => Registered(After(from, trail))
  PROVE  RegGood
<1>1. phase = "up" /\ consent' = ids /\ main' = NoWorkspace /\ Ends(from, trail, "up", {}, failed)
  BY DEF Runs, up
<1>2. Sound(from) /\ (~failed => WorkspaceList(from) = file /\ DOMAIN from.spaces # {} /\ Registered(from))
  BY <1>1, FromIs
<1>3. DOMAIN from.spaces # {} => DOMAIN After(from, trail).spaces # {}
  BY <1>2, AfterWrites DEF Write
<1>4. DOMAIN from.spaces # {} => \A i \in 1..Len(trail) : Confined(trail[i])
  BY NoneConfined
<1>5. phase' # "boot"
  BY <1>1 DEF Ends, Dies
<1>6. failed \in BOOLEAN /\ main' \in AgentId \union {NoWorkspace}
  BY <1>1 DEF RegInv
<1> QED BY <1>1, <1>2, <1>3, <1>4, <1>5, <1>6, EndsWell

\* Creating an agent (http-server.js:1488, executor.js:3767).
LEMMA AddAgentGood ==
  ASSUME RegInv, NEW id \in AgentId, NEW name \in Name, NEW b \in BOOLEAN,
         Runs(Seen(id), CreateAgent(Seen(id), id, name, b), {id})
  PROVE  RegGood
<1> DEFINE from == Seen(id)
           trail == CreateAgent(from, id, name, b)
<1>1. from \in {disk, Reloaded(disk, file)}
  BY ListSeen
<1> HIDE DEF from
<1>2. Sound(from)
  BY <1>1, FromIs
<1>3. Writes(from, trail, {id}) /\ (Registered(from) => Registered(After(from, trail)))
  BY <1>2, CreatedAgent
<1> QED BY <1>1, <1>3, RunsWell DEF from

\* Creating a workspace (http-server.js:361).
LEMMA AddWorkspaceGood ==
  ASSUME RegInv, NEW id \in AgentId, NEW name \in Name, NEW b \in BOOLEAN,
         AddWorkspace(id, name, b)
  PROVE  RegGood
<1> DEFINE from == Reloaded(disk, file)
           made == CreateWorkspace(from, id, name)
           e == After(from, made)
           more == CreateAgent(e, id, name, FALSE)
<1>1. /\ Runs(from, IF b /\ made # <<>> THEN made \o CreateAgent(Last(made), id, name, FALSE) ELSE made, {})
      /\ disk.dir[id] = "absent"
  BY DEF AddWorkspace, FreshId
<1>0. from \in {disk, Reloaded(disk, file)}
  OBVIOUS
<1> HIDE DEF from
<1>2. Sound(from) /\ from.dir = disk.dir
  BY <1>0, FromIs
<1>3. Writes(from, made, {}) /\ Grows(from, e) /\ Sound(e) /\ (Registered(from) => Registered(e))
      /\ (made # <<>> => e.dir[id] = "stock")
  <2>1. from.dir[id] # "own"
    BY <1>1, <1>2
  <2> QED BY <1>2, <2>1, CreatedWorkspace
<1>4. made # <<>> => e = Last(made)
  BY DEF After
<1> HIDE DEF made, e
<1>5. CASE b /\ made # <<>>
  <2>1. Runs(from, made \o more, {})
    BY <1>1, <1>4, <1>5
  <2>2. Writes(e, more, {}) /\ (Registered(e) => Registered(After(e, more)))
    <3>1. e.dir[id] # "own" \/ id \in {}
      BY <1>3, <1>5
    <3> QED BY <1>3, <3>1, CreatedAgent
  <2> HIDE DEF more
  <2>3. Writes(from, made \o more, {}) /\ After(from, made \o more) = After(e, more)
    BY <1>2, <1>3, <2>2, WritesAfter DEF e
  <2> QED BY <1>0, <1>3, <2>1, <2>2, <2>3, RunsWell
<1>6. CASE ~(b /\ made # <<>>)
  <2>1. Runs(from, made, {})
    BY <1>1, <1>6
  <2> QED BY <1>0, <1>3, <2>1, RunsWell DEF e
<1> QED BY <1>5, <1>6

\* Deleting an agent (http-server.js:1519).
LEMMA RemoveAgentGood ==
  ASSUME RegInv, NEW id \in AgentId, NEW force \in BOOLEAN, NEW preserve \in BOOLEAN,
         RemoveAgent(id, force, preserve)
  PROVE  RegGood
<1> DEFINE from == Seen(id)
           ids == IF force THEN {id} ELSE {}
           gone == DeleteAgent(from, id, force, preserve)
           e == After(from, gone)
           more == DeleteWorkspace(e, id, FALSE)
<1>1. Runs(from, IF gone = <<>> \/ preserve THEN gone
           ELSE gone \o DeleteWorkspace(Last(gone), id, FALSE), ids)
  BY DEF RemoveAgent
<1>0. from \in {disk, Reloaded(disk, file)}
  BY ListSeen
<1> HIDE DEF from
<1>2. Sound(from)
  BY <1>0, FromIs
<1>3. ids \in SUBSET AgentId /\ (force => id \in ids)
  OBVIOUS
<1> HIDE DEF ids
<1>4. Writes(from, gone, ids) /\ e.spaces = from.spaces /\ (Registered(from) => Registered(e))
  BY <1>2, <1>3, DeletedAgent
<1>5. Sound(e)
  BY <1>2, <1>4, AfterWrites
<1>6. gone # <<>> => e = Last(gone)
  BY DEF After
<1> HIDE DEF gone, e
<1>7. CASE gone = <<>> \/ preserve
  <2>1. Runs(from, gone, ids)
    BY <1>1, <1>7
  <2> QED BY <1>0, <1>3, <1>4, <2>1, RunsWell DEF e
<1>8. CASE ~(gone = <<>> \/ preserve)
  <2>1. Runs(from, gone \o more, ids)
    BY <1>1, <1>6, <1>8
  <2>2. Writes(e, more, ids) /\ (Registered(e) => Registered(After(e, more)))
    BY <1>4, <1>5, DeletedWorkspace
  <2> HIDE DEF more
  <2>3. Writes(from, gone \o more, ids) /\ After(from, gone \o more) = After(e, more)
    BY <1>2, <1>4, <2>2, WritesAfter DEF e
  <2> QED BY <1>0, <1>3, <1>4, <2>1, <2>2, <2>3, RunsWell
<1> QED BY <1>7, <1>8

\* Deleting a workspace (http-server.js:411).
LEMMA RemoveWorkspaceGood ==
  ASSUME RegInv, NEW id \in AgentId, NEW force \in BOOLEAN, RemoveWorkspace(id, force)
  PROVE  RegGood
<1> DEFINE from == Seen(id)
           ids == IF force THEN {id} ELSE {}
           gone == DeleteAgent(from, id, force, FALSE)
           e == After(from, gone)
           more == DeleteWorkspace(e, id, force)
<1>1. Runs(from, gone \o more, ids)
  BY DEF RemoveWorkspace, Then
<1>0. from \in {disk, Reloaded(disk, file)}
  BY ListSeen
<1> HIDE DEF from
<1>2. Sound(from)
  BY <1>0, FromIs
<1>3. ids \in SUBSET AgentId /\ (force => id \in ids)
  OBVIOUS
<1> HIDE DEF ids
<1>4. Writes(from, gone, ids) /\ e.spaces = from.spaces /\ (Registered(from) => Registered(e))
  BY <1>2, <1>3, DeletedAgent
<1>5. Sound(e)
  BY <1>2, <1>4, AfterWrites
<1> HIDE DEF gone, e
<1>6. Writes(e, more, ids) /\ (Registered(e) => Registered(After(e, more)))
  BY <1>3, <1>4, <1>5, DeletedWorkspace
<1> HIDE DEF more
<1>7. Writes(from, gone \o more, ids) /\ After(from, gone \o more) = After(e, more)
  BY <1>2, <1>4, <1>6, WritesAfter DEF e
<1> QED BY <1>0, <1>1, <1>3, <1>4, <1>6, <1>7, RunsWell

\* Renaming an agent (simple-agent-manager.js:835).
LEMMA UpdateAgentGood ==
  ASSUME RegInv, NEW id \in AgentId, NEW name \in Name, UpdateAgent(id, name)
  PROVE  RegGood
<1> DEFINE book == [disk.agents EXCEPT ![id] = name]
           x == WithAgents(disk, book)
<1>1. Runs(disk, <<[disk EXCEPT !.agents[id] = name]>>, {}) /\ id \in DOMAIN disk.agents
  BY DEF UpdateAgent
<1>2. disk \in Disk /\ Sound(disk)
  BY DEF RegInv, Sound
<1>3. disk.agents \in Book
  BY <1>2, DiskFields
<1>4. book \in Book
  <2>1. disk.agents \in [DOMAIN disk.agents -> Name] /\ DOMAIN disk.agents \in SUBSET AgentId
    BY <1>3, BookIs
  <2>2. book \in [DOMAIN disk.agents -> Name] /\ DOMAIN book = DOMAIN disk.agents
    BY <2>1
  <2> HIDE DEF book
  <2> QED BY <2>1, <2>2, BookIs
<1>5. x = [disk EXCEPT !.agents[id] = name]
  BY DEF WithAgents
<1>6. Runs(disk, <<x>>, {})
  BY <1>1, <1>5
<1> HIDE DEF book
<1>7. Write(disk, x, {}) /\ x.spaces = disk.spaces /\ x.dir = disk.dir
  BY <1>2, <1>4, SelfWrite, AgentsWritten
<1> HIDE DEF x
<1>8. Writes(disk, <<x>>, {}) /\ After(disk, <<x>>) = x
  BY <1>7, OneWrite
<1>9. Registered(disk) => Registered(x)
  BY <1>7 DEF Registered
<1> QED BY <1>6, <1>8, <1>9, RunsWell

\* A user writes a soul file (workspace-manager.js:900).
LEMMA SaveSoulGood ==
  ASSUME RegInv, NEW id \in AgentId, SaveSoulFile(id)
  PROVE  RegGood
<1> DEFINE from == Seen(id)
           x == WithDir(from, id, "own")
<1>1. Runs(from, <<x>>, {}) /\ id \in DOMAIN from.spaces
  BY DEF SaveSoulFile, WithDir
<1>0. from \in {disk, Reloaded(disk, file)}
  BY ListSeen
<1> HIDE DEF from
<1>2. from \in Disk /\ Sound(from)
  BY <1>0, FromIs
<1>3. "own" \in DirState
  BY DEF DirState
<1>4. Write(from, x, {})
  BY <1>2, <1>3, DirSound
<1>5. x.spaces = from.spaces /\ \A y \in AgentId : y # id => x.dir[y] = from.dir[y]
  BY <1>2, <1>3, DirWrite
<1> HIDE DEF x
<1>6. Writes(from, <<x>>, {}) /\ After(from, <<x>>) = x
  BY <1>4, OneWrite
<1>7. Registered(from) => Registered(x)
  BY <1>1, <1>5 DEF Registered
<1> QED BY <1>0, <1>1, <1>6, <1>7, RunsWell

\* workspaces.json is read again (workspace-manager.js:818).
LEMMA ListGood ==
  ASSUME RegInv, ListWorkspaces PROVE RegGood
<1> DEFINE from == Reloaded(disk, file)
<1>1. /\ disk' = from /\ consent' = {} /\ phase = "up"
      /\ file' = file /\ phase' = phase /\ due' = due /\ main' = main /\ failed' = failed
  BY DEF ListWorkspaces, up
<1>0. from \in {disk, Reloaded(disk, file)}
  OBVIOUS
<1> HIDE DEF from
<1>2. /\ Sound(from) /\ from.dir = disk.dir
      /\ (~failed => from = disk /\ WorkspaceList(from) = file)
      /\ (~failed => DOMAIN from.spaces # {} /\ Registered(from))
  BY <1>0, <1>1, FromIs
<1>3. Sound(disk)' /\ SoundList(file)'
  BY <1>1, <1>2 DEF RegInv, Sound, SoundList
<1>4. ~failed' => WorkspaceList(disk)' = file' /\ (DOMAIN disk.spaces # {} /\ Registered(disk))'
  BY <1>1, <1>2 DEF WorkspaceList, Registered
<1>5. OwnSoulsStay /\ AgentsAreServed
  BY <1>1, <1>2 DEF OwnSoulsStay, AgentsAreServed, up
<1> QED BY <1>1, <1>3, <1>4, <1>5 DEF RegGood, RegInv

\* The end of the program.
LEMMA CrashGood ==
  ASSUME RegInv, RegistryCrash PROVE RegGood
<1>1. Dies(disk, disk, {}) /\ consent' = {} /\ failed' = failed /\ phase # "down"
  BY DEF RegistryCrash
<1>2. Write(disk, disk, {})
  BY SelfWrite DEF RegInv
<1>3. ~failed => WorkspaceList(disk) = file /\ Confined(disk)
  BY <1>1 DEF RegInv, Confined
<1>4. failed' \in BOOLEAN /\ consent' \in SUBSET AgentId
  BY <1>1 DEF RegInv
<1> QED BY <1>1, <1>2, <1>3, <1>4, DiesWell

\* The boot registers the workspace of one agent (index.js:313).
LEMMA BootSyncGood ==
  ASSUME RegInv, NEW id \in AgentId, BootSync(id) PROVE RegGood
<1> DEFINE from == Seen(id)
           trail == CreateWorkspace(from, id, from.agents[id])
           ids == AgentId \ DOMAIN disk.spaces
           e == After(from, trail)
<1>1. /\ phase = "boot" /\ id \in due /\ consent' = {} /\ Ends(from, trail, "boot", due \ {id}, failed)
      /\ (phase' = "boot" => main' = main)
  BY DEF BootSync, SyncWorkspace
<1>0. from \in {disk, Reloaded(disk, file)} /\ (id \in DOMAIN disk.spaces => from = disk)
  BY ListSeen
<1> HIDE DEF from
<1>2. /\ Sound(from) /\ from.agents = disk.agents
      /\ due \subseteq DOMAIN disk.agents /\ due \subseteq AgentId /\ main \in AgentId
      /\ failed \in BOOLEAN
      /\ (~failed => /\ from = disk /\ WorkspaceList(from) = file /\ DOMAIN from.spaces # {} /\ Registered(from)
                     /\ Served(disk, due) /\ main \in DOMAIN disk.spaces)
  BY <1>0, <1>1, FromIs DEF RegInv
<1>3. from.agents[id] \in Name
  BY <1>1, <1>2, DiskFields DEF Sound
<1>4. /\ Writes(from, trail, ids) /\ Grows(from, e) /\ e.agents = from.agents
      /\ id \in DOMAIN e.spaces \/ Taken(from.spaces, from.agents[id])
      /\ DOMAIN e.spaces # {} /\ (Registered(from) => Registered(e))
  <2>1. id \in DOMAIN from.spaces \/ id \in ids
    BY <1>0
  <2> HIDE DEF ids
  <2> QED BY <1>2, <1>3, <2>1, CreatedWorkspace
<1>9. \A x \in DOMAIN disk.spaces : x \in ids => x \in consent'
  OBVIOUS
<1> HIDE DEF trail, e, ids
<1>5. ~failed => Served(e, due \ {id})
  <2>1. ASSUME ~failed, NEW a \in DOMAIN e.agents \ DOMAIN e.spaces
        PROVE  a \in due \ {id} \/ Taken(e.spaces, e.agents[a])
    <3>1. a \in DOMAIN from.agents \ DOMAIN from.spaces
      BY <2>1, <1>4 DEF Grows
    <3>2. Taken(from.spaces, from.agents[a]) => Taken(e.spaces, e.agents[a])
      BY <1>4, TakenStays
    <3>3. CASE a = id
      BY <3>2, <3>3, <2>1, <1>4
    <3>4. CASE a # id
      BY <3>1, <3>2, <3>4, <2>1, <1>2 DEF Served
    <3> QED BY <3>3, <3>4
  <2> QED BY <2>1 DEF Served
<1>6. due \ {id} \in SUBSET AgentId /\ due \ {id} \subseteq DOMAIN e.agents
  BY <1>2, <1>4
<1>7. ~failed => \A i \in 1..Len(trail) : Confined(trail[i])
  BY <1>2, <1>4, NoneConfined
<1>8. /\ main' \in AgentId \union {NoWorkspace}
      /\ phase' = "boot" => main' \in AgentId /\ (~failed => main' \in DOMAIN e.spaces)
  <2>1. phase' = "boot" => main' \in AgentId /\ (~failed => main' \in DOMAIN e.spaces)
    BY <1>1, <1>2, <1>4 DEF Grows
  <2>2. phase' # "boot" => main' = NoWorkspace
    BY <1>1 DEF Ends, Dies
  <2> QED BY <2>1, <2>2
<1>10. consent' \in SUBSET AgentId
  BY <1>1
<1> QED BY <1>0, <1>1, <1>2, <1>4, <1>5, <1>6, <1>7, <1>8, <1>9, <1>10, EndsWell DEF e

\* The boot registers the default agent (index.js:326).
LEMMA BootEndsGood ==
  ASSUME RegInv, BootEnds PROVE RegGood
<1> DEFINE id == main
           from == Seen(id)
           name == IF id \in DOMAIN from.spaces THEN from.spaces[id] ELSE DefaultName
           ids == {id} \ DOMAIN disk.agents
           trail == CreateAgent(from, id, name, FALSE)
           e == After(from, trail)
<1>1. phase = "boot" /\ due = {} /\ consent' = ids /\ Ends(from, trail, "up", {}, failed) /\ main' = NoWorkspace
  BY DEF BootEnds, DefaultAgent
<1>0. from \in {disk, Reloaded(disk, file)}
  BY ListSeen
<1>2. id \in AgentId /\ failed \in BOOLEAN /\ (~failed => Served(disk, {}) /\ id \in DOMAIN disk.spaces)
  BY <1>1 DEF RegInv
<1> HIDE DEF from, id
<1>3. /\ Sound(from) /\ from.agents = disk.agents
      /\ (~failed => from = disk /\ WorkspaceList(from) = file /\ DOMAIN from.spaces # {} /\ Registered(from))
  BY <1>0, <1>1, FromIs
<1>4. name \in Name /\ ids \in SUBSET AgentId
  BY <1>2, <1>3, DiskFields, RegistryAssumption DEF Sound
<1> HIDE DEF name
<1>5. /\ Writes(from, trail, ids) /\ Grows(from, e) /\ (Registered(from) => Registered(e))
      /\ \/ e.agents = from.agents
         \/ /\ DOMAIN e.agents = DOMAIN from.agents \cup {id}
            /\ \A x \in DOMAIN from.agents \ {id} : e.agents[x] = from.agents[x]
  <2>1. CASE id \in DOMAIN disk.agents
    <3>1. trail = <<>>
      BY <1>3, <2>1 DEF CreateAgent
    <3>2. Writes(from, trail, ids) /\ e = from
      BY <3>1, NoWrites
    <3> HIDE DEF e
    <3> QED BY <3>2 DEF Grows
  <2>2. CASE id \notin DOMAIN disk.agents
    <3>1. id \in ids
      BY <2>2
    <3> HIDE DEF ids
    <3> QED BY <1>2, <1>3, <1>4, <3>1, CreatedAgent
  <2> QED BY <2>1, <2>2
<1> HIDE DEF trail, e
<1>6. ~failed => DOMAIN e.spaces # {} /\ Registered(e)
  BY <1>3, <1>5 DEF Grows
<1>7. ~failed => Served(e, {})
  <2>1. ASSUME ~failed, NEW a \in DOMAIN e.agents \ DOMAIN e.spaces
        PROVE  Taken(e.spaces, e.agents[a])
    <3>1. a # id
      BY <1>2, <1>3, <1>5, <2>1 DEF Grows
    <3>2. a \in DOMAIN from.agents \ DOMAIN from.spaces /\ e.agents[a] = from.agents[a]
      BY <2>1, <3>1, <1>5 DEF Grows
    <3>3. Taken(from.spaces, from.agents[a])
      BY <2>1, <3>2, <1>2, <1>3 DEF Served
    <3> QED BY <3>2, <3>3, <1>5, TakenStays
  <2> QED BY <2>1 DEF Served
<1>8. ~failed => \A i \in 1..Len(trail) : Confined(trail[i])
  BY <1>3, <1>5, NoneConfined
<1>9. phase' # "boot"
  BY <1>1 DEF Ends, Dies
<1>10. consent' \in SUBSET AgentId /\ (\A x \in DOMAIN disk.spaces : x \in ids => x \in consent')
       /\ main' \in AgentId \union {NoWorkspace}
  BY <1>1, <1>4
<1> HIDE DEF ids
<1> QED BY <1>0, <1>1, <1>2, <1>3, <1>5, <1>6, <1>7, <1>8, <1>9, <1>10, EndsWell DEF e

\* The sweep leaves a directory only where a workspace is registered.
LEMMA Swept ==
  ASSUME NEW d, Sound(d), NEW e, e = SweepOrphanWorkspaces(d)
  PROVE  /\ Write(d, e, AgentId \ DOMAIN d.spaces)
         /\ e.spaces = d.spaces /\ e.agents = d.agents /\ e.default = d.default
         /\ Registered(e) \/ (DOMAIN d.spaces = {} /\ e = d)
<1>0. d \in Disk
  BY DEF Sound
<1>1. CASE DOMAIN d.spaces = {}
  <2>1. e = d
    BY <1>1 DEF SweepOrphanWorkspaces
  <2> QED BY <1>1, <2>1, SelfWrite
<1>2. CASE DOMAIN d.spaces # {}
  <2> DEFINE dirs == [id \in AgentId |-> IF id \in DOMAIN d.spaces THEN d.dir[id] ELSE "absent"]
             ids == AgentId \ DOMAIN d.spaces
  <2>1. e = [d EXCEPT !.dir = dirs]
    BY <1>2 DEF SweepOrphanWorkspaces
  <2>2. d.dir \in [AgentId -> DirState] /\ DOMAIN d.spaces \in SUBSET AgentId
    BY <1>0, DiskFields
  <2>3. "absent" \in DirState
    BY DEF DirState
  <2>4. dirs \in [AgentId -> DirState]
    BY <2>2, <2>3
  <2>5. \A id \in AgentId : dirs[id] = IF id \in DOMAIN d.spaces THEN d.dir[id] ELSE "absent"
    OBVIOUS
  <2> HIDE DEF dirs
  <2>6. e \in Disk /\ e.spaces = d.spaces /\ e.agents = d.agents /\ e.default = d.default /\ e.dir = dirs
    BY <1>0, <2>1, <2>4 DEF Disk
  <2>7. Sound(e) /\ SoulKept(d, e, ids)
    BY <2>2, <2>5, <2>6 DEF Sound, SoulKept
  <2>8. Registered(e)
    BY <2>5, <2>6 DEF Registered
  <2> QED BY <1>2, <2>6, <2>7, <2>8 DEF Write
<1> QED BY <1>1, <1>2

\* After the first workspace is looked for there is one.
LEMMA FirstIs ==
  ASSUME NEW d, Sound(d)
  PROVE  LET trail == FirstWorkspace(d)
             e == After(d, trail)
         IN  /\ Writes(d, trail, AgentId \ DOMAIN d.spaces)
             /\ e.default \in DOMAIN e.spaces /\ e.agents = d.agents
             /\ Registered(d) => Registered(e)
             /\ DOMAIN d.spaces = {} /\ Confined(d) =>
                  Registered(e) /\ \A i \in 1..Len(trail) : Confined(trail[i])
<1> DEFINE ids == AgentId \ DOMAIN d.spaces
<1>1. CASE d.default \in DOMAIN d.spaces
  <2>1. FirstWorkspace(d) = <<>>
    BY <1>1 DEF FirstWorkspace
  <2>2. Writes(d, FirstWorkspace(d), ids) /\ After(d, FirstWorkspace(d)) = d
    BY <2>1, NoWrites
  <2>3. DOMAIN d.spaces = {} => FALSE
    BY <1>1
  <2> QED BY <1>1, <2>2, <2>3
<1>2. CASE d.default \notin DOMAIN d.spaces
  <2> DEFINE trail == CreateWorkspace(d, DefaultId, DefaultName)
             e == After(d, trail)
  <2>1. FirstWorkspace(d) = trail
    BY <1>2 DEF FirstWorkspace
  <2>2. DOMAIN d.spaces = {}
    BY <1>2 DEF Sound
  <2>3. DefaultId \in AgentId /\ DefaultName \in Name
    BY RegistryAssumption
  <2>4. DefaultId \in ids
    BY <2>2, <2>3
  <2> HIDE DEF ids
  <2>5. /\ Writes(d, trail, ids) /\ e.agents = d.agents /\ Sound(e)
        /\ DOMAIN e.spaces # {} /\ (Registered(d) => Registered(e))
        /\ Confined(d) => Registered(e) /\ \A i \in 1..Len(trail) : Confined(trail[i])
    BY <2>2, <2>3, <2>4, CreatedWorkspace
  <2> HIDE DEF trail, e
  <2>6. e.default \in DOMAIN e.spaces
    BY <2>5 DEF Sound
  <2> QED BY <2>1, <2>5, <2>6 DEF e, ids
<1> QED BY <1>1, <1>2

\* The boot sweeps and finds a first workspace (index.js:158).
LEMMA BootGood ==
  ASSUME RegInv, RegistryBoot PROVE RegGood
<1>0. PICK swept \in {SweepOrphanWorkspaces(disk), disk} :
        LET trail == Then(disk, <<swept>>, FirstWorkspace)
        IN  /\ Ends(disk, trail, "boot", DOMAIN Last(trail).agents,
                    IF swept = SweepOrphanWorkspaces(disk) THEN failed /\ DOMAIN disk.spaces = {} ELSE TRUE)
            /\ phase' = "boot" => main' = Last(trail).default
  BY DEF RegistryBoot
<1> DEFINE bad == IF swept = SweepOrphanWorkspaces(disk) THEN failed /\ DOMAIN disk.spaces = {} ELSE TRUE
           ids == AgentId \ DOMAIN disk.spaces
           more == FirstWorkspace(swept)
           trail == <<swept>> \o more
           after == After(disk, trail)
<1>1. phase = "down" /\ consent' = {}
  BY DEF RegistryBoot
<1>2. Sound(disk) /\ failed \in BOOLEAN /\ WorkspaceList(disk) = file /\ (~failed => Confined(disk))
  BY <1>1 DEF RegInv
<1>3. /\ Write(disk, swept, ids) /\ swept.spaces = disk.spaces /\ swept.agents = disk.agents
      /\ (~bad => Registered(swept) \/ (DOMAIN swept.spaces = {} /\ Confined(swept)))
  <2>1. CASE swept = SweepOrphanWorkspaces(disk)
    BY <1>2, <2>1, Swept
  <2>2. CASE swept # SweepOrphanWorkspaces(disk)
    <3>1. swept = disk
      BY <2>2
    <3> QED BY <1>2, <2>2, <3>1, SelfWrite
  <2> QED BY <2>1, <2>2
<1>15. bad \in BOOLEAN
  BY <1>2
<1> HIDE DEF bad
<1>4. Sound(swept)
  BY <1>3 DEF Write
<1>5. Writes(disk, <<swept>>, ids) /\ After(disk, <<swept>>) = swept
  BY <1>3, OneWrite
<1>6. /\ Writes(swept, more, ids)
      /\ After(swept, more).default \in DOMAIN After(swept, more).spaces
      /\ After(swept, more).agents = swept.agents
      /\ Registered(swept) => Registered(After(swept, more))
      /\ DOMAIN swept.spaces = {} /\ Confined(swept) =>
           Registered(After(swept, more)) /\ \A i \in 1..Len(more) : Confined(more[i])
  BY <1>3, <1>4, FirstIs
<1>7. Ends(disk, trail, "boot", DOMAIN Last(trail).agents, bad) /\ (phase' = "boot" => main' = Last(trail).default)
  BY <1>0, <1>5 DEF Then, bad
<1> HIDE DEF more
<1>16. <<swept>> \in Seq(Disk) /\ more \in Seq(Disk)
  BY <1>5, <1>6 DEF Writes
<1>17. /\ Len(trail) = 1 + Len(more) /\ Len(more) \in Nat
       /\ trail[1] = swept /\ \A i \in 2..Len(trail) : trail[i] = more[i - 1]
  <2>1. /\ Len(trail) = Len(<<swept>>) + Len(more) /\ Len(more) \in Nat /\ Len(<<swept>>) = 1
        /\ \A i \in 1 .. Len(<<swept>>) + Len(more) :
             trail[i] = IF i <= Len(<<swept>>) THEN <<swept>>[i] ELSE more[i - Len(<<swept>>)]
    BY <1>16, ConcatProperties, LenProperties
  <2> HIDE DEF trail
  <2>2. trail[1] = swept
    BY <2>1
  <2>3. ASSUME NEW i \in 2..Len(trail) PROVE trail[i] = more[i - 1]
    BY <2>1
  <2> QED BY <2>1, <2>2, <2>3
<1>8. Writes(disk, trail, ids) /\ after = After(swept, more)
  BY <1>2, <1>5, <1>6, WritesAfter
<1>9. trail # <<>>
  <2> HIDE DEF trail
  <2>1. Len(trail) # 0
    BY <1>17
  <2> QED BY <2>1
<1> HIDE DEF trail
<1>10. Last(trail) = after
  BY <1>9 DEF After
<1> HIDE DEF after
<1>11. Ends(disk, trail, "boot", DOMAIN after.agents, bad) /\ (phase' = "boot" => main' = after.default)
  BY <1>7, <1>10
<1>12. DOMAIN after.agents \in SUBSET AgentId /\ DOMAIN after.spaces \in SUBSET AgentId /\ after.agents = disk.agents
  <2>1. after \in Disk
    BY <1>2, <1>8, AfterWrites DEF after
  <2> QED BY <2>1, <1>3, <1>6, <1>8, DiskFields
<1>13. Served(after, DOMAIN after.agents)
  BY DEF Served
<1>14. /\ after.default \in DOMAIN after.spaces /\ DOMAIN after.spaces # {}
       /\ ~bad => Registered(after)
  BY <1>3, <1>6, <1>8
<1>18. ~bad => \A i \in 1..Len(trail) : Confined(trail[i])
  <2>1. CASE DOMAIN disk.spaces # {}
    BY <1>8, <2>1, NoneConfined
  <2>2. CASE DOMAIN disk.spaces = {}
    <3> SUFFICES ASSUME ~bad, NEW i \in 1..Len(trail) PROVE Confined(trail[i])
      OBVIOUS
    <3>1. Confined(swept) /\ \A j \in 1..Len(more) : Confined(more[j])
      <4>1. Registered(swept) => Confined(swept)
        BY DEF Registered, Confined
      <4> QED BY <1>3, <1>6, <2>2, <4>1
    <3>2. i = 1 \/ (i \in 2..Len(trail) /\ i - 1 \in 1..Len(more))
      BY <1>17
    <3> QED BY <3>1, <3>2, <1>17
  <2> QED BY <2>1, <2>2
<1>19. main' \in AgentId \union {NoWorkspace} /\ (phase' = "boot" => main' \in AgentId /\ main' \in DOMAIN after.spaces)
  <2>1. phase' # "boot" => main' = NoWorkspace
    BY <1>11 DEF Ends, Dies
  <2> QED BY <2>1, <1>11, <1>12, <1>14
<1>20. disk \in {disk, Reloaded(disk, file)} /\ consent' \in SUBSET AgentId
       /\ \A x \in DOMAIN disk.spaces : x \in ids => x \in consent'
  BY <1>1
<1> HIDE DEF ids
<1> QED BY <1>2, <1>8, <1>11, <1>12, <1>13, <1>14, <1>15, <1>18, <1>19, <1>20, EndsWell DEF after

-----------------------------------------------------------------------------
\* A step of another component.
LEMMA RegStill ==
  ASSUME RegInv, UNCHANGED registryVars PROVE RegGood
<1>1. /\ disk' = disk /\ file' = file /\ phase' = phase /\ due' = due /\ main' = main
      /\ failed' = failed /\ consent' = consent
  BY DEF registryVars
<1>2. RegInv'
  BY <1>1 DEF RegInv, Sound, SoundList, WorkspaceList, Confined, Registered, Served, Taken
<1> QED BY <1>1, <1>2 DEF RegGood, OwnSoulsStay, AgentsAreServed, up

\* The first boot finds no file.
LEMMA RegStart == RegistryInit => RegInv
<1> SUFFICES ASSUME RegistryInit PROVE RegInv
  OBVIOUS
<1>0. /\ disk = [agents |-> <<>>, spaces |-> <<>>, default |-> NoWorkspace,
                 dir |-> [id \in AgentId |-> "absent"]]
      /\ file = WorkspaceList(disk) /\ phase = "down" /\ due = {} /\ main = NoWorkspace
      /\ failed = FALSE /\ consent = {}
  BY DEF RegistryInit
<1>1. DOMAIN <<>> = {}
  OBVIOUS
<1>2. <<>> \in Book
  <2>1. <<>> \in [{} -> Name]
    OBVIOUS
  <2> QED BY <2>1, <1>1, BookIs
<1>3. [id \in AgentId |-> "absent"] \in [AgentId -> DirState]
  BY DEF DirState
<1>4. disk \in Disk
  BY <1>0, <1>2, <1>3 DEF Disk, Book
<1>5. Sound(disk)
  BY <1>0, <1>1, <1>4 DEF Sound
<1>6. SoundList(file)
  BY <1>0, <1>5, ListOf
<1>7. Confined(disk)
  BY <1>0 DEF Confined
<1> QED BY <1>0, <1>5, <1>6, <1>7 DEF RegInv

\* Every step keeps the invariant and makes the promises of a step.
LEMMA RegStep == RegInv /\ [RegistryNext]_registryVars => RegGood
<1> SUFFICES ASSUME RegInv, [RegistryNext]_registryVars PROVE RegGood
  OBVIOUS
<1>1. ASSUME NEW id \in AgentId, NEW name \in Name, NEW b \in BOOLEAN, AddAgent(id, name, b)
      PROVE  RegGood
  BY <1>1, AddAgentGood DEF AddAgent
<1>2. ASSUME NEW id \in AgentId, NEW name \in Name, NEW b \in BOOLEAN, AgentCreateTag(id, name, b)
      PROVE  RegGood
  BY <1>2, AddAgentGood DEF AgentCreateTag
<1>3. ASSUME NEW id \in AgentId, NEW name \in Name, NEW b \in BOOLEAN, AddWorkspace(id, name, b)
      PROVE  RegGood
  BY <1>3, AddWorkspaceGood
<1>4. ASSUME NEW id \in AgentId, NEW name \in Name, UpdateAgent(id, name)
      PROVE  RegGood
  BY <1>4, UpdateAgentGood
<1>5. ASSUME NEW id \in AgentId, NEW force \in BOOLEAN, NEW preserve \in BOOLEAN,
             RemoveAgent(id, force, preserve)
      PROVE  RegGood
  BY <1>5, RemoveAgentGood
<1>6. ASSUME NEW id \in AgentId, NEW force \in BOOLEAN, RemoveWorkspace(id, force)
      PROVE  RegGood
  BY <1>6, RemoveWorkspaceGood
<1>7. ASSUME NEW id \in AgentId, SaveSoulFile(id) PROVE RegGood
  BY <1>7, SaveSoulGood
<1>8. ASSUME NEW id \in AgentId, BootSync(id) PROVE RegGood
  BY <1>8, BootSyncGood
<1>9. ASSUME UNCHANGED registryVars PROVE RegGood
  BY <1>9, RegStill
<1> QED BY <1>1, <1>2, <1>3, <1>4, <1>5, <1>6, <1>7, <1>8, <1>9, ListGood, CrashGood, BootGood, BootEndsGood
         DEF RegistryNext

\* What the invariant is for.
LEMMA RegSafe ==
  RegInv => RegistryTypeOK /\ DirectoriesAreRegistered /\ DefaultExists /\ NamesAreUnique
<1> SUFFICES ASSUME RegInv PROVE RegistryTypeOK /\ DirectoriesAreRegistered /\ DefaultExists /\ NamesAreUnique
  OBVIOUS
<1>1. disk \in Disk /\ SoundList(file)
  BY DEF RegInv, Sound
<1>2. Reloaded(disk, file) \in Disk /\ file = WorkspaceList(Reloaded(disk, file))
  BY <1>1, ReloadIs DEF Sound
<1>3. ~failed => file.spaces = disk.spaces /\ file.default = disk.default /\ WorkspaceList(disk) = file
  BY DEF RegInv, WorkspaceList
<1>4. RegistryTypeOK
  BY <1>1, <1>2 DEF RegInv, RegistryTypeOK
<1>5. DirectoriesAreRegistered
  BY <1>3 DEF RegInv, Registered, DirectoriesAreRegistered, up
<1>6. DefaultExists
  BY <1>3 DEF RegInv, Sound, DefaultExists, up
<1>7. NamesAreUnique
  BY DEF RegInv, Sound, SoundList, NamesAreUnique
<1> QED BY <1>4, <1>5, <1>6, <1>7

\* For any ids and names, a crash or an exception after any of the writes of an
\* operation, and any saves that fail: no two workspaces have one name, and no soul of
\* a listed workspace is overwritten without consent; unless a write has failed since
\* a boot swept, workspaces.json agrees with the directories and with its default, and
\* a boot that comes through has given every agent a workspace, unless its name was
\* taken (workspace-manager.js:338, 390, 413).
THEOREM RegHolds ==
  RegistryInit /\ [][RegistryNext]_registryVars =>
    /\ [](RegistryTypeOK /\ DirectoriesAreRegistered /\ DefaultExists /\ NamesAreUnique)
    /\ CustomSoulKept /\ BootRegistersAgents
<1>1. RegInv /\ [RegistryNext]_registryVars => RegInv' /\ OwnSoulsStay /\ AgentsAreServed
  BY RegStep DEF RegGood
<1>2. RegInv /\ [RegistryNext]_registryVars => [OwnSoulsStay]_registryVars /\ [AgentsAreServed]_registryVars
  BY <1>1
<1> QED BY RegStart, RegSafe, <1>1, <1>2, PTL DEF CustomSoulKept, BootRegistersAgents

-------------------------------------------------------------------------------
\* The facts agents share (shared-context.js).

FactsOf(c) == {k \in FactKey : c.facts[k] > 0}
Bounded == {c \in Content : IsFiniteSet(FactsOf(c)) /\ Cardinality(FactsOf(c)) <= maxFacts}

CtxTypes ==
    /\ ctxUp \in BOOLEAN
    /\ ctxTime \in 0..MaxTime
    /\ ctxMemory \in [Namespace -> Bounded \cup {Nothing}]
    /\ ctxExpired \subseteq Namespace
    /\ ctxDirty \subseteq Namespace
    /\ ctxTimer \in BOOLEAN
    /\ ctxFile \in [Namespace -> Bounded \cup {Nothing, Torn}]
    /\ ctxFailed \subseteq Namespace
    /\ ~ctxUp => ctxDirty = {}

\* The last writes of n that memory and file know of.
WrittenAt(n, t) ==
    \/ ctxMemory[n] # Nothing /\ ctxMemory[n].updatedAt = t
    \/ ctxFile[n] \notin {Nothing, Torn} /\ ctxFile[n].updatedAt = t

OneAtATime ==
    /\ \A n \in Namespace, t \in 0..MaxTime : WrittenAt(n, t) => t <= ctxTime
    /\ \A n, m \in Namespace, t \in 0..MaxTime : WrittenAt(n, t) /\ WrittenAt(m, t) => n = m

CtxInv == CtxTypes /\ CleanIsOnDisk /\ NothingComesBack /\ OneAtATime

\* Contents are told apart from what is not there and from what is torn.
LEMMA ContentsDiffer ==
    /\ Nothing \notin Bounded /\ Torn \notin Bounded /\ Nothing # Torn
<1>1. \A c \in Bounded : c.there = TRUE
  BY DEF Bounded, Content
<1>2. Nothing.there = FALSE
  BY DEF Nothing
<1>3. \A c \in Bounded : DOMAIN c = {"there", "updatedAt", "facts"}
  BY DEF Bounded, Content
<1>4. DOMAIN Nothing = {"there"} /\ DOMAIN Torn = {"torn"}
  BY DEF Nothing, Torn
<1>5. "there" \notin {"torn"} /\ "torn" \notin {"there"}
  OBVIOUS
<1>6. QED
  BY <1>1, <1>2, <1>3, <1>4, <1>5

\* A namespace begins empty.
LEMMA EmptyContent ==
    ASSUME NEW t \in 0..MaxTime
    PROVE  [there |-> TRUE, updatedAt |-> t, facts |-> [k \in FactKey |-> 0]] \in Bounded
<1> DEFINE c == [there |-> TRUE, updatedAt |-> t, facts |-> [k \in FactKey |-> 0]]
<1>1. c \in Content
  BY ContextAssumption DEF Content
<1>2. FactsOf(c) = {}
  BY DEF FactsOf
<1>3. IsFiniteSet(FactsOf(c)) /\ Cardinality(FactsOf(c)) = 0
  BY <1>2, FS_EmptySet
<1>4. QED
  BY <1>1, <1>3, ContextAssumption DEF Bounded

\* A fact written or deleted while the limit allows it.
LEMMA FactWritten ==
    ASSUME NEW c \in Bounded, NEW k \in FactKey, NEW t \in 0..MaxTime, NEW v \in 0..MaxTime,
           v = 0 \/ c.facts[k] > 0 \/ Cardinality(FactsOf(c)) < maxFacts
    PROVE  [c EXCEPT !.facts[k] = v, !.updatedAt = t] \in Bounded
<1> DEFINE d == [c EXCEPT !.facts[k] = v, !.updatedAt = t]
<1>1. d \in Content
  BY DEF Bounded, Content
<1>2. d.facts = [c.facts EXCEPT ![k] = v] /\ c.facts \in [FactKey -> 0..MaxTime]
  BY DEF Bounded, Content
<1>3. IsFiniteSet(FactsOf(c)) /\ Cardinality(FactsOf(c)) <= maxFacts
  BY DEF Bounded
<1>4. Cardinality(FactsOf(c)) \in Nat
  BY <1>3, FS_CardinalityType
<1>5. CASE v = 0
  <2>1. FactsOf(d) = FactsOf(c) \ {k}
    BY <1>2, <1>5 DEF FactsOf
  <2>2. IsFiniteSet(FactsOf(d)) /\ Cardinality(FactsOf(d)) <= Cardinality(FactsOf(c))
    <3>1. FactsOf(d) \in SUBSET FactsOf(c)
      BY <2>1
    <3>2. QED
      BY <1>3, <3>1, FS_Subset
  <2>3. QED
    BY <1>1, <1>3, <1>4, <2>2, FS_CardinalityType, ContextAssumption DEF Bounded
<1>6. CASE v > 0
  <2>1. FactsOf(d) = FactsOf(c) \cup {k}
    BY <1>2, <1>6, ContextAssumption DEF FactsOf
  <2>2. c.facts[k] > 0 => k \in FactsOf(c)
    BY DEF FactsOf
  <2>3. QED
    BY <1>1, <1>3, <1>4, <1>6, <2>1, <2>2, FS_AddElement, ContextAssumption DEF Bounded
<1>7. QED
  BY <1>5, <1>6

\* Writes of earlier times only: still one namespace at a time.
LEMMA TimesKept ==
    ASSUME CtxTypes, OneAtATime, ctxTime' \in 0..MaxTime, ctxTime <= ctxTime',
           \A n \in Namespace, t \in 0..MaxTime : WrittenAt(n, t)' => WrittenAt(n, t)
    PROVE  OneAtATime'
  BY DEF OneAtATime, CtxTypes

\* One namespace is written at the new time: still one at a time.
LEMMA TimesGrow ==
    ASSUME CtxTypes, OneAtATime, ctxTime' \in 0..MaxTime, ctxTime' = ctxTime + 1, NEW n \in Namespace,
           \A m \in Namespace, t \in 0..MaxTime :
               WrittenAt(m, t)' => WrittenAt(m, t) \/ (m = n /\ t = ctxTime')
    PROVE  OneAtATime'
  BY DEF OneAtATime, CtxTypes

\* A step that writes n anew, in memory only, and leaves or drops the others.
LEMMA MemoryWritten ==
    ASSUME CtxTypes, OneAtATime, Tick, NEW n \in Namespace, NEW c \in Bounded,
           c.updatedAt = ctxTime',
           ctxMemory'[n] = c,
           \A m \in Namespace \ {n} : ctxMemory'[m] \in {ctxMemory[m], Nothing},
           \A m \in Namespace : ctxFile'[m] \in {ctxFile[m], Nothing}
    PROVE  OneAtATime'
<1>1. ctxTime' \in 0..MaxTime /\ ctxTime' = ctxTime + 1
  BY ContextAssumption DEF Tick, CtxTypes
<1>2. ASSUME NEW m \in Namespace, NEW t \in 0..MaxTime, WrittenAt(m, t)'
      PROVE  WrittenAt(m, t) \/ (m = n /\ t = ctxTime')
  BY <1>2 DEF WrittenAt
<1>3. QED
  BY <1>1, <1>2, TimesGrow

\* A step in which files take what is in memory, or what they had, or nothing.
LEMMA MemoryCopied ==
    ASSUME CtxTypes, OneAtATime, UNCHANGED ctxTime,
           \A m \in Namespace : ctxMemory'[m] \in {ctxMemory[m], ctxFile[m], Nothing} \ {Torn},
           \A m \in Namespace : ctxFile'[m] \in {ctxFile[m], ctxMemory[m], Nothing, Torn}
    PROVE  OneAtATime'
<1>1. ctxTime' \in 0..MaxTime /\ ctxTime <= ctxTime'
  BY ContextAssumption DEF CtxTypes
<1>2. ASSUME NEW m \in Namespace, NEW t \in 0..MaxTime, WrittenAt(m, t)'
      PROVE  WrittenAt(m, t)
  BY <1>2, ContentsDiffer DEF WrittenAt, CtxTypes
<1>3. QED
  BY <1>1, <1>2, TimesKept

-----------------------------------------------------------------------------
\* The load of the files (shared-context.js).
LEMMA LoadKeeps == CtxInv /\ LoadFromDisk => CtxInv'
<1> SUFFICES ASSUME CtxInv, LoadFromDisk PROVE CtxInv'
  OBVIOUS
<1>1. \A n \in Namespace :
        /\ ctxFile'[n] \in {ctxFile[n], Nothing}
        /\ ctxMemory'[n] = IF ctxFile'[n] = Torn THEN Nothing ELSE ctxFile'[n]
  BY DEF LoadFromDisk
<1>2. /\ ctxUp' = TRUE
      /\ UNCHANGED <<ctxTime, ctxDirty, ctxTimer, ctxFailed>>
      /\ ctxExpired' \subseteq ctxExpired
  BY DEF LoadFromDisk
<1>3. ctxDirty = {}
  BY DEF LoadFromDisk, CtxInv, CtxTypes
<1>4. CtxTypes'
  <2>1. ctxFile' \in [Namespace -> Bounded \cup {Nothing, Torn}]
    BY DEF LoadFromDisk, CtxInv, CtxTypes
  <2>2. ctxMemory' \in [Namespace -> Bounded \cup {Nothing}]
    BY <2>1 DEF LoadFromDisk
  <2>3. QED
    BY <1>2, <1>3, <2>1, <2>2 DEF CtxInv, CtxTypes
<1>5. OneAtATime'
  BY <1>1, <1>2, MemoryCopied, ContentsDiffer DEF CtxInv
<1>6. CleanIsOnDisk' /\ NothingComesBack'
  BY <1>1, <1>2, <1>3, ContentsDiffer DEF CleanIsOnDisk, NothingComesBack, Live, There
<1>7. QED
  BY <1>4, <1>5, <1>6 DEF CtxInv

\* A namespace is created, for which another may have to go.
LEMMA CreateKeeps ==
    ASSUME CtxInv, NEW n \in Namespace, CreateNamespace(n)
    PROVE  CtxInv'
<1> DEFINE c == [there |-> TRUE, updatedAt |-> ctxTime', facts |-> [k \in FactKey |-> 0]]
           memory == [ctxMemory EXCEPT ![n] = c]
<1>1. PICK evicted \in SUBSET Live : \E failing \in SUBSET evicted :
        /\ Deleted(evicted, failing, memory)
        /\ ctxExpired' = (ctxExpired \ {n}) \ evicted
  BY DEF CreateNamespace, Oldest
<1>2. PICK failing \in SUBSET evicted :
        /\ Deleted(evicted, failing, memory)
        /\ ctxExpired' = (ctxExpired \ {n}) \ evicted
  BY <1>1
<1>3. /\ ctxUp /\ ctxUp' /\ ~There(n) /\ Tick
      /\ ctxDirty' = ctxDirty \cup {n} /\ ctxTimer' = TRUE
  BY DEF CreateNamespace, Persist
<1>4. ctxTime' \in 0..MaxTime /\ c \in Bounded
  BY <1>3, EmptyContent, ContextAssumption DEF Tick, CtxInv, CtxTypes
<1> HIDE DEF c
<1>5. /\ ctxMemory' = [m \in Namespace |-> IF m \in evicted THEN Nothing ELSE memory[m]]
      /\ ctxFile' = [m \in Namespace |-> IF m \in evicted \ failing THEN Nothing ELSE ctxFile[m]]
      /\ ctxFailed' = ctxFailed \cup failing
  BY <1>2 DEF Deleted
<1>6. evicted \subseteq Namespace /\ n \notin evicted
  BY <1>3 DEF Live
<1>7. CtxTypes'
  <2>1. ctxFile' \in [Namespace -> Bounded \cup {Nothing, Torn}]
    BY <1>5 DEF CtxInv, CtxTypes
  <2>2. memory \in [Namespace -> Bounded \cup {Nothing}]
    BY <1>4 DEF CtxInv, CtxTypes
  <2>3. ctxMemory' \in [Namespace -> Bounded \cup {Nothing}]
    BY <1>5, <2>2
  <2>4. QED
    BY <1>2, <1>3, <1>4, <1>5, <1>6, <2>1, <2>3 DEF CtxInv, CtxTypes
<1>8. OneAtATime'
  <2>1. /\ ctxMemory'[n] = c
        /\ \A m \in Namespace \ {n} : ctxMemory'[m] \in {ctxMemory[m], Nothing}
        /\ \A m \in Namespace : ctxFile'[m] \in {ctxFile[m], Nothing}
    BY <1>5, <1>6 DEF CtxInv, CtxTypes
  <2>2. c.updatedAt = ctxTime'
    BY DEF c
  <2>3. QED
    BY <1>3, <1>4, <2>1, <2>2, MemoryWritten DEF CtxInv
<1>9. CleanIsOnDisk' /\ NothingComesBack'
  BY <1>3, <1>4, <1>5, <1>6, ContentsDiffer
     DEF CtxInv, CtxTypes, CleanIsOnDisk, NothingComesBack, Live, There
<1>10. QED
  BY <1>7, <1>8, <1>9 DEF CtxInv

\* A fact is set or removed: the namespace gets contents of the moment.
LEMMA FactEffect ==
    ASSUME CtxInv, NEW n \in Namespace, NEW k \in FactKey, Set(n, k) \/ DeleteFact(n, k)
    PROVE  \E c \in Bounded : c.updatedAt = ctxTime' /\ ctxMemory' = [ctxMemory EXCEPT ![n] = c]
<1>1. Tick /\ There(n)
  BY DEF Set, DeleteFact
<1>2. ctxTime' \in 0..MaxTime /\ 0 \in 0..MaxTime /\ ctxMemory[n] \in Bounded
  BY <1>1, ContextAssumption DEF Tick, CtxInv, CtxTypes, There
<1>3. PICK v \in 0..MaxTime :
        /\ ctxMemory' = [ctxMemory EXCEPT ![n].facts[k] = v, ![n].updatedAt = ctxTime']
        /\ v = 0 \/ ctxMemory[n].facts[k] > 0 \/ Cardinality(FactsOf(ctxMemory[n])) < maxFacts
  BY <1>2 DEF Set, DeleteFact, FactsOf
<1> DEFINE c == [ctxMemory[n] EXCEPT !.facts[k] = v, !.updatedAt = ctxTime']
<1>4. c \in Bounded
  BY <1>2, <1>3, FactWritten
<1>5. c.updatedAt = ctxTime'
  BY <1>2 DEF Bounded, Content
<1>6. ctxMemory' = [ctxMemory EXCEPT ![n] = c]
  BY <1>3
<1>7. QED
  BY <1>4, <1>5, <1>6

\* A fact is written or deleted.
LEMMA FactKeeps ==
    ASSUME CtxInv, NEW n \in Namespace, NEW k \in FactKey, Set(n, k) \/ DeleteFact(n, k)
    PROVE  CtxInv'
<1>1. /\ ctxUp /\ ctxUp' /\ There(n) /\ Tick
      /\ ctxDirty' = ctxDirty \cup {n} /\ ctxTimer' = TRUE
      /\ UNCHANGED <<ctxExpired, ctxFile, ctxFailed>>
  BY DEF Set, DeleteFact, Persist
<1>2. ctxTime' \in 0..MaxTime
  BY <1>1, ContextAssumption DEF Tick, CtxInv, CtxTypes
<1>3. PICK c \in Bounded : c.updatedAt = ctxTime' /\ ctxMemory' = [ctxMemory EXCEPT ![n] = c]
  BY FactEffect
<1>6. CtxTypes'
  BY <1>1, <1>2, <1>3 DEF CtxInv, CtxTypes
<1>7. OneAtATime'
  BY <1>1, <1>3, MemoryWritten DEF CtxInv, CtxTypes
<1>8. CleanIsOnDisk' /\ NothingComesBack'
  BY <1>1, <1>3, ContentsDiffer
     DEF CtxInv, CtxTypes, CleanIsOnDisk, NothingComesBack, Live, There
<1>9. QED
  BY <1>6, <1>7, <1>8 DEF CtxInv

\* Namespaces are deleted, of which some files stay.
LEMMA DeletedKeeps ==
    ASSUME CtxInv, ctxUp, ctxUp', NEW gone \in SUBSET Live, NEW failing,
           Deleted(gone, failing, ctxMemory),
           ctxExpired' \subseteq ctxExpired, UNCHANGED <<ctxTime, ctxDirty, ctxTimer>>
    PROVE  CtxInv'
<1>1. /\ ctxMemory' = [m \in Namespace |-> IF m \in gone THEN Nothing ELSE ctxMemory[m]]
      /\ ctxFile' = [m \in Namespace |-> IF m \in gone \ failing THEN Nothing ELSE ctxFile[m]]
      /\ ctxFailed' = ctxFailed \cup failing
      /\ failing \subseteq gone
  BY DEF Deleted
<1>2. CtxTypes'
  <2>1. ctxFile' \in [Namespace -> Bounded \cup {Nothing, Torn}]
    BY <1>1 DEF CtxInv, CtxTypes
  <2>2. ctxMemory' \in [Namespace -> Bounded \cup {Nothing}]
    BY <1>1 DEF CtxInv, CtxTypes
  <2>3. QED
    BY <1>1, <2>1, <2>2 DEF CtxInv, CtxTypes, Live
<1>3. OneAtATime'
  <2>1. \A m \in Namespace : ctxMemory'[m] \in {ctxMemory[m], Nothing} \ {Torn}
    BY <1>1, ContentsDiffer DEF CtxInv, CtxTypes
  <2>2. \A m \in Namespace : ctxFile'[m] \in {ctxFile[m], Nothing}
    BY <1>1
  <2>3. QED
    BY <2>1, <2>2, MemoryCopied DEF CtxInv
<1>4. CleanIsOnDisk' /\ NothingComesBack'
  BY <1>1, ContentsDiffer DEF CtxInv, CtxTypes, CleanIsOnDisk, NothingComesBack, Live, There
<1>5. QED
  BY <1>2, <1>3, <1>4 DEF CtxInv

\* The timer writes what is dirty, or fails to.
LEMMA FlushKeeps == CtxInv /\ FlushDirty => CtxInv'
<1> SUFFICES ASSUME CtxInv, FlushDirty PROVE CtxInv'
  OBVIOUS
<1>1. PICK failing \in SUBSET ctxDirty : Written(ctxDirty, failing)
  BY DEF FlushDirty
<1>2. /\ ctxFile' = [n \in Namespace |-> IF n \in (ctxDirty \cap Live) \ failing
                                        THEN ctxMemory[n] ELSE ctxFile[n]]
      /\ ctxFailed' = (ctxFailed \ (ctxDirty \cap Live)) \cup (failing \cap Live)
  BY <1>1 DEF Written
<1>3. /\ ctxUp /\ ctxDirty' = {} /\ ctxTimer' = FALSE
      /\ UNCHANGED <<ctxUp, ctxTime, ctxMemory, ctxExpired>>
  BY DEF FlushDirty
<1>4. CtxTypes'
  <2>1. ctxFile' \in [Namespace -> Bounded \cup {Nothing, Torn}]
    BY <1>2 DEF CtxInv, CtxTypes
  <2>2. QED
    BY <1>2, <1>3, <2>1 DEF CtxInv, CtxTypes, Live
<1>5. OneAtATime'
  <2>1. \A m \in Namespace : ctxMemory'[m] \in {ctxMemory[m]} \ {Torn}
    BY <1>3, ContentsDiffer DEF CtxInv, CtxTypes
  <2>2. \A m \in Namespace : ctxFile'[m] \in {ctxFile[m], ctxMemory[m]}
    BY <1>2
  <2>3. QED
    BY <1>3, <2>1, <2>2, MemoryCopied DEF CtxInv
<1>6. CleanIsOnDisk' /\ NothingComesBack'
  BY <1>2, <1>3, ContentsDiffer DEF CtxInv, CtxTypes, CleanIsOnDisk, NothingComesBack, Live, There
<1>7. QED
  BY <1>4, <1>5, <1>6 DEF CtxInv

\* The process stops, whatever becomes of files on the way.
LEMMA StoppedKeeps ==
    ASSUME CtxInv, Stopped, UNCHANGED ctxTime, ctxExpired' \subseteq Namespace, ctxFailed' \subseteq Namespace,
           ctxFile' \in [Namespace -> Bounded \cup {Nothing, Torn}],
           \A m \in Namespace : ctxFile'[m] \in {ctxFile[m], ctxMemory[m], Nothing, Torn}
    PROVE  CtxInv'
<1>1. ~ctxUp' /\ ctxDirty' = {} /\ ctxTimer' = FALSE /\ ctxMemory' = [n \in Namespace |-> Nothing]
  BY DEF Stopped
<1>2. CtxTypes'
  BY <1>1 DEF CtxInv, CtxTypes, Stopped
<1>3. OneAtATime'
  BY <1>1, MemoryCopied, ContentsDiffer DEF CtxInv
<1>4. CleanIsOnDisk' /\ NothingComesBack'
  BY <1>1 DEF CleanIsOnDisk, NothingComesBack
<1>5. QED
  BY <1>2, <1>3, <1>4 DEF CtxInv

\* The shutdown writes everything, or fails to.
LEMMA ShutdownKeeps == CtxInv /\ ContextShutdown => CtxInv'
<1> SUFFICES ASSUME CtxInv, ContextShutdown PROVE CtxInv'
  OBVIOUS
<1>1. PICK failing \in SUBSET Live : Written(Live, failing)
  BY DEF ContextShutdown
<1>2. /\ ctxFile' = [n \in Namespace |-> IF n \in (Live \cap Live) \ failing
                                        THEN ctxMemory[n] ELSE ctxFile[n]]
      /\ ctxFailed' \subseteq Namespace
  BY <1>1 DEF Written, CtxInv, CtxTypes, Live
<1>3. QED
  BY <1>2, StoppedKeeps DEF ContextShutdown, CtxInv, CtxTypes

\* A crash loses the memory and may tear the file being written.
LEMMA CrashKeeps == CtxInv /\ ContextCrash => CtxInv'
<1> SUFFICES ASSUME CtxInv, ContextCrash PROVE CtxInv'
  OBVIOUS
<1>1. /\ ctxFile' \in [Namespace -> Bounded \cup {Nothing, Torn}]
      /\ \A m \in Namespace : ctxFile'[m] \in {ctxFile[m], Torn}
  BY DEF ContextCrash, CtxInv, CtxTypes
<1>2. QED
  BY <1>1, StoppedKeeps DEF ContextCrash, CtxInv, CtxTypes

\* Every step keeps the invariant.
LEMMA CtxStep == CtxInv /\ [ContextNext]_ctxVars => CtxInv'
<1> SUFFICES ASSUME CtxInv, [ContextNext]_ctxVars PROVE CtxInv'
  OBVIOUS
<1>1. ASSUME NEW n \in Namespace, DeleteNamespace(n)
      PROVE  CtxInv'
  <2>1. PICK failing \in SUBSET {n} : Deleted({n}, failing, ctxMemory)
    BY <1>1 DEF DeleteNamespace
  <2>2. {n} \in SUBSET Live
    BY <1>1 DEF DeleteNamespace, Live
  <2>3. ctxUp /\ ctxUp' /\ ctxExpired' \subseteq ctxExpired /\ UNCHANGED <<ctxTime, ctxDirty, ctxTimer>>
    BY <1>1 DEF DeleteNamespace
  <2>4. QED
    BY <2>1, <2>2, <2>3, DeletedKeeps
<1>2. CASE CleanupExpired
  <2> DEFINE gone == ctxExpired \cap Live
  <2>1. PICK failing \in SUBSET gone : Deleted(gone, failing, ctxMemory)
    BY <1>2 DEF CleanupExpired
  <2>2. gone \in SUBSET Live
    OBVIOUS
  <2>3. ctxUp /\ ctxUp' /\ ctxExpired' \subseteq ctxExpired /\ UNCHANGED <<ctxTime, ctxDirty, ctxTimer>>
    BY <1>2 DEF CleanupExpired
  <2> HIDE DEF gone
  <2>4. QED
    BY <2>1, <2>2, <2>3, DeletedKeeps
<1>3. ASSUME NEW n \in Namespace, Ages(n)
      PROVE  CtxInv'
  BY <1>3 DEF Ages, CtxInv, CtxTypes, CleanIsOnDisk, NothingComesBack, OneAtATime, WrittenAt, Live, There
<1>4. CASE UNCHANGED ctxVars
  BY <1>4 DEF ctxVars, CtxInv, CtxTypes, CleanIsOnDisk, NothingComesBack, OneAtATime, WrittenAt, Live, There
<1>5. QED
  BY <1>1, <1>2, <1>3, <1>4, LoadKeeps, CreateKeeps, FactKeeps, FlushKeeps, ShutdownKeeps, CrashKeeps
     DEF ContextNext

\* The invariant of the shared facts holds always.
LEMMA CtxSafe == ContextInit /\ [][ContextNext]_ctxVars => []CtxInv
<1>1. ContextInit => CtxInv
  <2> SUFFICES ASSUME ContextInit PROVE CtxInv
    OBVIOUS
  <2>1. CtxTypes
    <3>1. 0 \in 0..MaxTime
      BY ContextAssumption
    <3>2. /\ [n \in Namespace |-> Nothing] \in [Namespace -> Bounded \cup {Nothing}]
          /\ [n \in Namespace |-> Nothing] \in [Namespace -> Bounded \cup {Nothing, Torn}]
      OBVIOUS
    <3>3. QED
      BY <3>1, <3>2 DEF ContextInit, CtxTypes
  <2>2. OneAtATime
    BY DEF ContextInit, OneAtATime, WrittenAt
  <2>3. QED
    BY <2>1, <2>2 DEF ContextInit, CtxInv, CleanIsOnDisk, NothingComesBack
<1>2. QED
  BY <1>1, CtxStep, PTL

\* What the invariant says of types.
LEMMA CtxTyped == CtxInv => ContextTypeOK
  BY ContentsDiffer DEF CtxInv, CtxTypes, ContextTypeOK, Bounded, FactsOf

\* The eviction takes the namespace that was written first, which is not the one
\* that was written last as soon as there are two.
LEMMA EvictionSpares == CtxInv /\ [ContextNext]_ctxVars => LastWrittenStays
<1> SUFFICES ASSUME CtxInv, [ContextNext]_ctxVars,
                    NEW n \in Live, maxNamespaces > 1, ctxUp, ctxUp', ctxTime' > ctxTime,
                    \A o \in Live : ctxMemory[o].updatedAt <= ctxMemory[n].updatedAt
             PROVE  ctxMemory'[n] # Nothing
  BY DEF LastWrittenStays
<1>1. n \in Namespace /\ ctxMemory[n] # Nothing /\ ctxTime \in Nat
  BY DEF Live, There, CtxInv, CtxTypes
<1>2. ASSUME NEW m \in Namespace, NEW k \in FactKey, Set(m, k) \/ DeleteFact(m, k)
      PROVE  ctxMemory'[n] # Nothing
  <2>1. PICK c \in Bounded : c.updatedAt = ctxTime' /\ ctxMemory' = [ctxMemory EXCEPT ![m] = c]
    BY <1>2, FactEffect
  <2>2. QED
    BY <1>1, <2>1, ContentsDiffer DEF CtxInv, CtxTypes
<1>3. ASSUME NEW m \in Namespace, CreateNamespace(m)
      PROVE  ctxMemory'[n] # Nothing
  <2>1. m # n
    BY <1>1, <1>3 DEF CreateNamespace, There
  <2>2. PICK evicted \in IF Cardinality(Live) >= maxNamespaces THEN {{o} : o \in Oldest} ELSE {{}} :
          \E failing \in SUBSET evicted :
              Deleted(evicted, failing, [ctxMemory EXCEPT ![m] =
                  [there |-> TRUE, updatedAt |-> ctxTime', facts |-> [k \in FactKey |-> 0]]])
    BY <1>3 DEF CreateNamespace
  <2>3. n \notin evicted
    <3> SUFFICES ASSUME n \in evicted PROVE FALSE
      OBVIOUS
    <3>1. Cardinality(Live) >= maxNamespaces /\ n \in Oldest
      BY <2>2
    <3>2. Live \subseteq {n}
      <4> SUFFICES ASSUME NEW o \in Live PROVE o = n
        OBVIOUS
      <4>1. o \in Namespace /\ ctxMemory[o] # Nothing
        BY DEF Live, There
      <4>2. ctxMemory[o].updatedAt \in 0..MaxTime /\ ctxMemory[n].updatedAt \in 0..MaxTime
        BY <1>1, <4>1 DEF CtxInv, CtxTypes, Bounded, Content
      <4>3. ctxMemory[o].updatedAt = ctxMemory[n].updatedAt
        BY <3>1, <4>2 DEF Oldest
      <4>4. QED
        BY <1>1, <4>1, <4>2, <4>3 DEF CtxInv, OneAtATime, WrittenAt
    <3>3. Live = {n} /\ Cardinality({n}) = 1
      BY <3>2, FS_Singleton
    <3>4. QED
      BY <3>1, <3>3, ContextAssumption
  <2>4. ctxMemory'[n] = ctxMemory[n]
    BY <1>1, <2>1, <2>2, <2>3 DEF Deleted, CtxInv, CtxTypes
  <2>5. QED
    BY <1>1, <2>4
<1>4. ASSUME UNCHANGED ctxTime
      PROVE  FALSE
  BY <1>1, <1>4
<1>5. QED
  BY <1>2, <1>3, <1>4 DEF ContextNext, LoadFromDisk, DeleteNamespace, Ages, CleanupExpired, FlushDirty,
     ContextShutdown, ContextCrash, ctxVars

-------------------------------------------------------------------------------
\* Scheduled jobs (cron.js).

CronInv ==
    /\ cronUp \in BOOLEAN
    /\ cronJobs \subseteq cronUsed /\ cronUsed \subseteq Job
    /\ cronEnabled \subseteq cronJobs
    /\ cronTasks \subseteq Job
    /\ cronRuns \in [Job -> 0..MaxRuns]
    /\ \/ cronFile = TornFile
       \/ \E jobs \in SUBSET cronUsed : \E enabled \in SUBSET jobs : cronFile = Saved(jobs, enabled)
    /\ cronUnsaved \in BOOLEAN
    /\ TasksAreEnabledJobs
    /\ CronFileIsJobs

\* What is saved is read back as it was.
LEMMA SavedFields ==
    \A jobs, enabled : /\ Saved(jobs, enabled).jobs = jobs
                       /\ Saved(jobs, enabled).enabled = enabled
  BY DEF Saved

\* Every step keeps the invariant.
LEMMA CronStep == CronInv /\ [CronNext]_cronVars => CronInv'
<1> SUFFICES ASSUME CronInv, [CronNext]_cronVars
             PROVE  CronInv'
  OBVIOUS
<1> USE CronAssumption, SavedFields DEF CronInv, TasksAreEnabledJobs, CronFileIsJobs, SaveJobs, Unused
<1>1. CASE CronBoot
  <2>1. CASE cronFile # TornFile /\ cronFile.jobs # {}
    <3>1. PICK jobs \in SUBSET cronUsed : \E enabled \in SUBSET jobs : cronFile = Saved(jobs, enabled)
      BY <2>1
    <3>4. PICK enabled \in SUBSET jobs : cronFile = Saved(jobs, enabled)
      BY <3>1
    <3>2. /\ cronJobs' = jobs /\ cronEnabled' = enabled /\ cronTasks' = enabled
          /\ cronUp' /\ UNCHANGED <<cronFile, cronUnsaved, cronUsed, cronRuns>>
      BY <1>1, <2>1, <3>4 DEF CronBoot
    <3>3. QED
      BY <1>1, <3>4, <3>2
  <2>2. CASE ~(cronFile # TornFile /\ cronFile.jobs # {})
    <3>1. PICK d \in Job \ OneTime :
             /\ cronJobs' = {d} /\ cronEnabled' = {d}
             /\ cronUsed' = cronUsed \cup {d}
             /\ SaveJobs
      BY <1>1, <2>2 DEF CronBoot
    <3>2. cronUp' /\ cronTasks' = {d} /\ cronRuns' = cronRuns
      BY <1>1, <3>1 DEF CronBoot
    <3>3. {d} \in SUBSET cronUsed' /\ {d} \in SUBSET {d}
      BY <3>1
    <3>4. CASE cronFile' = Saved({d}, {d}) /\ cronUnsaved' = FALSE
      BY <3>1, <3>2, <3>3, <3>4
    <3>5. CASE cronFile' = cronFile /\ cronUnsaved' = TRUE
      BY <3>1, <3>2, <3>3, <3>5
    <3>6. QED
      BY <3>1, <3>4, <3>5
  <2>3. QED
    BY <2>1, <2>2
<1>2. ASSUME NEW j \in Job, NEW enabled \in BOOLEAN, AddJob(j, enabled)
      PROVE  CronInv'
  BY <1>2 DEF AddJob
<1>3. ASSUME NEW j \in Job, RemoveJob(j)
      PROVE  CronInv'
  BY <1>3 DEF RemoveJob, Removed
<1>4. ASSUME NEW j \in Job, EnableJob(j)
      PROVE  CronInv'
  BY <1>4 DEF EnableJob
<1>5. ASSUME NEW j \in Job, DisableJob(j)
      PROVE  CronInv'
  BY <1>5 DEF DisableJob
<1>6. ASSUME NEW j \in Job, ExecuteJob(j)
      PROVE  CronInv'
  BY <1>6 DEF ExecuteJob
<1>7. ASSUME NEW j \in Job, HandlerSucceeds(j)
      PROVE  CronInv'
  <2>1. cronRuns' \in [Job -> 0..MaxRuns]
    BY <1>7 DEF HandlerSucceeds
  <2>2. CASE j \in OneTime
    BY <1>7, <2>1, <2>2 DEF HandlerSucceeds, Removed
  <2>3. CASE j \notin OneTime
    BY <1>7, <2>1, <2>3 DEF HandlerSucceeds
  <2>4. QED
    BY <2>2, <2>3
<1>8. ASSUME NEW j \in Job, HandlerFails(j)
      PROVE  CronInv'
  BY <1>8 DEF HandlerFails
<1>9. CASE CronStop
  <2>1. cronFile' = cronFile \/ cronFile' = TornFile
    BY <1>9 DEF CronStop
  <2>2. /\ cronUp' = FALSE /\ cronJobs' = {} /\ cronEnabled' = {} /\ cronTasks' = {}
        /\ cronRuns' = [j \in Job |-> 0] /\ cronUnsaved' = FALSE /\ cronUsed' = cronUsed
    BY <1>9 DEF CronStop, CronDown
  <2>3. cronRuns' \in [Job -> 0..MaxRuns]
    BY <2>2
  <2>4. QED
    BY <2>1, <2>2, <2>3
<1>10. CASE UNCHANGED cronVars
  BY <1>10 DEF cronVars
<1>11. QED
  BY <1>1, <1>2, <1>3, <1>4, <1>5, <1>6, <1>7, <1>8, <1>9, <1>10 DEF CronNext


\* The invariant of CronManager.
LEMMA CronSafe == CronInit /\ [][CronNext]_cronVars => []CronInv
<1>1. CronInit => CronInv
  <2> SUFFICES ASSUME CronInit PROVE CronInv
    OBVIOUS
  <2>1. cronRuns \in [Job -> 0..MaxRuns]
    BY CronAssumption DEF CronInit
  <2>2. {} \in SUBSET cronUsed /\ {} \in SUBSET {}
    OBVIOUS
  <2>3. QED
    BY <2>1, <2>2, SavedFields DEF CronInit, CronInv, TasksAreEnabledJobs, CronFileIsJobs
<1>2. QED
  BY <1>1, CronStep, PTL

\* What the invariant says of types.
LEMMA CronTyped == CronInv => CronTypeOK
  BY SavedFields DEF CronInv, CronTypeOK

\* A job that is not defined any more neither comes back nor starts.
LEMMA RemovedStays ==
    ASSUME CronInv, [CronNext]_cronVars, NEW j \in cronUsed \ cronJobs, cronUp
    PROVE  j \notin cronJobs' /\ cronRuns'[j] <= cronRuns[j]
<1>1. j \in Job /\ j \notin cronTasks /\ cronRuns[j] \in Nat
  BY DEF CronInv, TasksAreEnabledJobs
<1> DEFINE Stays == j \notin cronJobs' /\ cronRuns'[j] <= cronRuns[j]
<1>2. CASE cronRuns' = cronRuns /\ cronJobs' \subseteq cronJobs
  BY <1>1, <1>2
<1>3. ASSUME NEW i \in Job, NEW enabled \in BOOLEAN, AddJob(i, enabled)
      PROVE  Stays
  BY <1>1, <1>3 DEF AddJob, Unused
<1>4. ASSUME NEW i \in Job, RemoveJob(i)
      PROVE  Stays
  BY <1>2, <1>4 DEF RemoveJob, Removed
<1>5. ASSUME NEW i \in Job, EnableJob(i) \/ DisableJob(i)
      PROVE  Stays
  BY <1>2, <1>5 DEF EnableJob, DisableJob
<1>6. ASSUME NEW i \in Job, ExecuteJob(i)
      PROVE  Stays
  <2>1. i # j
    BY <1>1, <1>6 DEF ExecuteJob
  <2>2. cronRuns'[j] = cronRuns[j] /\ cronJobs' = cronJobs
    BY <1>1, <1>6, <2>1 DEF ExecuteJob, CronInv
  <2>3. QED
    BY <1>1, <2>2
<1>7. ASSUME NEW i \in Job, HandlerSucceeds(i) \/ HandlerFails(i)
      PROVE  Stays
  <2>1. cronRuns' = [cronRuns EXCEPT ![i] = @ - 1]
    BY <1>7 DEF HandlerSucceeds, HandlerFails
  <2>2. cronRuns'[j] <= cronRuns[j]
    BY <1>1, <2>1 DEF CronInv
  <2>3. cronJobs' \subseteq cronJobs
    BY <1>7 DEF HandlerSucceeds, HandlerFails, Removed
  <2>4. QED
    BY <2>2, <2>3
<1>8. CASE UNCHANGED cronVars
  BY <1>2, <1>8 DEF cronVars
<1>9. CASE CronStop
  BY <1>1, <1>9 DEF CronStop, CronDown
<1>10. QED
  BY <1>3, <1>4, <1>5, <1>6, <1>7, <1>8, <1>9 DEF CronNext, CronBoot


\* A job that is removed is over, whatever boot or task was on its way (cron.js:291).
LEMMA RemovedJobs == CronInv /\ [CronNext]_cronVars => RemovedJobStays
BY RemovedStays DEF RemovedJobStays

-------------------------------------------------------------------------------
\* Limits on what agents say to each other (message-policy.js).

Summed(g, f, n) ==
  /\ g \in [0..n -> Nat]
  /\ g[0] = f[0]
  /\ \A k \in 1..n : g[k] = g[k - 1] + f[k]

\* Every function of numbers has its sums, by induction over its domain.
LEMMA SumsExist ==
  ASSUME NEW N \in Nat, NEW f \in [0..N -> Nat]
  PROVE  \E g : Summed(g, f, N)
<1> DEFINE P == {n \in Nat : n <= N => \E g : Summed(g, f, n)}
<1>1. 0 \in P
  <2>1. Summed([k \in 0..0 |-> f[0]], f, 0)
    BY DEF Summed
  <2> QED BY <2>1
<1>2. ASSUME NEW n \in P PROVE n + 1 \in P
  <2>1. n \in Nat
    OBVIOUS
  <2>2. SUFFICES ASSUME n + 1 <= N PROVE \E g : Summed(g, f, n + 1)
    BY <2>1
  <2>3. PICK g : Summed(g, f, n)
    BY <2>1, <2>2
  <2> DEFINE h == [k \in 0..(n + 1) |-> IF k = n + 1 THEN g[n] + f[n + 1] ELSE g[k]]
  <2>4. g \in [0..n -> Nat] /\ g[0] = f[0] /\ \A k \in 1..n : g[k] = g[k - 1] + f[k]
    BY <2>3 DEF Summed
  <2>5. g[n] \in Nat /\ f[n + 1] \in Nat
    BY <2>1, <2>2, <2>4
  <2>6. h \in [0..(n + 1) -> Nat]
    <3>1. ASSUME NEW k \in 0..(n + 1) PROVE (IF k = n + 1 THEN g[n] + f[n + 1] ELSE g[k]) \in Nat
      <4>1. CASE k = n + 1
        BY <4>1, <2>5
      <4>2. CASE k # n + 1
        <5>1. k \in 0..n
          BY <4>2, <2>1
        <5> QED BY <5>1, <4>2, <2>4
      <4> QED BY <4>1, <4>2
    <3> QED BY <3>1
  <2>7. h[0] = f[0]
    BY <2>1, <2>4
  <2>8. ASSUME NEW k \in 1..(n + 1) PROVE h[k] = h[k - 1] + f[k]
    <3>1. k \in 0..(n + 1) /\ k - 1 \in 0..(n + 1) /\ k - 1 # n + 1 /\ h[k - 1] = g[k - 1]
      BY <2>1
    <3>2. CASE k = n + 1
      <4>1. k - 1 = n /\ h[k] = g[n] + f[n + 1]
        BY <2>1, <3>2
      <4> QED BY <4>1, <3>1, <3>2
    <3>3. CASE k # n + 1
      <4>1. k \in 1..n /\ h[k] = g[k]
        BY <2>1, <3>3
      <4> QED BY <4>1, <3>1, <2>4
    <3> QED BY <3>2, <3>3
  <2> HIDE DEF h
  <2> QED BY <2>6, <2>7, <2>8 DEF Summed
<1>3. P \in SUBSET Nat
  OBVIOUS
<1> HIDE DEF P
<1>4. P = Nat
  BY <1>1, <1>2, <1>3, NatInd
<1> QED BY <1>4 DEF P

\* What is assumed of the limits (message-policy.js).
LEMMA PolConstants ==
  /\ minute \in Nat /\ hour \in Nat /\ minute >= 1 /\ hour > minute
  /\ maxPerMinute \in Nat /\ maxPerHour \in Nat /\ maxPerMinute >= 1 /\ maxPerHour >= 1
  /\ horizon = 2 * hour + 1
BY PolicyAssumption DEF PolicyAssumption, horizon

\* The recursive sums of the model are these sums.
LEMMA SumsAre ==
  ASSUME NEW f \in [0..hour -> Nat]
  PROVE  /\ Sums(f) \in [0..hour -> Nat]
         /\ Sums(f)[0] = f[0]
         /\ \A k \in 1..hour : Sums(f)[k] = Sums(f)[k - 1] + f[k]
<1> DEFINE IsSum(s) == s = [age \in 0..hour |-> IF age = 0 THEN f[0] ELSE s[age - 1] + f[age]]
<1>1. PICK g : Summed(g, f, hour)
  BY SumsExist, PolConstants
<1>2. IsSum(g)
  <2>1. g \in [0..hour -> Nat] /\ g[0] = f[0] /\ \A k \in 1..hour : g[k] = g[k - 1] + f[k]
    BY <1>1 DEF Summed
  <2>2. \A k \in 0..hour : g[k] = IF k = 0 THEN f[0] ELSE g[k - 1] + f[k]
    <3> TAKE k \in 0..hour
    <3>1. k # 0 => k \in 1..hour
      BY PolConstants
    <3> QED BY <2>1, <3>1
  <2> QED BY <2>1, <2>2
<1>3. Sums(f) = CHOOSE s : IsSum(s)
  BY DEF Sums
<1>4. IsSum(Sums(f))
  BY <1>2, <1>3
<1> DEFINE S == Sums(f)
<1>5. S = [age \in 0..hour |-> IF age = 0 THEN f[0] ELSE S[age - 1] + f[age]]
  BY <1>4
<1> HIDE DEF S, IsSum
<1>6. S[0] = f[0]
  BY <1>5, PolConstants
<1>7. ASSUME NEW k \in 1..hour PROVE S[k] = S[k - 1] + f[k]
  <2>1. k \in 0..hour /\ k # 0
    BY PolConstants
  <2> QED BY <1>5, <2>1
<1> DEFINE P == {n \in Nat : n <= hour => S[n] \in Nat}
<1>8. 0 \in P
  BY <1>6, PolConstants
<1>9. ASSUME NEW n \in P PROVE n + 1 \in P
  <2>1. SUFFICES ASSUME n + 1 <= hour PROVE S[n + 1] \in Nat
    OBVIOUS
  <2>2. n + 1 \in 1..hour /\ n + 1 \in 0..hour /\ n + 1 - 1 = n /\ S[n] \in Nat
    BY <2>1, PolConstants
  <2>3. S[n + 1] = S[n] + f[n + 1]
    BY <2>2, <1>7
  <2>4. f[n + 1] \in Nat
    BY <2>2
  <2> QED BY <2>2, <2>3, <2>4
<1>10. P \in SUBSET Nat
  OBVIOUS
<1> HIDE DEF P
<1>11. P = Nat
  BY <1>8, <1>9, <1>10, NatInd
<1>12. \A k \in 0..hour : S[k] \in Nat
  BY <1>11, PolConstants DEF P
<1>13. DOMAIN S = 0..hour
  BY <1>5
<1>14. S \in [0..hour -> Nat]
  BY <1>5, <1>12, <1>13
<1> QED BY <1>6, <1>7, <1>14 DEF S

\* More ages hold as many messages or more.
LEMMA SumsGrow ==
  ASSUME NEW f \in [0..hour -> Nat], NEW j \in 0..hour, NEW k \in 0..hour, j <= k
  PROVE  Sums(f)[j] <= Sums(f)[k]
<1> DEFINE S == Sums(f)
           P == {n \in Nat : j + n <= hour => S[j] <= S[j + n]}
<1>1. S \in [0..hour -> Nat] /\ \A i \in 1..hour : S[i] = S[i - 1] + f[i]
  BY SumsAre
<1> HIDE DEF S
<1>2. 0 \in P
  <2>1. S[j] \in Nat /\ j + 0 = j
    BY <1>1, PolConstants
  <2> QED BY <2>1
<1>3. ASSUME NEW n \in P PROVE n + 1 \in P
  <2>1. SUFFICES ASSUME j + (n + 1) <= hour PROVE S[j] <= S[j + (n + 1)]
    OBVIOUS
  <2>2. j \in Nat /\ n \in Nat /\ j + n <= hour
    BY <2>1, PolConstants
  <2>3. j + (n + 1) \in 1..hour /\ j + (n + 1) - 1 = j + n /\ j + n \in 0..hour
    BY <2>1, <2>2, PolConstants
  <2>4. S[j + (n + 1)] = S[j + n] + f[j + (n + 1)]
    BY <1>1, <2>3
  <2>5. f[j + (n + 1)] \in Nat /\ S[j + n] \in Nat /\ S[j] \in Nat
    BY <1>1, <2>3, PolConstants
  <2>6. S[j] <= S[j + n]
    BY <2>2
  <2> QED BY <2>4, <2>5, <2>6
<1>4. P \in SUBSET Nat
  OBVIOUS
<1> HIDE DEF P
<1>5. P = Nat
  BY <1>2, <1>3, <1>4, NatInd
<1>6. k - j \in P /\ j + (k - j) = k
  BY <1>5, PolConstants
<1>7. S[j] <= S[j + (k - j)]
  BY <1>6, PolConstants DEF P
<1> QED BY <1>6, <1>7 DEF S

\* A tick later everything is one age older.
LEMMA SumsShift ==
  ASSUME NEW f \in [0..hour -> Nat], NEW g \in [0..hour -> Nat], g[0] = 0,
         \A k \in 1..hour : g[k] = f[k - 1]
  PROVE  Sums(g)[0] = 0 /\ \A k \in 1..hour : Sums(g)[k] = Sums(f)[k - 1]
<1> DEFINE S == Sums(f)
           T == Sums(g)
           P == {n \in Nat : n + 1 <= hour => T[n + 1] = S[n]}
<1>1. S \in [0..hour -> Nat] /\ S[0] = f[0] /\ \A i \in 1..hour : S[i] = S[i - 1] + f[i]
  BY SumsAre
<1>2. T \in [0..hour -> Nat] /\ T[0] = g[0] /\ \A i \in 1..hour : T[i] = T[i - 1] + g[i]
  BY SumsAre
<1> HIDE DEF S, T
<1>3. 0 \in P
  <2>1. SUFFICES ASSUME 0 + 1 <= hour PROVE T[0 + 1] = S[0]
    OBVIOUS
  <2>2. 1 \in 1..hour /\ 0 \in 0..hour
    BY <2>1, PolConstants
  <2>3. T[1] = T[1 - 1] + g[1] /\ g[1] = f[1 - 1]
    BY <2>2, <1>2
  <2>4. T[1] = 0 + f[0] /\ f[0] \in Nat
    BY <2>2, <2>3, <1>2
  <2> QED BY <2>4, <1>1
<1>4. ASSUME NEW n \in P PROVE n + 1 \in P
  <2>1. SUFFICES ASSUME n + 1 + 1 <= hour PROVE T[n + 1 + 1] = S[n + 1]
    OBVIOUS
  <2>2. n \in Nat /\ n + 1 <= hour /\ n + 1 \in 1..hour /\ n + 2 \in 1..hour /\ n + 1 + 1 = n + 2
        /\ n + 2 - 1 = n + 1 /\ n + 1 - 1 = n /\ n + 1 \in 0..hour /\ n \in 0..hour
    BY <2>1, PolConstants
  <2>3. T[n + 2] = T[n + 1] + g[n + 2] /\ g[n + 2] = f[n + 1]
    BY <2>2, <1>2
  <2>4. T[n + 1] = S[n]
    BY <2>2
  <2>5. S[n + 1] = S[n] + f[n + 1]
    BY <2>2, <1>1
  <2> QED BY <2>2, <2>3, <2>4, <2>5
<1>5. P \in SUBSET Nat
  OBVIOUS
<1> HIDE DEF P
<1>6. P = Nat
  BY <1>3, <1>4, <1>5, NatInd
<1>7. ASSUME NEW k \in 1..hour PROVE T[k] = S[k - 1]
  <2>1. k - 1 \in Nat /\ k - 1 + 1 = k /\ k <= hour
    BY PolConstants
  <2> QED BY <2>1, <1>6 DEF P
<1> QED BY <1>2, <1>7 DEF S, T

\* One message more now is one more up to every age.
LEMMA SumsBump ==
  ASSUME NEW f \in [0..hour -> Nat], NEW g \in [0..hour -> Nat], g[0] = f[0] + 1,
         \A k \in 1..hour : g[k] = f[k]
  PROVE  \A k \in 0..hour : Sums(g)[k] = Sums(f)[k] + 1
<1> DEFINE S == Sums(f)
           T == Sums(g)
           P == {n \in Nat : n <= hour => T[n] = S[n] + 1}
<1>1. S \in [0..hour -> Nat] /\ S[0] = f[0] /\ \A i \in 1..hour : S[i] = S[i - 1] + f[i]
  BY SumsAre
<1>2. T \in [0..hour -> Nat] /\ T[0] = g[0] /\ \A i \in 1..hour : T[i] = T[i - 1] + g[i]
  BY SumsAre
<1> HIDE DEF S, T
<1>3. 0 \in P
  BY <1>1, <1>2
<1>4. ASSUME NEW n \in P PROVE n + 1 \in P
  <2>1. SUFFICES ASSUME n + 1 <= hour PROVE T[n + 1] = S[n + 1] + 1
    OBVIOUS
  <2>2. n \in Nat /\ n <= hour /\ n + 1 \in 1..hour /\ n + 1 - 1 = n /\ n \in 0..hour
    BY <2>1, PolConstants
  <2>3. T[n + 1] = T[n] + g[n + 1] /\ S[n + 1] = S[n] + f[n + 1] /\ g[n + 1] = f[n + 1]
    BY <2>2, <1>1, <1>2
  <2>4. T[n] = S[n] + 1 /\ S[n] \in Nat /\ f[n + 1] \in Nat
    BY <2>2, <1>1, PolConstants
  <2> QED BY <2>3, <2>4
<1>5. P \in SUBSET Nat
  OBVIOUS
<1> HIDE DEF P
<1>6. P = Nat
  BY <1>3, <1>4, <1>5, NatInd
<1>7. \A k \in 0..hour : T[k] = S[k] + 1
  BY <1>6, PolConstants DEF P
<1> QED BY <1>7 DEF S, T

-----------------------------------------------------------------------------
\* What is known of a sender's counters m and h, the age of their last reset
\* and the messages counted: those since the reset are no more than m, those of
\* a minute or an hour no more than m or h and once the limit besides.
Bounding(m, h, age, f) ==
  /\ m <= h
  /\ Sums(f)[minute - 1] <= m + maxPerMinute
  /\ Sums(f)[hour - 1] <= h + maxPerHour
  /\ \A k \in 0..hour : k < age => Sums(f)[k] <= m

PolInv ==
  /\ policyMinute \in [Sender -> 0..maxPerMinute]
  /\ policyHour \in [Sender -> 0..maxPerHour]
  /\ policyAge \in [Sender -> 0..horizon]
  /\ policyKnown \subseteq Sender
  /\ policyCounted \in [Sender -> [0..hour -> 0..2 * maxPerHour]]
  /\ \A s \in Sender : Bounding(policyMinute[s], policyHour[s], policyAge[s], policyCounted[s])
  /\ ExcludedNotCounted

\* The counters of a sender.
LEMMA PolFields ==
  ASSUME PolInv, NEW s \in Sender
  PROVE  /\ policyMinute[s] \in Nat /\ policyMinute[s] <= maxPerMinute
         /\ policyHour[s] \in Nat /\ policyHour[s] <= maxPerHour
         /\ policyAge[s] \in Nat /\ policyAge[s] <= horizon
         /\ policyCounted[s] \in [0..hour -> 0..2 * maxPerHour]
         /\ policyCounted[s] \in [0..hour -> Nat]
<1>1. policyMinute[s] \in 0..maxPerMinute /\ policyHour[s] \in 0..maxPerHour /\ policyAge[s] \in 0..horizon
  BY DEF PolInv
<1>2. policyCounted[s] \in [0..hour -> 0..2 * maxPerHour]
  BY DEF PolInv
<1>3. 2 * maxPerHour \in Nat
  BY PolConstants
<1> QED BY <1>1, <1>2, <1>3, PolConstants

\* What the invariant is for.
LEMMA PolWithin ==
  ASSUME PolInv PROVE PolicyTypeOK /\ BurstBounded /\ ExcludedNotCounted
<1>1. PolicyTypeOK /\ ExcludedNotCounted
  BY DEF PolInv, PolicyTypeOK
<1>2. ASSUME NEW s \in Sender
      PROVE  Within(s, minute - 1) <= 2 * maxPerMinute /\ Within(s, hour - 1) <= 2 * maxPerHour
  <2> DEFINE S == Sums(policyCounted[s])
  <2>1. S[minute - 1] <= policyMinute[s] + maxPerMinute /\ S[hour - 1] <= policyHour[s] + maxPerHour
    BY DEF PolInv, Bounding
  <2>2. minute - 1 \in 0..hour /\ hour - 1 \in 0..hour
    BY PolConstants
  <2>3. S \in [0..hour -> Nat]
    BY PolFields, SumsAre
  <2> HIDE DEF S
  <2>4. S[minute - 1] \in Nat /\ S[hour - 1] \in Nat
    BY <2>2, <2>3
  <2>5. S[minute - 1] <= 2 * maxPerMinute /\ S[hour - 1] <= 2 * maxPerHour
    BY <2>1, <2>4, PolFields, PolConstants
  <2> QED BY <2>5 DEF S, Within
<1> QED BY <1>1, <1>2 DEF BurstBounded

\* The resets of a message keep what is known.
LEMMA ResetBounds ==
  ASSUME PolInv, NEW s \in Sender, NEW c, c = AfterReset(s)
  PROVE  /\ c.minute \in Nat /\ c.minute <= maxPerMinute
         /\ c.hour \in Nat /\ c.hour <= maxPerHour
         /\ c.age \in Nat /\ c.age <= horizon
         /\ Bounding(c.minute, c.hour, c.age, policyCounted[s])
<1> DEFINE f == policyCounted[s]
           S == Sums(f)
           m == policyMinute[s]
           h == policyHour[s]
           a == policyAge[s]
<1>1. /\ m \in Nat /\ m <= maxPerMinute /\ h \in Nat /\ h <= maxPerHour /\ a \in Nat /\ a <= horizon
      /\ f \in [0..hour -> Nat]
  BY PolFields
<1>2. Bounding(m, h, a, f)
  BY DEF PolInv
<1> HIDE DEF f, m, h, a
<1>3. S \in [0..hour -> Nat]
  BY <1>1, SumsAre
<1>4. /\ m <= h /\ S[minute - 1] <= m + maxPerMinute /\ S[hour - 1] <= h + maxPerHour
      /\ \A k \in 0..hour : k < a => S[k] <= m
  BY <1>2 DEF Bounding
<1> HIDE DEF S
<1>5. minute - 1 \in 0..hour /\ hour - 1 \in 0..hour /\ S[minute - 1] \in Nat /\ S[hour - 1] \in Nat
  BY <1>3, PolConstants
<1>6. horizon \in Nat
  BY PolConstants
<1>7. CASE a > hour
  <2>1. c.minute = 0 /\ c.hour = 0 /\ c.age = 0
    BY <1>7 DEF AfterReset, a
  <2>2. minute - 1 < a /\ hour - 1 < a
    BY <1>1, <1>7, PolConstants
  <2>3. S[minute - 1] <= m /\ S[hour - 1] <= m
    BY <1>4, <1>5, <2>2
  <2>4. S[minute - 1] <= 0 + maxPerMinute /\ S[hour - 1] <= 0 + maxPerHour
    BY <2>3, <1>1, <1>4, <1>5, PolConstants
  <2>5. Bounding(0, 0, 0, f)
    BY <2>4 DEF Bounding, S
  <2> QED BY <2>1, <2>5, <1>6, PolConstants DEF f
<1>8. CASE ~(a > hour) /\ a > minute
  <2>1. c.minute = 0 /\ c.hour = h /\ c.age = 0
    BY <1>8 DEF AfterReset, a, h
  <2>2. minute - 1 < a
    BY <1>1, <1>8, PolConstants
  <2>3. S[minute - 1] <= m
    BY <1>4, <1>5, <2>2
  <2>4. S[minute - 1] <= 0 + maxPerMinute
    BY <2>3, <1>1, <1>5, PolConstants
  <2>5. Bounding(0, h, 0, f)
    BY <2>4, <1>1, <1>4 DEF Bounding, S
  <2> QED BY <2>1, <2>5, <1>1, <1>6, PolConstants DEF f
<1>9. CASE ~(a > hour) /\ ~(a > minute)
  <2>1. c.minute = m /\ c.hour = h /\ c.age = a
    BY <1>9 DEF AfterReset, a, h, m
  <2> QED BY <2>1, <1>1, <1>2 DEF f
<1> QED BY <1>7, <1>8, <1>9

\* A message is asked for: counted, refused, or excluded (message-policy.js:87).
LEMMA CanSendKeeps ==
  ASSUME PolInv, NEW s \in Sender, CanSend(s) PROVE PolInv'
<1> DEFINE c == AfterReset(s)
<1>1. /\ c.minute \in Nat /\ c.minute <= maxPerMinute
      /\ c.hour \in Nat /\ c.hour <= maxPerHour
      /\ c.age \in Nat /\ c.age <= horizon
      /\ Bounding(c.minute, c.hour, c.age, policyCounted[s])
  BY ResetBounds
<1>2. Listed(s) /\ IF Limited(c) THEN Refuse(s, c) ELSE Count(s, c)
  BY DEF CanSend
<1> HIDE DEF c
<1>0. horizon \in Nat
  BY PolConstants
<1>3. CASE Limited(c)
  <2>1. /\ policyMinute' = [policyMinute EXCEPT ![s] = c.minute]
        /\ policyHour' = [policyHour EXCEPT ![s] = c.hour]
        /\ policyAge' = [policyAge EXCEPT ![s] = c.age]
        /\ policyKnown' = policyKnown /\ policyCounted' = policyCounted
    BY <1>2, <1>3 DEF Refuse
  <2>2. c.minute \in 0..maxPerMinute /\ c.hour \in 0..maxPerHour /\ c.age \in 0..horizon
    BY <1>1, <1>0, PolConstants
  <2>3. /\ policyMinute' \in [Sender -> 0..maxPerMinute] /\ policyHour' \in [Sender -> 0..maxPerHour]
        /\ policyAge' \in [Sender -> 0..horizon]
    BY <2>1, <2>2 DEF PolInv
  <2>4. ASSUME NEW t \in Sender
        PROVE  Bounding(policyMinute'[t], policyHour'[t], policyAge'[t], policyCounted'[t])
    <3>1. CASE t = s
      BY <2>1, <3>1, <1>1 DEF PolInv
    <3>2. CASE t # s
      <4>1. policyMinute'[t] = policyMinute[t] /\ policyHour'[t] = policyHour[t] /\ policyAge'[t] = policyAge[t]
        BY <2>1, <3>2 DEF PolInv
      <4> QED BY <4>1, <2>1 DEF PolInv
    <3> QED BY <3>1, <3>2
  <2>5. ExcludedNotCounted'
    BY <2>1 DEF PolInv, ExcludedNotCounted, Listed
  <2>6. (\A t \in Sender : Bounding(policyMinute[t], policyHour[t], policyAge[t], policyCounted[t]))'
    BY <2>4 DEF Bounding
  <2>7. policyKnown' \subseteq Sender /\ policyCounted' \in [Sender -> [0..hour -> 0..2 * maxPerHour]]
    BY <2>1 DEF PolInv
  <2> QED BY <2>3, <2>5, <2>6, <2>7 DEF PolInv
<1>4. CASE ~Limited(c)
  <2>1. /\ policyMinute' = [policyMinute EXCEPT ![s] = c.minute + 1]
        /\ policyHour' = [policyHour EXCEPT ![s] = c.hour + 1]
        /\ policyAge' = [policyAge EXCEPT ![s] = c.age]
        /\ policyKnown' = policyKnown \cup {s}
        /\ policyCounted' = [policyCounted EXCEPT ![s][0] = @ + 1]
    BY <1>2, <1>4 DEF Count
  <2> DEFINE f == policyCounted[s]
             g == [f EXCEPT ![0] = f[0] + 1]
             S == Sums(f)
             T == Sums(g)
  <2>2. c.minute + 1 <= maxPerMinute /\ c.hour + 1 <= maxPerHour
    BY <1>1, <1>4, PolConstants DEF Limited
  <2>3. c.minute + 1 \in 0..maxPerMinute /\ c.hour + 1 \in 0..maxPerHour /\ c.age \in 0..horizon
    BY <2>2, <1>1, <1>0, PolConstants
  <2>4. f \in [0..hour -> 0..2 * maxPerHour] /\ f \in [0..hour -> Nat] /\ 0 \in 0..hour
    BY PolFields, PolConstants
  <2>5. policyCounted' = [policyCounted EXCEPT ![s] = g]
    BY <2>1, <2>4 DEF PolInv
  <2> HIDE DEF f
  <2>6. g \in [0..hour -> Nat] /\ g[0] = f[0] + 1 /\ \A k \in 1..hour : g[k] = f[k]
    BY <2>4
  <2> HIDE DEF g
  <2>7. \A k \in 0..hour : T[k] = S[k] + 1
    BY <2>4, <2>6, SumsBump
  <2>8. S \in [0..hour -> Nat] /\ T \in [0..hour -> Nat] /\ T[0] = g[0]
    BY <2>4, <2>6, SumsAre
  <2>9. Bounding(c.minute, c.hour, c.age, f)
    BY <1>1 DEF f
  <2>10. /\ c.minute <= c.hour /\ S[minute - 1] <= c.minute + maxPerMinute /\ S[hour - 1] <= c.hour + maxPerHour
         /\ \A k \in 0..hour : k < c.age => S[k] <= c.minute
    BY <2>9 DEF Bounding
  <2>11. Bounding(c.minute + 1, c.hour + 1, c.age, g)
    <3>1. minute - 1 \in 0..hour /\ hour - 1 \in 0..hour
      BY PolConstants
    <3>2. T[minute - 1] = S[minute - 1] + 1 /\ T[hour - 1] = S[hour - 1] + 1
          /\ S[minute - 1] \in Nat /\ S[hour - 1] \in Nat
      BY <3>1, <2>7, <2>8
    <3> HIDE DEF S
    <3>3. ASSUME NEW k \in 0..hour, k < c.age PROVE T[k] <= c.minute + 1
      <4>1. S[k] <= c.minute /\ S[k] \in Nat /\ T[k] = S[k] + 1
        BY <3>3, <2>7, <2>8, <2>10
      <4> QED BY <4>1, <1>1
    <3>4. T[minute - 1] <= c.minute + 1 + maxPerMinute /\ T[hour - 1] <= c.hour + 1 + maxPerHour
          /\ c.minute + 1 <= c.hour + 1
      BY <3>2, <2>10, <1>1, PolConstants
    <3> QED BY <3>3, <3>4 DEF Bounding
  <2>12. g \in [0..hour -> 0..2 * maxPerHour]
    <3>1. hour - 1 \in 0..hour /\ 0 \in 0..hour /\ 0 <= hour - 1
      BY PolConstants
    <3>2. T[0] <= T[hour - 1]
      BY <3>1, <2>6, SumsGrow
    <3>3. T[hour - 1] <= c.hour + 1 + maxPerHour
      BY <2>11 DEF Bounding
    <3>4. T[0] \in Nat /\ T[hour - 1] \in Nat /\ g[0] \in Nat
      BY <2>6, <2>8, <3>1
    <3> HIDE DEF T
    <3>5. g[0] <= 2 * maxPerHour
      <4>1. g[0] = T[0]
        BY <2>8
      <4>2. maxPerHour \in Nat /\ c.hour \in Nat /\ c.hour + 1 <= maxPerHour
        BY <2>2, <2>3, <1>1, PolConstants
      <4>3. T[hour - 1] <= 2 * maxPerHour
        BY <3>3, <3>4, <4>2
      <4>4. T[0] <= 2 * maxPerHour
        BY <3>2, <3>4, <4>2, <4>3
      <4> QED BY <4>1, <4>4
    <3>6. ASSUME NEW k \in 0..hour PROVE g[k] \in 0..2 * maxPerHour
      <4>1. CASE k = 0
        BY <4>1, <3>4, <3>5, PolConstants
      <4>2. CASE k # 0
        <5>1. k \in 1..hour
          BY <4>2, PolConstants
        <5> QED BY <5>1, <2>4, <2>6
      <4> QED BY <4>1, <4>2
    <3> QED BY <3>6, <2>6
  <2> HIDE DEF S, T
  <2>13. /\ policyMinute' \in [Sender -> 0..maxPerMinute] /\ policyHour' \in [Sender -> 0..maxPerHour]
         /\ policyAge' \in [Sender -> 0..horizon]
    BY <2>1, <2>3 DEF PolInv
  <2>14. policyCounted' \in [Sender -> [0..hour -> 0..2 * maxPerHour]] /\ policyKnown' \subseteq Sender
    BY <2>1, <2>5, <2>12 DEF PolInv
  <2>15. ASSUME NEW t \in Sender
         PROVE  Bounding(policyMinute'[t], policyHour'[t], policyAge'[t], policyCounted'[t])
    <3>1. CASE t = s
      <4>1. policyMinute'[t] = c.minute + 1 /\ policyHour'[t] = c.hour + 1 /\ policyAge'[t] = c.age
            /\ policyCounted'[t] = g
        BY <2>1, <2>5, <3>1 DEF PolInv
      <4> QED BY <4>1, <2>11
    <3>2. CASE t # s
      <4>1. /\ policyMinute'[t] = policyMinute[t] /\ policyHour'[t] = policyHour[t] /\ policyAge'[t] = policyAge[t]
            /\ policyCounted'[t] = policyCounted[t]
        BY <2>1, <2>5, <3>2 DEF PolInv
      <4> QED BY <4>1 DEF PolInv
    <3> QED BY <3>1, <3>2
  <2>16. ExcludedNotCounted'
    BY <2>1, <1>2 DEF PolInv, ExcludedNotCounted, Listed
  <2>17. (\A t \in Sender : Bounding(policyMinute[t], policyHour[t], policyAge[t], policyCounted[t]))'
    BY <2>15 DEF Bounding
  <2> QED BY <2>13, <2>14, <2>16, <2>17 DEF PolInv
<1> QED BY <1>3, <1>4

\* Time passes.
LEMMA TockKeeps ==
  ASSUME PolInv, Tock PROVE PolInv'
<1>1. /\ policyAge' = [s \in Sender |-> IF s \in policyKnown THEN Older(policyAge[s]) ELSE 0]
      /\ policyCounted' = [s \in Sender |-> [age \in 0..hour |-> IF age = 0 THEN 0 ELSE policyCounted[s][age - 1]]]
      /\ policyMinute' = policyMinute /\ policyHour' = policyHour /\ policyKnown' = policyKnown
  BY DEF Tock
<1>2. horizon \in Nat /\ 2 * maxPerHour \in Nat
  BY PolConstants
<1>3. ASSUME NEW s \in Sender
      PROVE  /\ policyAge'[s] \in 0..horizon
             /\ policyCounted'[s] \in [0..hour -> 0..2 * maxPerHour]
             /\ Bounding(policyMinute[s], policyHour[s], policyAge'[s], policyCounted'[s])
  <2> DEFINE f == policyCounted[s]
             g == [age \in 0..hour |-> IF age = 0 THEN 0 ELSE f[age - 1]]
             S == Sums(f)
             T == Sums(g)
             m == policyMinute[s]
             h == policyHour[s]
             a == policyAge[s]
             b == IF s \in policyKnown THEN Older(a) ELSE 0
  <2>1. /\ m \in Nat /\ m <= maxPerMinute /\ h \in Nat /\ h <= maxPerHour /\ a \in Nat /\ a <= horizon
        /\ f \in [0..hour -> Nat] /\ f \in [0..hour -> 0..2 * maxPerHour]
    BY PolFields
  <2>2. policyAge'[s] = b /\ policyCounted'[s] = g
    BY <1>1
  <2>3. Bounding(m, h, a, f)
    BY DEF PolInv
  <2> HIDE DEF f, m, h, a
  <2>4. b \in 0..horizon /\ b <= a + 1
    BY <2>1, <1>2 DEF Older
  <2>5. \A k \in 1..hour : k - 1 \in 0..hour
    BY PolConstants
  <2>6. g \in [0..hour -> 0..2 * maxPerHour]
    <3>1. ASSUME NEW k \in 0..hour PROVE (IF k = 0 THEN 0 ELSE f[k - 1]) \in 0..2 * maxPerHour
      <4>1. k # 0 => k - 1 \in 0..hour
        BY PolConstants
      <4> QED BY <4>1, <2>1, <1>2
    <3> QED BY <3>1
  <2>7. g \in [0..hour -> Nat] /\ g[0] = 0 /\ \A k \in 1..hour : g[k] = f[k - 1]
    <3>1. g \in [0..hour -> Nat]
      BY <2>6, <1>2
    <3>2. 0 \in 0..hour /\ \A k \in 1..hour : k \in 0..hour /\ k # 0
      BY PolConstants
    <3> QED BY <3>1, <3>2
  <2> HIDE DEF g, b
  <2>8. T[0] = 0 /\ \A k \in 1..hour : T[k] = S[k - 1]
    BY <2>1, <2>7, SumsShift
  <2>9. S \in [0..hour -> Nat] /\ T \in [0..hour -> Nat]
    BY <2>1, <2>7, SumsAre
  <2>10. /\ m <= h /\ S[minute - 1] <= m + maxPerMinute /\ S[hour - 1] <= h + maxPerHour
         /\ \A k \in 0..hour : k < a => S[k] <= m
    BY <2>3 DEF Bounding
  <2>11. ASSUME NEW k \in 1..hour PROVE S[k - 1] <= S[k]
    <3>1. k - 1 \in 0..hour /\ k \in 0..hour /\ k - 1 <= k
      BY PolConstants
    <3> QED BY <3>1, <2>1, SumsGrow
  <2>12. ASSUME NEW k \in 0..hour PROVE T[k] <= S[k]
    <3>1. CASE k = 0
      BY <3>1, <2>8, <2>9
    <3>2. CASE k # 0
      <4>1. k \in 1..hour
        BY <3>2, PolConstants
      <4> QED BY <4>1, <2>8, <2>11
    <3> QED BY <3>1, <3>2
  <2> HIDE DEF S, T
  <2>13. ASSUME NEW k \in 0..hour, k < b PROVE T[k] <= m
    <3>1. CASE k = 0
      BY <3>1, <2>1, <2>8
    <3>2. CASE k # 0
      <4>1. k \in 1..hour /\ k - 1 \in 0..hour /\ k - 1 < a
        BY <3>2, <2>1, <2>4, <2>13, PolConstants
      <4> QED BY <4>1, <2>8, <2>10
    <3> QED BY <3>1, <3>2
  <2>14. minute - 1 \in 0..hour /\ hour - 1 \in 0..hour
    BY PolConstants
  <2>15. T[minute - 1] <= m + maxPerMinute /\ T[hour - 1] <= h + maxPerHour
    <3>1. T[minute - 1] <= S[minute - 1] /\ T[hour - 1] <= S[hour - 1]
      BY <2>12, <2>14
    <3>2. T[minute - 1] \in Nat /\ S[minute - 1] \in Nat /\ T[hour - 1] \in Nat /\ S[hour - 1] \in Nat
      BY <2>9, <2>14
    <3> QED BY <3>1, <3>2, <2>1, <2>10, PolConstants
  <2>16. Bounding(m, h, b, g)
    BY <2>10, <2>13, <2>15 DEF Bounding, T
  <2> QED BY <2>2, <2>4, <2>6, <2>16 DEF m, h
<1>4. policyAge' \in [Sender -> 0..horizon]
  BY <1>1, <1>3
<1>5. policyCounted' \in [Sender -> [0..hour -> 0..2 * maxPerHour]]
  BY <1>1, <1>3
<1>6. (\A s \in Sender : Bounding(policyMinute[s], policyHour[s], policyAge[s], policyCounted[s]))'
  BY <1>1, <1>3 DEF Bounding
<1>7. ExcludedNotCounted'
  BY <1>1 DEF PolInv, ExcludedNotCounted, Listed
<1> QED BY <1>1, <1>4, <1>5, <1>6, <1>7 DEF PolInv

\* The counters of the silent are forgotten.
LEMMA CleanupKeeps ==
  ASSUME PolInv, CleanupCounters PROVE PolInv'
<1> DEFINE stale == {s \in policyKnown : policyAge[s] > 2 * hour}
           Cleared(count) == [s \in Sender |-> IF s \in stale THEN 0 ELSE count[s]]
<1>1. /\ policyKnown' = policyKnown \ stale /\ policyMinute' = Cleared(policyMinute)
      /\ policyHour' = Cleared(policyHour) /\ policyAge' = Cleared(policyAge)
      /\ policyCounted' = policyCounted
  BY DEF CleanupCounters
<1>2. horizon \in Nat
  BY PolConstants
<1>3. ASSUME NEW s \in Sender
      PROVE  /\ policyMinute'[s] \in 0..maxPerMinute /\ policyHour'[s] \in 0..maxPerHour
             /\ policyAge'[s] \in 0..horizon
             /\ Bounding(policyMinute'[s], policyHour'[s], policyAge'[s], policyCounted[s])
  <2>1. CASE s \in stale
    <3> DEFINE S == Sums(policyCounted[s])
    <3>1. policyMinute'[s] = 0 /\ policyHour'[s] = 0 /\ policyAge'[s] = 0
      BY <1>1, <2>1
    <3>2. policyAge[s] > 2 * hour
      BY <2>1
    <3>3. minute - 1 \in 0..hour /\ hour - 1 \in 0..hour /\ minute - 1 < policyAge[s] /\ hour - 1 < policyAge[s]
      BY <3>2, PolFields, PolConstants
    <3>4. S[minute - 1] <= policyMinute[s] /\ S[hour - 1] <= policyMinute[s] /\ policyMinute[s] <= policyHour[s]
      BY <3>3 DEF PolInv, Bounding
    <3>5. S \in [0..hour -> Nat]
      BY PolFields, SumsAre
    <3> HIDE DEF S
    <3>6. S[minute - 1] <= 0 + maxPerMinute /\ S[hour - 1] <= 0 + maxPerHour
      BY <3>3, <3>4, <3>5, PolFields, PolConstants
    <3>7. Bounding(0, 0, 0, policyCounted[s])
      BY <3>6 DEF Bounding, S
    <3> QED BY <3>1, <3>7, <1>2, PolConstants
  <2>2. CASE s \notin stale
    <3>1. policyMinute'[s] = policyMinute[s] /\ policyHour'[s] = policyHour[s] /\ policyAge'[s] = policyAge[s]
      BY <1>1, <2>2
    <3> QED BY <3>1 DEF PolInv
  <2> QED BY <2>1, <2>2
<1>4. /\ policyMinute' \in [Sender -> 0..maxPerMinute] /\ policyHour' \in [Sender -> 0..maxPerHour]
      /\ policyAge' \in [Sender -> 0..horizon]
  <2>1. policyMinute' \in [Sender -> 0..maxPerMinute]
    BY <1>1, <1>3
  <2>2. policyHour' \in [Sender -> 0..maxPerHour]
    BY <1>1, <1>3
  <2>3. policyAge' \in [Sender -> 0..horizon]
    BY <1>1, <1>3
  <2> QED BY <2>1, <2>2, <2>3
<1>5. (\A s \in Sender : Bounding(policyMinute[s], policyHour[s], policyAge[s], policyCounted[s]))'
  BY <1>1, <1>3 DEF Bounding
<1>6. ExcludedNotCounted'
  BY <1>1 DEF PolInv, ExcludedNotCounted, Listed
<1>7. policyKnown' \subseteq Sender /\ policyCounted' \in [Sender -> [0..hour -> 0..2 * maxPerHour]]
  BY <1>1 DEF PolInv
<1> QED BY <1>4, <1>5, <1>6, <1>7 DEF PolInv

\* Every step keeps the invariant.
LEMMA PolStep == PolInv /\ [PolicyNext]_policyVars => PolInv'
<1> SUFFICES ASSUME PolInv, [PolicyNext]_policyVars PROVE PolInv'
  OBVIOUS
<1>1. CASE Tock
  BY <1>1, TockKeeps
<1>2. CASE \E s \in Sender : CanSend(s)
  BY <1>2, CanSendKeeps
<1>3. CASE CleanupCounters
  BY <1>3, CleanupKeeps
<1>4. CASE UNCHANGED policyVars
  BY <1>4 DEF policyVars, PolInv, Bounding, ExcludedNotCounted, Listed
<1> QED BY <1>1, <1>2, <1>3, <1>4 DEF PolicyNext

\* Nothing is counted at the beginning.
LEMMA PolStart == PolicyInit => PolInv
<1> SUFFICES ASSUME PolicyInit PROVE PolInv
  OBVIOUS
<1> DEFINE none == [age \in 0..hour |-> 0]
<1>1. /\ policyMinute = [s \in Sender |-> 0] /\ policyHour = [s \in Sender |-> 0]
      /\ policyAge = [s \in Sender |-> 0] /\ policyKnown = {}
      /\ policyCounted = [s \in Sender |-> none]
  BY DEF PolicyInit
<1>2. horizon \in Nat /\ 2 * maxPerHour \in Nat /\ 0 \in 0..maxPerMinute /\ 0 \in 0..maxPerHour
      /\ 0 \in 0..horizon /\ 0 \in 0..2 * maxPerHour
  BY PolConstants
<1>3. none \in [0..hour -> Nat] /\ none \in [0..hour -> 0..2 * maxPerHour]
  BY <1>2
<1>4. none[0] = 0 /\ \A k \in 1..hour : none[k] = none[k - 1]
  <2>1. 0 \in 0..hour /\ \A k \in 1..hour : k \in 0..hour /\ k - 1 \in 0..hour
    BY PolConstants
  <2> QED BY <2>1
<1> HIDE DEF none
<1> DEFINE S == Sums(none)
<1>5. S[0] = 0 /\ \A k \in 1..hour : S[k] = S[k - 1]
  BY <1>3, <1>4, SumsShift
<1>6. S \in [0..hour -> Nat] /\ \A i \in 1..hour : S[i] = S[i - 1] + none[i]
  BY <1>3, SumsAre
<1> HIDE DEF S
<1> DEFINE P == {n \in Nat : n <= hour => S[n] = 0}
<1>7. 0 \in P
  BY <1>5
<1>8. ASSUME NEW n \in P PROVE n + 1 \in P
  <2>1. SUFFICES ASSUME n + 1 <= hour PROVE S[n + 1] = 0
    OBVIOUS
  <2>2. n + 1 \in 1..hour /\ n + 1 - 1 = n /\ n <= hour
    BY <2>1, PolConstants
  <2> QED BY <2>2, <1>5
<1>9. P \in SUBSET Nat
  OBVIOUS
<1> HIDE DEF P
<1>10. P = Nat
  BY <1>7, <1>8, <1>9, NatInd
<1>11. \A k \in 0..hour : S[k] = 0
  BY <1>10, PolConstants DEF P
<1>12. Bounding(0, 0, 0, none)
  <2>1. minute - 1 \in 0..hour /\ hour - 1 \in 0..hour
    BY PolConstants
  <2>2. S[minute - 1] = 0 /\ S[hour - 1] = 0
    BY <2>1, <1>11
  <2> QED BY <2>2, PolConstants DEF Bounding, S
<1>13. policyMinute \in [Sender -> 0..maxPerMinute] /\ policyHour \in [Sender -> 0..maxPerHour]
       /\ policyAge \in [Sender -> 0..horizon]
  BY <1>1, <1>2
<1>14. policyCounted \in [Sender -> [0..hour -> 0..2 * maxPerHour]]
  BY <1>1, <1>3
<1>15. \A s \in Sender : Bounding(policyMinute[s], policyHour[s], policyAge[s], policyCounted[s])
  BY <1>1, <1>12
<1>16. ExcludedNotCounted
  BY <1>1 DEF ExcludedNotCounted
<1> QED BY <1>1, <1>13, <1>14, <1>15, <1>16 DEF PolInv

\* For any limits and windows: within any minute or hour at most twice the rate is let
\* through, and nothing that was refused or excluded is counted (message-policy.js:87).
THEOREM PolHolds == PolicyInit /\ [][PolicyNext]_policyVars => [](PolicyTypeOK /\ BurstBounded /\ ExcludedNotCounted)
BY PolStart, PolStep, PolWithin, PTL

-------------------------------------------------------------------------------
\* What an agent remembers (cognitive.js).

MemTypes ==
    /\ appending \subseteq Entry /\ lines \subseteq Entry
    /\ index \in [valid : SUBSET Entry, invalid : SUBSET Entry]
    /\ index.valid \intersect index.invalid = {}
    /\ answer \in {{}, {index.valid}}
    /\ core \in [file : 0 .. MaxCore, cached : SUBSET (0 .. MaxCore)]
    /\ links \in [Identity -> Identity \union {NoGroup}]
    /\ cleanup = {} \/ \E read \in SUBSET Entry : cleanup = {read}
    /\ memoryUp \in BOOLEAN

\* What is on its way to the files, and what the files will be, is known too.
ComingIsKnown ==
    /\ memoryUp => lines \union appending \union UNION cleanup \subseteq KnownEntries
    /\ ~memoryUp => appending = {} /\ cleanup = {} /\ answer = {}

MemInv == MemTypes /\ ComingIsKnown

\* Every step keeps the invariant.
LEMMA MemStep == MemInv /\ [MemoryNext]_memoryVars => MemInv'
<1> SUFFICES ASSUME MemInv, [MemoryNext]_memoryVars PROVE MemInv'
  OBVIOUS
<1> USE DEF MemInv, MemTypes, ComingIsKnown, KnownEntries
<1>1. ASSUME NEW e \in Entry, NEW old \in SUBSET Entry, StoreEntry(e, old)
      PROVE  MemInv'
  <2>1. /\ index'.valid = (index.valid \ old) \union {e}
        /\ index'.invalid = index.invalid \union (old \intersect index.valid)
        /\ index' \in [valid : SUBSET Entry, invalid : SUBSET Entry]
    BY <1>1 DEF StoreEntry
  <2>2. e \notin index.valid /\ e \notin index.invalid
    BY <1>1 DEF StoreEntry
  <2>3. index'.valid \intersect index'.invalid = {}
    BY <2>1, <2>2
  <2>4. KnownEntries' = KnownEntries \union {e}
    BY <2>1
  <2>5. /\ memoryUp /\ memoryUp' /\ cleanup = {} /\ cleanup' = {} /\ answer' = {}
        /\ appending' = appending \union {e}
        /\ UNCHANGED <<lines, core, links>>
    BY <1>1 DEF StoreEntry, MemoryFree
  <2>6. QED
    BY <2>1, <2>3, <2>4, <2>5
<1>2. ASSUME NEW e \in Entry, AppendLands(e) \/ AppendFails(e)
      PROVE  MemInv'
  BY <1>2 DEF AppendLands, AppendFails
<1>3. ASSUME NEW e \in Entry, InvalidateMemory(e)
      PROVE  MemInv'
  <2>1. /\ index'.valid = index.valid \ {e}
        /\ index'.invalid = index.invalid \union {e}
        /\ index' \in [valid : SUBSET Entry, invalid : SUBSET Entry]
    BY <1>3 DEF InvalidateMemory
  <2>2. KnownEntries' = KnownEntries
    BY <1>3, <2>1 DEF InvalidateMemory
  <2>3. QED
    BY <1>3, <2>1, <2>2 DEF InvalidateMemory, MemoryFree
<1>4. CASE CleanupReads
  BY <1>4 DEF CleanupReads, MemoryFree
<1>5. CASE CleanupWrites
  BY <1>5 DEF CleanupWrites
<1>6. CASE SearchMemory \/ AnswerExpires
  BY <1>6 DEF SearchMemory, AnswerExpires, MemoryFree
<1>7. CASE GetCoreMemory \/ CoreUpdate
  <2>1. core' \in [file : 0 .. MaxCore, cached : SUBSET (0 .. MaxCore)]
    BY <1>7, MemoryAssumption DEF GetCoreMemory, CoreUpdate
  <2>2. UNCHANGED <<appending, lines, index, answer, links, cleanup, memoryUp>>
    BY <1>7 DEF GetCoreMemory, CoreUpdate
  <2>3. QED
    BY <2>1, <2>2
<1>8. ASSUME NEW i \in Identity, NEW j \in Identity, LinkIdentity(i, j)
      PROVE  MemInv'
  <2>1. links' \in [Identity -> Identity \union {NoGroup}]
    BY <1>8 DEF LinkIdentity
  <2>2. QED
    BY <1>8, <2>1 DEF LinkIdentity
<1>9. CASE MemoryCrash
  <2>1. core' \in [file : 0 .. MaxCore, cached : SUBSET (0 .. MaxCore)]
    BY <1>9 DEF MemoryCrash
  <2>2. QED
    BY <1>9, <2>1 DEF MemoryCrash
<1>10. CASE BuildIndex
  BY <1>10 DEF BuildIndex
<1>11. CASE UNCHANGED memoryVars
  BY <1>11 DEF memoryVars
<1>12. QED
  BY <1>1, <1>2, <1>3, <1>4, <1>5, <1>6, <1>7, <1>8, <1>9, <1>10, <1>11
     DEF MemoryNext, StoreEpisode, StoreProcedural, StoreSemantic

\* The invariant of a memory holds always.
LEMMA MemSafe == MemoryInit /\ [][MemoryNext]_memoryVars => []MemInv
<1>1. MemoryInit => MemInv
  BY MemoryAssumption DEF MemoryInit, MemInv, MemTypes, ComingIsKnown, KnownEntries
<1>2. QED
  BY <1>1, MemStep, PTL

\* What the invariant is for.
LEMMA MemTyped == MemInv => MemoryTypeOK /\ AnswerIsCurrent /\ WrittenIsKnown
<1> SUFFICES ASSUME MemInv PROVE MemoryTypeOK /\ AnswerIsCurrent /\ WrittenIsKnown
  OBVIOUS
<1>1. Cardinality({}) = 0 /\ \A x : Cardinality({x}) = 1
  BY FS_EmptySet, FS_Singleton
<1>2. Cardinality(answer) <= 1 /\ Cardinality(cleanup) <= 1
  <2>1. answer = {} \/ answer = {index.valid}
    BY DEF MemInv, MemTypes
  <2>2. cleanup = {} \/ \E read \in SUBSET Entry : cleanup = {read}
    BY DEF MemInv, MemTypes
  <2>3. Cardinality(answer) \in {0, 1}
    BY <1>1, <2>1
  <2>4. Cardinality(cleanup) \in {0, 1}
    BY <1>1, <2>2
  <2>5. QED
    BY <2>3, <2>4
<1>3. answer \subseteq SUBSET Entry /\ cleanup \subseteq SUBSET Entry
  BY DEF MemInv, MemTypes
<1>4. QED
  BY <1>1, <1>2, <1>3 DEF MemInv, MemTypes, ComingIsKnown, MemoryTypeOK, AnswerIsCurrent, WrittenIsKnown

-------------------------------------------------------------------------------
\* Sessions of the command line tool (executor.js).

RunOf == [state : {"running", "over"}, key : Key, record : 0 .. MaxRecords,
          resumed : CliRun \cup {NoSession}, session : CliRun \cup {NoSession}]

SesTypes ==
  /\ sessUp \in BOOLEAN
  /\ sessMap \in [Key -> 0 .. MaxRecords]
  /\ sessRecord \in [Key -> [1 .. MaxRecords -> Record]]
  /\ sessFile \in [Key -> SUBSET Record]
  /\ \A k \in Key : sessFile[k] = {} \/ \E rec \in Record : sessFile[k] = {rec}
  /\ Cardinality({k \in Key : sessFile[k] # {}}) <= MaxSessions
  /\ sessRun \in [CliRun -> RunOf \cup {NoRun}]
  /\ \A r \in CliRun : sessRun[r].state = "running" => sessRun[r].record > 0
  /\ sessDeleted \subseteq Key /\ sessCut \subseteq Key /\ sessMixed \subseteq Key
  /\ sessConv \in [Key -> CliRun \cup {NoSession}]
  /\ sessTell \subseteq CliRun /\ sessNext \subseteq CliRun

\* The session was opened by a run that is over, of the same conversation unless the key
\* is none or has shared a queue.
OpenedFor(id, k) ==
  /\ id \in CliRun /\ sessRun[id].state = "over"
  /\ k \notin SharedKey \cup sessMixed => sessRun[id].key = k

\* Wherever a session is named it was opened for the key.
Owned ==
  /\ \A k \in Key, n \in 1 .. MaxRecords :
       sessRecord[k][n].id # NoSession => OpenedFor(sessRecord[k][n].id, k)
  /\ \A k \in Key : \A rec \in sessFile[k] : rec.id # NoSession => OpenedFor(rec.id, k)
  /\ \A k \in Key : sessConv[k] # NoSession => OpenedFor(sessConv[k], k)
  /\ \A r \in CliRun : sessRun[r] # NoRun =>
       /\ sessRun[r].resumed # NoSession => OpenedFor(sessRun[r].resumed, sessRun[r].key)
       /\ sessRun[r].session \notin {NoSession, r} =>
            OpenedFor(sessRun[r].session, sessRun[r].key)

\* Who has still to tell its conversation, or to go on with its queue, is over.
WaitersAreOver == \A r \in sessTell \cup sessNext : sessRun[r].state = "over"

\* A conversation has one run at a time, with the record of the map.
OneRun ==
  \A r \in CliRun : sessRun[r].state = "running" /\ sessRun[r].key \notin SharedKey =>
    /\ sessMap[sessRun[r].key] \in {0, sessRun[r].record}
    /\ \A s \in CliRun : sessRun[s].state = "running" /\ sessRun[s].key = sessRun[r].key => s = r

\* Nothing runs in a process that is down, and it holds no map.
DownIsQuiet ==
  ~sessUp => /\ \A r \in CliRun : sessRun[r].state # "running"
             /\ \A k \in Key : sessMap[k] = 0

\* Of a deleted conversation nothing is in the map and nothing runs, unless late.
DeletedStays ==
  \A k \in sessDeleted : sessMap[k] > 0 \/ RunningOn(k) # {} => k \in sessLate

SesInv ==
  SesTypes /\ Owned /\ WaitersAreOver /\ OneRun /\ DownIsQuiet /\ SessionIsSaved /\ DeletedStays

-----------------------------------------------------------------------------
\* The states of a run of the command line tool.
LEMMA RunStates ==
  ASSUME SesTypes, NEW r \in CliRun
  PROVE  /\ sessRun[r] = NoRun <=> sessRun[r].state = "new"
         /\ sessRun[r] # NoRun => sessRun[r] \in RunOf
         /\ sessRun[r].state \in {"new", "running", "over"}
         /\ sessRun[r].state = "running" => /\ sessRun[r] \in RunOf
                                            /\ sessRun[r].record \in 1 .. MaxRecords
         /\ sessRun[r].state = "over" => sessRun[r] \in RunOf
<1>1. NoRun.state = "new"
  BY DEF NoRun
<1>2. \A x \in RunOf : x.state \in {"running", "over"} /\ x.record \in 0 .. MaxRecords
  BY DEF RunOf
<1>3. sessRun[r] \in RunOf \cup {NoRun}
  BY DEF SesTypes
<1>4. CASE sessRun[r] = NoRun
  BY <1>1, <1>2, <1>4
<1>5. CASE sessRun[r] \in RunOf
  BY <1>1, <1>2, <1>5, SessionAssumption DEF SesTypes
<1>6. QED
  BY <1>3, <1>4, <1>5

\* The number of a key's next record is one.
LEMMA NextIsNumber ==
  ASSUME NEW k \in Key
  PROVE  NextRecord(k) \in Nat /\ NextRecord(k) >= 1
<1>1. MaxRecords \in Int
  BY SessionAssumption
<1>2. IsFiniteSet(1 .. MaxRecords)
  BY <1>1, FS_Interval
<1>3. MadeOn(k) \subseteq 1 .. MaxRecords
  BY DEF MadeOn
<1>4. IsFiniteSet(MadeOn(k))
  BY <1>2, <1>3, FS_Subset
<1>5. QED
  BY <1>4, FS_CardinalityType DEF NextRecord

\* The file is written, or stays when that fails.
Filed(map, record) ==
  \/ sessFile' = sessFile /\ sessUnsaved' = TRUE
  \/ /\ sessFile' \in [Key -> SUBSET Record]
     /\ \A k \in Key : \/ sessMap'[k] = 0 /\ sessFile'[k] = {}
                       \/ /\ map[k] > 0 /\ sessMap'[k] = map[k]
                          /\ record[k][map[k]] \in Record
                          /\ sessFile'[k] = {record[k][map[k]]}
     /\ Cardinality({k \in Key : sessFile'[k] # {}}) <= MaxSessions

\* What a save leaves: of each key nothing, or its record in the map and the file.
LEMMA SaveEffect ==
  ASSUME NEW map \in [Key -> 0 .. MaxRecords],
         NEW record \in [Key -> [1 .. MaxRecords -> Record]],
         SaveSessions(map, record)
  PROVE  /\ sessRecord' = record
         /\ sessMap' \in [Key -> 0 .. MaxRecords]
         /\ \A k \in Key : sessMap'[k] = 0 \/ (map[k] > 0 /\ sessMap'[k] = map[k])
         /\ Filed(map, record)
<1> DEFINE live == {k \in Key : map[k] > 0 /\ ~Stale(k, record[k][map[k]])}
<1>1. PICK kept \in Kept(map, record) :
        /\ sessMap' = [k \in Key |-> IF k \in kept THEN map[k] ELSE 0]
        /\ \/ sessFile' = [k \in Key |-> IF k \in kept THEN {record[k][map[k]]} ELSE {}]
           \/ sessFile' = sessFile /\ sessUnsaved' = TRUE
        /\ sessRecord' = record
  BY DEF SaveSessions
<1>2. kept \subseteq live /\ Cardinality(kept) <= MaxSessions
  <2>1. CASE Cardinality(live) <= MaxSessions
    BY <1>1, <2>1 DEF Kept
  <2>2. CASE ~ (Cardinality(live) <= MaxSessions)
    <3>1. kept \subseteq live /\ Cardinality(kept) = MaxSessions
      BY <1>1, <2>2 DEF Kept
    <3>2. QED
      BY <3>1, SessionAssumption
  <2>3. QED
    BY <2>1, <2>2
<1>3. \A k \in Key : map[k] \in 0 .. MaxRecords /\ (k \in kept => map[k] > 0)
  BY <1>2
<1>4. \A k \in kept : k \in Key /\ map[k] \in 1 .. MaxRecords /\ record[k][map[k]] \in Record
  BY <1>2, <1>3, SessionAssumption
<1>5. sessMap' \in [Key -> 0 .. MaxRecords]
  BY <1>1, <1>3, SessionAssumption
<1>6. \A k \in Key : sessMap'[k] = 0 \/ (map[k] > 0 /\ sessMap'[k] = map[k])
  BY <1>1, <1>3
<1>7. ASSUME sessFile' = [k \in Key |-> IF k \in kept THEN {record[k][map[k]]} ELSE {}]
      PROVE  Filed(map, record)
  <2>1. {k \in Key : sessFile'[k] # {}} = kept
    BY <1>4, <1>7
  <2>2. sessFile' \in [Key -> SUBSET Record]
    BY <1>4, <1>7
  <2>3. QED
    BY <1>1, <1>2, <1>3, <1>4, <1>7, <2>1, <2>2 DEF Filed
<1>8. QED
  BY <1>1, <1>5, <1>6, <1>7 DEF Filed

\* Run r begins with record n of the key, which becomes rec, and resumes what it was given
\* or what the record names.
BegunAs(r, k, given, n, resumed, rec) ==
  /\ sessUp /\ sessRun[r] = NoRun
  /\ k \in SharedKey \/ RunningOn(k) = {}
  /\ sessRecord' = [sessRecord EXCEPT ![k] = [@ EXCEPT ![n] = rec]]
  /\ sessRun' = [sessRun EXCEPT ![r] =
       [state |-> "running", key |-> k, record |-> n,
        resumed |-> resumed, session |-> NoSession]]
  /\ sessMap' = [sessMap EXCEPT ![k] = n]
  /\ \/ rec.id = NoSession
     \/ sessMap[k] = n /\ sessMap[k] > 0 /\ rec.id = sessRecord[k][n].id
  /\ \/ resumed = NoSession
     \/ resumed = given
     \/ sessMap[k] = n /\ sessMap[k] > 0 /\ resumed = sessRecord[k][n].id
  /\ sessLate' = IF k \in sessDeleted THEN sessLate \cup {k} ELSE sessLate
  /\ UNCHANGED <<sessUp, sessFile, sessDeleted, sessConv, sessTell, sessCut, sessUnsaved>>

\* What the start of a run leaves.
LEMMA BeginEffect ==
  ASSUME SesTypes, NEW r \in CliRun, NEW k \in Key, NEW given \in CliRun \cup {NoSession},
         NEW force \in BOOLEAN, BeginRun(r, k, given, force)
  PROVE  \E n \in 1 .. MaxRecords : \E resumed \in CliRun \cup {NoSession} : \E rec \in Record :
        BegunAs(r, k, given, n, resumed, rec)
<1> DEFINE n == IF sessMap[k] > 0 THEN sessMap[k] ELSE NextRecord(k)
           old == IF sessMap[k] > 0 THEN sessRecord[k][n] ELSE NewRecord
           asked == IF force THEN NoSession ELSE IF given # NoSession THEN given ELSE old.id
           rotate == asked # NoSession /\ sessMap[k] > 0 /\ MustRotate(old)
           turns == (IF rotate THEN 0 ELSE old.turns) + 1
<1>1. n \in 1 .. MaxRecords
  <2>1. n <= MaxRecords
    BY DEF BeginRun, SessionKey
  <2>2. sessMap[k] \in 0 .. MaxRecords /\ MaxRecords \in Nat
    BY SessionAssumption DEF SesTypes
  <2>3. QED
    BY <2>1, <2>2, NextIsNumber
<1>2. PICK missing \in BOOLEAN :
        LET resumed == IF rotate \/ missing THEN NoSession ELSE asked
        IN  /\ turns <= MaxSessionTurns + 1
            /\ sessRecord' = [sessRecord EXCEPT ![k][n] =
                  [id |-> IF missing THEN NoSession ELSE old.id, turns |-> turns, last |-> "now"]]
            /\ sessRun' = [sessRun EXCEPT ![r] =
                  [state |-> "running", key |-> k, record |-> n,
                   resumed |-> resumed, session |-> NoSession]]
            /\ sessMap' = [sessMap EXCEPT ![k] = n]
  BY DEF BeginRun, SessionKey
<1>3. old \in Record
  <2>1. NewRecord \in Record
    BY SessionAssumption DEF NewRecord, Record, Gone
  <2>2. sessRecord[k][n] \in Record
    <3>1. sessRecord \in [Key -> [1 .. MaxRecords -> Record]]
      BY DEF SesTypes
    <3> HIDE DEF n
    <3>2. QED
      BY <1>1, <3>1
  <2>3. QED
    BY <2>1, <2>2
<1> DEFINE rec == [id |-> IF missing THEN NoSession ELSE old.id, turns |-> turns, last |-> "now"]
           resumed == IF rotate \/ missing THEN NoSession ELSE asked
<1>4. old.id = NoSession \/ (sessMap[k] = n /\ sessMap[k] > 0 /\ old.id = sessRecord[k][n].id)
  BY DEF NewRecord
<1>5. old.id \in CliRun \cup {NoSession} /\ old.turns \in Nat
  BY <1>3, SessionAssumption DEF Record
<1>6. /\ sessUp /\ sessRun[r] = NoRun /\ (k \in SharedKey \/ RunningOn(k) = {})
      /\ sessLate' = IF k \in sessDeleted THEN sessLate \cup {k} ELSE sessLate
      /\ UNCHANGED <<sessUp, sessFile, sessDeleted, sessConv, sessTell, sessCut, sessUnsaved>>
  BY DEF BeginRun, SessionKey
<1>7. asked \in {NoSession, given, old.id}
  OBVIOUS
<1> HIDE DEF old, n, asked, rotate
<1>8. turns \in 0 .. MaxSessionTurns + 1
  BY <1>2, <1>5, SessionAssumption
<1>9. rec \in Record /\ rec.id \in {NoSession, old.id}
  BY <1>5, <1>8 DEF Record, Gone
<1>10. resumed \in CliRun \cup {NoSession} /\ resumed \in {NoSession, given, old.id}
  BY <1>5, <1>7
<1>11. sessRecord' = [sessRecord EXCEPT ![k] = [@ EXCEPT ![n] = rec]]
  BY <1>2
<1>12. /\ sessRun' = [sessRun EXCEPT ![r] =
                [state |-> "running", key |-> k, record |-> n,
                 resumed |-> resumed, session |-> NoSession]]
       /\ sessMap' = [sessMap EXCEPT ![k] = n]
  BY <1>2
<1> HIDE DEF rec, resumed
<1>13. /\ rec.id = NoSession \/ (sessMap[k] = n /\ sessMap[k] > 0 /\ rec.id = sessRecord[k][n].id)
       /\ \/ resumed = NoSession
          \/ resumed = given
          \/ sessMap[k] = n /\ sessMap[k] > 0 /\ resumed = sessRecord[k][n].id
  BY <1>4, <1>9, <1>10
<1>14. QED
  BY <1>1, <1>6, <1>9, <1>10, <1>11, <1>12, <1>13 DEF BegunAs

\* The same of the next state.
OpenedAfter(id, k) ==
  /\ id \in CliRun /\ sessRun'[id].state = "over"
  /\ k \notin SharedKey \cup sessMixed' => sessRun'[id].key = k

\* Runs that are over stay as they are.
OverStays ==
  \A r \in CliRun : sessRun[r].state = "over" =>
      sessRun'[r].state = "over" /\ sessRun'[r].key = sessRun[r].key

\* Runs that are over stay who opened a session.
LEMMA OpenedStays ==
  ASSUME OverStays, sessMixed \subseteq sessMixed'
  PROVE  \A id, k : OpenedFor(id, k) => OpenedAfter(id, k)
BY DEF OpenedFor, OpenedAfter, OverStays

\* A run goes on as it was, or ends.
RunsGoOn ==
  /\ sessRun' \in [CliRun -> RunOf \cup {NoRun}]
  /\ OverStays
  /\ \A r \in CliRun : sessRun'[r].state = "running" => sessRun'[r] = sessRun[r]
  /\ \A r \in CliRun : sessRun'[r] # NoRun =>
       /\ sessRun[r] # NoRun /\ sessRun'[r].key = sessRun[r].key
       /\ sessRun'[r].session = sessRun[r].session
       /\ sessRun'[r].resumed \in {NoSession, sessRun[r].resumed}

\* What is kept beside the map and the records is in order.
BesideKept ==
  /\ sessUp /\ sessUp' = sessUp /\ sessMixed' = sessMixed
  /\ sessDeleted' \subseteq Key /\ sessCut' \subseteq Key
  /\ sessConv' \in [Key -> CliRun \cup {NoSession}]
  /\ \A k \in Key : sessConv'[k] # NoSession => OpenedAfter(sessConv'[k], k)
  /\ sessTell' \subseteq CliRun /\ sessNext' \subseteq CliRun
  /\ \A r \in sessTell' \cup sessNext' : sessRun'[r].state = "over"

\* A save of a map and of records that are in order keeps everything in order.
LEMMA SaveKeeps ==
  ASSUME SesInv,
         NEW map \in [Key -> 0 .. MaxRecords],
         NEW record \in [Key -> [1 .. MaxRecords -> Record]],
         SaveSessions(map, record), RunsGoOn, BesideKept,
         \A k \in Key, n \in 1 .. MaxRecords :
            record[k][n].id # NoSession => OpenedAfter(record[k][n].id, k),
         \A r \in CliRun : sessRun'[r].state = "running" /\ sessRun'[r].key \notin SharedKey =>
            map[sessRun'[r].key] \in {0, sessRun'[r].record},
         \A k \in sessDeleted' : map[k] > 0 \/ RunningOn(k)' # {} => k \in sessLate'
  PROVE  SesInv'
<1>1. /\ sessRecord' = record
      /\ sessMap' \in [Key -> 0 .. MaxRecords]
      /\ \A k \in Key : sessMap'[k] = 0 \/ (map[k] > 0 /\ sessMap'[k] = map[k])
      /\ Filed(map, record)
  BY SaveEffect
<1>2. \A k \in Key : sessMap'[k] > 0 => map[k] = sessMap'[k] /\ map[k] \in 1 .. MaxRecords
  BY <1>1, SessionAssumption
<1>3. \A k \in Key : \A rec \in sessFile'[k] :
        \/ rec \in sessFile[k]
        \/ map[k] \in 1 .. MaxRecords /\ rec = record[k][map[k]]
  BY <1>1, SessionAssumption DEF Filed
<1>4. SesTypes'
  <2>1. /\ sessFile' \in [Key -> SUBSET Record]
        /\ \A k \in Key : sessFile'[k] = {} \/ \E rec \in Record : sessFile'[k] = {rec}
        /\ Cardinality({k \in Key : sessFile'[k] # {}}) <= MaxSessions
    <3>1. CASE sessFile' = sessFile
      BY <3>1 DEF SesInv, SesTypes
    <3>2. CASE sessFile' # sessFile
      BY <1>1, <3>2 DEF Filed
    <3>3. QED
      BY <3>1, <3>2
  <2>2. \A r \in CliRun : sessRun'[r].state = "running" => sessRun'[r].record > 0
    BY DEF RunsGoOn, SesInv, SesTypes
  <2>3. QED
    BY <1>1, <2>1, <2>2 DEF SesTypes, RunsGoOn, BesideKept, SesInv
<1>5. Owned'
  <2>1. \A k \in Key, n \in 1 .. MaxRecords :
          sessRecord'[k][n].id # NoSession => OpenedAfter(sessRecord'[k][n].id, k)
    BY <1>1
  <2>2. \A k \in Key : \A rec \in sessFile'[k] : rec.id # NoSession => OpenedAfter(rec.id, k)
    BY <1>3, OpenedStays DEF SesInv, Owned, RunsGoOn, BesideKept
  <2>3. ASSUME NEW r \in CliRun, sessRun'[r] # NoRun
        PROVE  /\ sessRun'[r].resumed # NoSession => OpenedAfter(sessRun'[r].resumed, sessRun'[r].key)
               /\ sessRun'[r].session \notin {NoSession, r} =>
                     OpenedAfter(sessRun'[r].session, sessRun'[r].key)
    <3>1. /\ sessRun[r] # NoRun /\ sessRun'[r].key = sessRun[r].key
          /\ sessRun'[r].session = sessRun[r].session
          /\ sessRun'[r].resumed \in {NoSession, sessRun[r].resumed}
      BY <2>3 DEF RunsGoOn
    <3>2. /\ sessRun[r].resumed # NoSession => OpenedFor(sessRun[r].resumed, sessRun[r].key)
          /\ sessRun[r].session \notin {NoSession, r} =>
                OpenedFor(sessRun[r].session, sessRun[r].key)
      BY <3>1 DEF SesInv, Owned
    <3>3. \A id, k : OpenedFor(id, k) => OpenedAfter(id, k)
      BY OpenedStays DEF RunsGoOn, BesideKept
    <3>4. QED
      BY <3>1, <3>2, <3>3
  <2>4. QED
    BY <2>1, <2>2, <2>3 DEF Owned, OpenedFor, OpenedAfter, BesideKept
<1>6. OneRun'
  <2> SUFFICES ASSUME NEW r \in CliRun, sessRun'[r].state = "running", sessRun'[r].key \notin SharedKey
               PROVE  /\ sessMap'[sessRun'[r].key] \in {0, sessRun'[r].record}
                      /\ \A s \in CliRun : sessRun'[s].state = "running"
                                           /\ sessRun'[s].key = sessRun'[r].key => s = r
    BY DEF OneRun
  <2>1. sessRun'[r] = sessRun[r]
    BY DEF RunsGoOn
  <2>2. sessRun[r] \in RunOf /\ sessRun[r].key \in Key
    BY <2>1, RunStates DEF SesInv, RunOf
  <2>3. sessMap'[sessRun'[r].key] \in {0, sessRun'[r].record}
    BY <1>1, <2>1, <2>2
  <2>4. ASSUME NEW s \in CliRun, sessRun'[s].state = "running", sessRun'[s].key = sessRun'[r].key
        PROVE  s = r
    BY <2>1, <2>4 DEF RunsGoOn, SesInv, OneRun
  <2>5. QED
    BY <2>3, <2>4
<1>7. SessionIsSaved'
  <2>1. ASSUME ~sessUnsaved', NEW k \in Key, sessMap'[k] > 0
        PROVE  \E rec \in sessFile'[k] : rec.id = sessRecord'[k][sessMap'[k]].id
    <3>1. map[k] = sessMap'[k] /\ sessFile'[k] = {record[k][map[k]]}
      BY <1>1, <2>1 DEF Filed
    <3>2. sessRecord'[k][sessMap'[k]] \in sessFile'[k]
      BY <1>1, <3>1
    <3>3. QED
      BY <3>2
  <2>2. QED
    BY <2>1 DEF SessionIsSaved
<1>8. DownIsQuiet' /\ WaitersAreOver' /\ DeletedStays'
  BY <1>1, <1>2 DEF BesideKept, DownIsQuiet, WaitersAreOver, DeletedStays
<1>9. QED
  BY <1>4, <1>5, <1>6, <1>7, <1>8 DEF SesInv

\* What the end of a run leaves of the runs.
LEMMA OverEffect ==
  ASSUME SesTypes, NEW r \in CliRun, sessRun[r].state = "running", RunIsOver(r)
  PROVE  /\ RunsGoOn
         /\ sessRun'[r].state = "over" /\ sessRun'[r].key = sessRun[r].key
         /\ sessRun'[r].session = sessRun[r].session
         /\ sessRun[r].key \in Key /\ sessRun[r].record \in 1 .. MaxRecords
         /\ sessRun[r].session \in CliRun \cup {NoSession}
         /\ \A s \in CliRun \ {r} : sessRun'[s] = sessRun[s]
         /\ sessCut' \subseteq Key
         /\ sessCut' = IF sessRun[r].session = NoSession THEN sessCut \cup {sessRun[r].key}
                                                         ELSE sessCut
         /\ sessNext' = sessNext \cup {r}
<1>1. sessRun[r] \in RunOf /\ sessRun[r].record \in 1 .. MaxRecords
  BY RunStates
<1>2. sessRun'[r] = [sessRun[r] EXCEPT !.state = "over", !.record = 0,
                        !.resumed = IF sessRun[r].session = NoSession THEN sessRun[r].resumed
                                    ELSE NoSession]
  BY <1>1 DEF RunIsOver, SesTypes
<1>3. /\ sessRun'[r] \in RunOf /\ sessRun'[r].state = "over" /\ sessRun'[r].key = sessRun[r].key
      /\ sessRun'[r].session = sessRun[r].session
      /\ sessRun'[r].resumed \in {NoSession, sessRun[r].resumed}
  <2>1. 0 \in 0 .. MaxRecords
    BY SessionAssumption
  <2>2. QED
    BY <1>1, <1>2, <2>1 DEF RunOf
<1>4. \A s \in CliRun \ {r} : sessRun'[s] = sessRun[s]
  BY DEF RunIsOver, SesTypes
<1>5. sessRun' \in [CliRun -> RunOf \cup {NoRun}]
  <2>1. sessRun' = [sessRun EXCEPT ![r] = sessRun'[r]]
    BY <1>2 DEF RunIsOver, SesTypes
  <2>2. QED
    BY <1>3, <2>1 DEF SesTypes
<1>6. sessRun[r].key \in Key /\ sessRun[r].session \in CliRun \cup {NoSession}
  BY <1>1 DEF RunOf
<1>7. sessRun[r] # NoRun
  BY RunStates
<1>8. /\ sessCut' = IF sessRun[r].session = NoSession THEN sessCut \cup {sessRun[r].key} ELSE sessCut
      /\ sessNext' = sessNext \cup {r}
  BY DEF RunIsOver, SessionKey
<1>9. RunsGoOn
  BY <1>3, <1>4, <1>5, <1>7 DEF RunsGoOn, OverStays
<1>10. QED
  BY <1>1, <1>3, <1>4, <1>6, <1>8, <1>9 DEF SesTypes

\* A run begins: with what the record of the map says or with what it is given.
LEMMA SesBeginKeeps ==
  ASSUME SesInv, NEW r \in CliRun, NEW k \in Key, NEW given \in CliRun \cup {NoSession},
         NEW force \in BOOLEAN, BeginRun(r, k, given, force),
         sessMixed \subseteq sessMixed', sessMixed' \subseteq Key, sessNext' \subseteq sessNext,
         given # NoSession => /\ sessRun[given].state = "over"
                              /\ k \notin SharedKey \cup sessMixed' => sessRun[given].key = k
  PROVE  SesInv'
<1> USE SessionAssumption
<1>1. SesTypes
  BY DEF SesInv
<1>2. PICK n \in 1 .. MaxRecords : \E resumed \in CliRun \cup {NoSession} : \E rec \in Record :
        BegunAs(r, k, given, n, resumed, rec)
  BY <1>1, BeginEffect
<1>3. PICK resumed \in CliRun \cup {NoSession} : \E rec \in Record :
        BegunAs(r, k, given, n, resumed, rec)
  BY <1>2
<1>4. PICK rec \in Record : BegunAs(r, k, given, n, resumed, rec)
  BY <1>3
<1>5. /\ sessRun'[r] \in RunOf /\ sessRun'[r].state = "running" /\ sessRun'[r].key = k
      /\ sessRun'[r].record = n /\ sessRun'[r].resumed = resumed
      /\ sessRun'[r].session = NoSession
      /\ \A s \in CliRun \ {r} : sessRun'[s] = sessRun[s]
      /\ sessRun' \in [CliRun -> RunOf \cup {NoRun}]
  <2> DEFINE new == [state |-> "running", key |-> k, record |-> n,
                     resumed |-> resumed, session |-> NoSession]
  <2>1. new \in RunOf /\ n \in 0 .. MaxRecords
    BY DEF RunOf
  <2>2. /\ new.state = "running" /\ new.key = k /\ new.record = n /\ new.resumed = resumed
        /\ new.session = NoSession
    OBVIOUS
  <2>3. sessRun' = [sessRun EXCEPT ![r] = new]
    BY <1>4 DEF BegunAs
  <2> HIDE DEF new
  <2>4. QED
    BY <1>1, <2>1, <2>2, <2>3 DEF SesTypes
<1>6. /\ sessRecord' \in [Key -> [1 .. MaxRecords -> Record]]
      /\ \A j \in Key, m \in 1 .. MaxRecords :
            sessRecord'[j][m] = IF j = k /\ m = n THEN rec ELSE sessRecord[j][m]
  <2>1. sessRecord \in [Key -> [1 .. MaxRecords -> Record]]
    BY <1>1 DEF SesTypes
  <2>2. [sessRecord[k] EXCEPT ![n] = rec] \in [1 .. MaxRecords -> Record]
    BY <2>1
  <2>3. sessRecord' = [sessRecord EXCEPT ![k] = [sessRecord[k] EXCEPT ![n] = rec]]
    BY <1>4 DEF BegunAs
  <2>4. sessRecord' \in [Key -> [1 .. MaxRecords -> Record]]
    BY <2>1, <2>2, <2>3
  <2>5. ASSUME NEW j \in Key, NEW m \in 1 .. MaxRecords
        PROVE  sessRecord'[j][m] = IF j = k /\ m = n THEN rec ELSE sessRecord[j][m]
    <3>1. CASE j = k
      <4>1. sessRecord'[j] = [sessRecord[k] EXCEPT ![n] = rec]
        BY <2>1, <2>3, <3>1
      <4>2. QED
        BY <2>1, <3>1, <4>1
    <3>2. CASE j # k
      BY <2>1, <2>3, <3>2
    <3>3. QED
      BY <3>1, <3>2
  <2>6. QED
    BY <2>4, <2>5
<1>7. sessMap' \in [Key -> 0 .. MaxRecords] /\ sessMap'[k] = n
      /\ \A j \in Key \ {k} : sessMap'[j] = sessMap[j]
  BY <1>1, <1>4 DEF BegunAs, SesTypes
<1>8. sessRun[r].state = "new" /\ \A s \in CliRun : sessRun[s] # NoRun => sessRun[s].key \in Key
  <2>1. \A s \in CliRun : sessRun[s] # NoRun => sessRun[s] \in RunOf
    BY <1>1, RunStates
  <2>2. QED
    BY <1>4, <2>1 DEF BegunAs, NoRun, RunOf
<1>9. OverStays
  BY <1>5, <1>8 DEF OverStays
<1>10. /\ \A id, j : OpenedFor(id, j) => OpenedAfter(id, j)
       /\ given # NoSession => OpenedAfter(given, k)
  BY <1>9, OpenedStays DEF OpenedAfter, OverStays
<1>11. rec.id # NoSession => sessMap[k] = n /\ sessMap[k] > 0 /\ rec.id = sessRecord[k][n].id
  BY <1>4 DEF BegunAs
<1>12. resumed # NoSession =>
          \/ resumed = given
          \/ sessMap[k] = n /\ sessMap[k] > 0 /\ resumed = sessRecord[k][n].id
  BY <1>4 DEF BegunAs
<1>13. \A j \in Key, m \in 1 .. MaxRecords :
         sessRecord[j][m].id # NoSession => OpenedFor(sessRecord[j][m].id, j)
  BY DEF SesInv, Owned
<1>14. SesTypes'
  <2>1. ASSUME NEW s \in CliRun, sessRun'[s].state = "running" PROVE sessRun'[s].record > 0
    <3>1. CASE s = r
      BY <1>5, <3>1
    <3>2. CASE s # r
      <4>1. sessRun'[s] = sessRun[s]
        BY <1>5, <3>2
      <4>2. QED
        BY <1>1, <2>1, <4>1 DEF SesTypes
    <3>3. QED
      BY <3>1, <3>2
  <2>2. UNCHANGED <<sessUp, sessFile, sessDeleted, sessCut, sessConv, sessTell>>
    BY <1>4 DEF BegunAs
  <2>3. QED
    <3>1. sessRun' \in [CliRun -> RunOf \cup {NoRun}] /\ sessRecord' \in [Key -> [1 .. MaxRecords -> Record]]
      BY <1>5, <1>6
    <3>2. sessMap' \in [Key -> 0 .. MaxRecords]
      BY <1>7
    <3>3. sessUp' \in BOOLEAN /\ sessFile' \in [Key -> SUBSET Record]
          /\ sessDeleted' \subseteq Key /\ sessCut' \subseteq Key /\ sessMixed' \subseteq Key
          /\ sessConv' \in [Key -> CliRun \cup {NoSession}]
          /\ sessTell' \subseteq CliRun /\ sessNext' \subseteq CliRun
      BY <1>1, <2>2 DEF SesTypes
    <3>4. /\ \A j \in Key : sessFile'[j] = {} \/ \E x \in Record : sessFile'[j] = {x}
          /\ Cardinality({j \in Key : sessFile'[j] # {}}) <= MaxSessions
      BY <1>1, <2>2 DEF SesTypes
    <3>5. QED
      BY <2>1, <3>1, <3>2, <3>3, <3>4 DEF SesTypes
<1>15. Owned'
  <2>1. \A j \in Key, m \in 1 .. MaxRecords :
          sessRecord'[j][m].id # NoSession => OpenedAfter(sessRecord'[j][m].id, j)
    BY <1>6, <1>10, <1>11, <1>13
  <2>2. \A j \in Key : \A x \in sessFile'[j] : x.id # NoSession => OpenedAfter(x.id, j)
    BY <1>4, <1>10 DEF BegunAs, SesInv, Owned
  <2>3. ASSUME NEW s \in CliRun, sessRun'[s] # NoRun
        PROVE  /\ sessRun'[s].resumed # NoSession => OpenedAfter(sessRun'[s].resumed, sessRun'[s].key)
               /\ sessRun'[s].session \notin {NoSession, s} =>
                     OpenedAfter(sessRun'[s].session, sessRun'[s].key)
    <3>1. CASE s = r
      BY <1>5, <1>10, <1>12, <1>13, <3>1
    <3>2. CASE s # r
      <4>1. sessRun'[s] = sessRun[s]
        BY <1>5, <3>2
      <4>2. /\ sessRun[s].resumed # NoSession => OpenedFor(sessRun[s].resumed, sessRun[s].key)
            /\ sessRun[s].session \notin {NoSession, s} =>
                  OpenedFor(sessRun[s].session, sessRun[s].key)
        BY <2>3, <4>1 DEF SesInv, Owned
      <4>3. QED
        BY <1>10, <4>1, <4>2
    <3>3. QED
      BY <3>1, <3>2
  <2>4. \A j \in Key : sessConv'[j] # NoSession => OpenedAfter(sessConv'[j], j)
    BY <1>4, <1>10 DEF BegunAs, SesInv, Owned
  <2>5. QED
    BY <2>1, <2>2, <2>3, <2>4 DEF Owned, OpenedFor, OpenedAfter
<1>16. ASSUME k \notin SharedKey, NEW s \in CliRun, sessRun[s].state = "running"
       PROVE  sessRun[s].key # k
  BY <1>4, <1>16 DEF BegunAs, RunningOn
<1>17. OneRun'
  <2> SUFFICES ASSUME NEW q \in CliRun, sessRun'[q].state = "running", sessRun'[q].key \notin SharedKey
               PROVE  /\ sessMap'[sessRun'[q].key] \in {0, sessRun'[q].record}
                      /\ \A s \in CliRun : sessRun'[s].state = "running"
                                           /\ sessRun'[s].key = sessRun'[q].key => s = q
    BY DEF OneRun
  <2>1. CASE q = r
    BY <1>5, <1>7, <1>16, <2>1
  <2>2. CASE q # r
    <3>1. sessRun'[q] = sessRun[q] /\ sessRun[q].key # k /\ sessRun[q].key \in Key
      BY <1>1, <1>5, <1>8, <1>16, <2>2, RunStates
    <3>2. sessMap[sessRun[q].key] \in {0, sessRun[q].record}
      BY <3>1 DEF SesInv, OneRun
    <3>3. ASSUME NEW s \in CliRun, sessRun'[s].state = "running", sessRun'[s].key = sessRun'[q].key
          PROVE  s = q
      <4>1. s # r
        BY <1>5, <3>1, <3>3
      <4>2. sessRun'[s] = sessRun[s]
        BY <1>5, <4>1
      <4>3. QED
        BY <3>1, <3>3, <4>2 DEF SesInv, OneRun
    <3>4. QED
      BY <1>7, <3>1, <3>2, <3>3
  <2>3. QED
    BY <2>1, <2>2
<1>18. DownIsQuiet' /\ WaitersAreOver'
  BY <1>4, <1>9 DEF BegunAs, DownIsQuiet, SesInv, SesTypes, WaitersAreOver, OverStays
<1>19. SessionIsSaved'
  <2> SUFFICES ASSUME ~sessUnsaved', NEW j \in Key \ SharedKey, sessMap'[j] > 0,
                      RunningOn(j)' = {}, j \notin sessCut',
                      sessRecord'[j][sessMap'[j]].id # NoSession
               PROVE  \E x \in sessFile'[j] : x.id = sessRecord'[j][sessMap'[j]].id
    BY DEF SessionIsSaved
  <2>1. j # k
    <3>1. CASE j = k
      <4>1. r \in RunningOn(j)'
        BY <1>5, <3>1 DEF RunningOn
      <4>2. QED
        BY <4>1
    <3>2. QED
      BY <3>1
  <2>2. RunningOn(j) = {}
    BY <1>5, <1>8 DEF RunningOn
  <2>3. sessMap'[j] = sessMap[j] /\ sessMap[j] \in 1 .. MaxRecords
    BY <1>1, <1>7, <2>1 DEF SesTypes
  <2>4. sessRecord'[j][sessMap'[j]] = sessRecord[j][sessMap[j]]
    BY <1>6, <2>1, <2>3
  <2>5. QED
    BY <1>4, <2>2, <2>3, <2>4 DEF BegunAs, SesInv, SessionIsSaved
<1>20. DeletedStays'
  <2> SUFFICES ASSUME NEW j \in sessDeleted, sessMap'[j] > 0 \/ RunningOn(j)' # {}
               PROVE  j \in sessLate'
    BY <1>4 DEF BegunAs, DeletedStays
  <2>1. CASE j = k
    BY <1>4, <2>1 DEF BegunAs
  <2>2. CASE j # k
    <3>1. sessMap'[j] = sessMap[j]
      BY <1>1, <1>7, <2>2 DEF SesTypes
    <3>2. RunningOn(j)' \subseteq RunningOn(j)
      BY <1>5, <2>2 DEF RunningOn
    <3>3. j \in sessLate
      BY <3>1, <3>2 DEF SesInv, DeletedStays
    <3>4. QED
      BY <1>4, <3>3 DEF BegunAs
  <2>3. QED
    BY <2>1, <2>2
<1>21. QED
  BY <1>14, <1>15, <1>17, <1>18, <1>19, <1>20 DEF SesInv

\* A run ends and nothing is saved: it had no session, or its record names none.
LEMMA SesUnsavedKeeps ==
  ASSUME SesInv, NEW r \in CliRun, sessRun[r].state = "running", RunIsOver(r),
         \/ sessRun[r].session = NoSession
         \/ sessRecord[sessRun[r].key][sessRun[r].record].id = NoSession,
         BesideKept, UNCHANGED <<sessMap, sessRecord, sessFile, sessDeleted, sessLate, sessUnsaved>>
  PROVE  SesInv'
<1> DEFINE k == sessRun[r].key
           n == sessRun[r].record
<1>1. /\ RunsGoOn
      /\ sessRun'[r].state = "over" /\ sessRun'[r].key = k
      /\ k \in Key /\ n \in 1 .. MaxRecords
      /\ \A s \in CliRun \ {r} : sessRun'[s] = sessRun[s]
      /\ sessCut' \subseteq Key
      /\ sessCut' = IF sessRun[r].session = NoSession THEN sessCut \cup {k} ELSE sessCut
  BY OverEffect DEF SesInv
<1>2. SesTypes'
  <2>1. \A s \in CliRun : sessRun'[s].state = "running" => sessRun'[s].record > 0
    BY <1>1 DEF RunsGoOn, SesInv, SesTypes
  <2>2. QED
    BY <1>1, <2>1 DEF SesInv, SesTypes, RunsGoOn, BesideKept
<1>3. Owned'
  <2>1. \A id, j : OpenedFor(id, j) => OpenedAfter(id, j)
    BY <1>1, OpenedStays DEF RunsGoOn, BesideKept
  <2>2. ASSUME NEW s \in CliRun, sessRun'[s] # NoRun
        PROVE  /\ sessRun'[s].resumed # NoSession => OpenedAfter(sessRun'[s].resumed, sessRun'[s].key)
               /\ sessRun'[s].session \notin {NoSession, s} =>
                     OpenedAfter(sessRun'[s].session, sessRun'[s].key)
    <3>1. /\ sessRun[s] # NoRun /\ sessRun'[s].key = sessRun[s].key
          /\ sessRun'[s].session = sessRun[s].session
          /\ sessRun'[s].resumed \in {NoSession, sessRun[s].resumed}
      BY <1>1, <2>2 DEF RunsGoOn
    <3>2. /\ sessRun[s].resumed # NoSession => OpenedFor(sessRun[s].resumed, sessRun[s].key)
          /\ sessRun[s].session \notin {NoSession, s} =>
                OpenedFor(sessRun[s].session, sessRun[s].key)
      BY <3>1 DEF SesInv, Owned
    <3>3. QED
      BY <2>1, <3>1, <3>2
  <2>3. \A j \in Key, m \in 1 .. MaxRecords :
          sessRecord'[j][m].id # NoSession => OpenedAfter(sessRecord'[j][m].id, j)
    BY <2>1 DEF SesInv, Owned
  <2>4. \A j \in Key : \A x \in sessFile'[j] : x.id # NoSession => OpenedAfter(x.id, j)
    BY <2>1 DEF SesInv, Owned
  <2>5. QED
    BY <2>2, <2>3, <2>4 DEF Owned, OpenedFor, OpenedAfter, BesideKept
<1>4. OneRun' /\ DownIsQuiet' /\ WaitersAreOver'
  BY <1>1 DEF RunsGoOn, SesInv, OneRun, DownIsQuiet, WaitersAreOver, BesideKept
<1>5. SessionIsSaved'
  <2> SUFFICES ASSUME ~sessUnsaved', NEW j \in Key \ SharedKey, sessMap'[j] > 0,
                      RunningOn(j)' = {}, j \notin sessCut',
                      sessRecord'[j][sessMap'[j]].id # NoSession
               PROVE  \E x \in sessFile'[j] : x.id = sessRecord'[j][sessMap'[j]].id
    BY DEF SessionIsSaved
  <2>1. j # k
    <3>1. CASE j = k
      <4>1. sessMap[k] = n
        BY <3>1 DEF SesInv, OneRun, SesTypes
      <4>2. sessRun[r].session # NoSession
        BY <1>1, <3>1
      <4>3. QED
        BY <3>1, <4>1, <4>2
    <3>2. QED
      BY <3>1
  <2>2. RunningOn(j) = {} /\ j \notin sessCut
    <3>1. \A s \in CliRun : sessRun[s].state = "running" /\ sessRun[s].key = j => s # r
      BY <2>1
    <3>2. RunningOn(j) \subseteq RunningOn(j)'
      BY <1>1, <3>1 DEF RunningOn
    <3>3. QED
      BY <1>1, <3>2
  <2>3. QED
    BY <2>2 DEF SesInv, SessionIsSaved, BesideKept
<1>6. DeletedStays'
  <2>1. \A j : RunningOn(j)' \subseteq RunningOn(j)
    BY <1>1 DEF RunsGoOn, RunningOn
  <2>2. QED
    BY <2>1 DEF SesInv, DeletedStays
<1>7. QED
  BY <1>2, <1>3, <1>4, <1>5, <1>6 DEF SesInv

\* A run ends, and its record, with what id it had or none, is put back and saved.
LEMMA SesSavedKeeps ==
  ASSUME SesInv, NEW r \in CliRun, sessRun[r].state = "running", RunIsOver(r),
         NEW rec \in Record, rec.id \in {NoSession, sessRun[r].session},
         SaveSessions([sessMap EXCEPT ![sessRun[r].key] = sessRun[r].record],
            [sessRecord EXCEPT ![sessRun[r].key] =
                [sessRecord[sessRun[r].key] EXCEPT ![sessRun[r].record] = rec]]),
         BesideKept, UNCHANGED <<sessDeleted, sessLate>>
  PROVE  SesInv'
<1> DEFINE k == sessRun[r].key
           n == sessRun[r].record
           map == [sessMap EXCEPT ![k] = n]
           record == [sessRecord EXCEPT ![k] = [sessRecord[k] EXCEPT ![n] = rec]]
<1>1. /\ RunsGoOn
      /\ sessRun'[r].state = "over" /\ sessRun'[r].key = k
      /\ k \in Key /\ n \in 1 .. MaxRecords
      /\ sessRun[r].session \in CliRun \cup {NoSession}
      /\ \A s \in CliRun \ {r} : sessRun'[s] = sessRun[s]
      /\ sessCut' \subseteq Key
  BY OverEffect DEF SesInv
<1>2. SesTypes /\ sessRun[r] # NoRun
  BY RunStates DEF SesInv
<1>3. SaveSessions(map, record)
  OBVIOUS
<1>4. /\ map \in [Key -> 0 .. MaxRecords] /\ map[k] = n
      /\ \A j \in Key \ {k} : map[j] = sessMap[j]
  BY <1>1, <1>2 DEF SesTypes
<1>5. /\ record \in [Key -> [1 .. MaxRecords -> Record]]
      /\ \A j \in Key, m \in 1 .. MaxRecords :
            record[j][m] = IF j = k /\ m = n THEN rec ELSE sessRecord[j][m]
  <2>1. sessRecord \in [Key -> [1 .. MaxRecords -> Record]]
    BY <1>2 DEF SesTypes
  <2> HIDE DEF k, n
  <2>2. [sessRecord[k] EXCEPT ![n] = rec] \in [1 .. MaxRecords -> Record]
    BY <1>1, <2>1
  <2>3. record \in [Key -> [1 .. MaxRecords -> Record]]
    BY <1>1, <2>1, <2>2
  <2>4. ASSUME NEW j \in Key, NEW m \in 1 .. MaxRecords
        PROVE  record[j][m] = IF j = k /\ m = n THEN rec ELSE sessRecord[j][m]
    <3>1. CASE j = k
      <4>1. record[j] = [sessRecord[k] EXCEPT ![n] = rec]
        BY <1>1, <2>1, <3>1
      <4>2. QED
        BY <2>1, <3>1, <4>1
    <3>2. CASE j # k
      BY <1>1, <2>1, <3>2
    <3>3. QED
      BY <3>1, <3>2
  <2>5. QED
    BY <2>3, <2>4
<1>6. \A id, j : OpenedFor(id, j) => OpenedAfter(id, j)
  BY <1>1, OpenedStays DEF RunsGoOn, BesideKept
<1>7. rec.id # NoSession => OpenedAfter(rec.id, k)
  <2>1. OpenedAfter(r, k)
    BY <1>1 DEF OpenedAfter
  <2>2. sessRun[r].session \notin {NoSession, r} => OpenedFor(sessRun[r].session, k)
    BY <1>2 DEF SesInv, Owned
  <2>3. QED
    BY <1>6, <2>1, <2>2
<1>8. \A s \in CliRun : sessRun'[s].state = "running" =>
        s # r /\ sessRun'[s] = sessRun[s] /\ sessRun[s].key \in Key
  <2>1. \A s \in CliRun : sessRun[s].state = "running" => sessRun[s].key \in Key
    BY <1>2, RunStates DEF RunOf
  <2>2. QED
    BY <1>1, <2>1 DEF RunsGoOn
<1>9. k \notin SharedKey => \A s \in CliRun : sessRun'[s].state = "running" => sessRun'[s].key # k
  BY <1>8 DEF SesInv, OneRun
<1> HIDE DEF k, n, map, record
<1>10. \A j \in Key, m \in 1 .. MaxRecords :
         record[j][m].id # NoSession => OpenedAfter(record[j][m].id, j)
  BY <1>5, <1>6, <1>7 DEF SesInv, Owned
<1>11. \A s \in CliRun : sessRun'[s].state = "running" /\ sessRun'[s].key \notin SharedKey =>
            map[sessRun'[s].key] \in {0, sessRun'[s].record}
  BY <1>4, <1>8, <1>9 DEF SesInv, OneRun
<1>12. \A j \in sessDeleted' : map[j] > 0 \/ RunningOn(j)' # {} => j \in sessLate'
  <2>1. \A j : RunningOn(j)' \subseteq RunningOn(j)
    BY <1>1 DEF RunsGoOn, RunningOn
  <2>2. r \in RunningOn(k)
    BY DEF RunningOn, k
  <2>3. ASSUME NEW j \in sessDeleted, map[j] > 0 \/ RunningOn(j)' # {}
        PROVE  j \in sessLate
    <3>1. j \in Key
      BY <1>2 DEF SesTypes
    <3>2. CASE j = k
      BY <2>2, <3>2 DEF SesInv, DeletedStays
    <3>3. CASE j # k
      BY <1>4, <2>1, <2>3, <3>1, <3>3 DEF SesInv, DeletedStays
    <3>4. QED
      BY <3>2, <3>3
  <2>4. QED
    BY <2>3
<1>13. QED
  <2>1. map \in [Key -> 0 .. MaxRecords] /\ record \in [Key -> [1 .. MaxRecords -> Record]]
    BY <1>4, <1>5
  <2>2. QED
    BY <1>1, <1>3, <1>10, <1>11, <1>12, <2>1, SaveKeeps

\* A run ends: its session is kept or dropped, or there never was a process.
LEMMA SesEndKeeps ==
  ASSUME SesInv, NEW r \in CliRun, KeepSession(r) \/ DropSession(r) \/ SpawnFails(r)
  PROVE  SesInv'
<1> DEFINE k == sessRun[r].key
           n == sessRun[r].record
<1>1. /\ sessUp /\ sessRun[r].state = "running" /\ RunIsOver(r)
      /\ UNCHANGED <<sessUp, sessDeleted, sessConv, sessMixed, sessLate>>
      /\ sessTell' \subseteq sessTell \cup {r}
  BY DEF KeepSession, DropSession, SpawnFails
<1>2. /\ k \in Key /\ n \in 1 .. MaxRecords /\ sessRun[r].session \in CliRun \cup {NoSession}
      /\ sessRecord[k] \in [1 .. MaxRecords -> Record] /\ sessRecord[k][n] \in Record
  <2>1. k \in Key /\ n \in 1 .. MaxRecords /\ sessRun[r].session \in CliRun \cup {NoSession}
    BY <1>1, OverEffect DEF SesInv
  <2>2. sessRecord \in [Key -> [1 .. MaxRecords -> Record]]
    BY DEF SesInv, SesTypes
  <2> HIDE DEF k, n
  <2>3. QED
    BY <2>1, <2>2
<1> HIDE DEF k, n
<1>3. BesideKept
  <2>1. /\ RunsGoOn /\ sessRun'[r].state = "over" /\ sessCut' \subseteq Key
        /\ sessNext' = sessNext \cup {r}
    BY <1>1, OverEffect DEF SesInv
  <2>2. \A j \in Key : sessConv'[j] # NoSession => OpenedAfter(sessConv'[j], j)
    BY <1>1, <2>1, OpenedStays DEF SesInv, Owned, RunsGoOn
  <2>3. \A p \in sessTell' \cup sessNext' : p \in CliRun /\ sessRun'[p].state = "over"
    BY <1>1, <2>1 DEF SesInv, SesTypes, WaitersAreOver, RunsGoOn, OverStays
  <2>4. QED
    BY <1>1, <2>1, <2>2, <2>3 DEF SesInv, SesTypes, BesideKept
<1> USE DEF k, n
<1>4. CASE KeepSession(r) /\ sessRun[r].session # NoSession
  <2> DEFINE rec == [sessRecord[k][n] EXCEPT !.id = sessRun[r].session]
  <2>1. rec \in Record /\ rec.id = sessRun[r].session
    BY <1>2 DEF Record
  <2>2. SaveSessions([sessMap EXCEPT ![k] = n],
                     [sessRecord EXCEPT ![k] = [sessRecord[k] EXCEPT ![n] = rec]])
    BY <1>4 DEF KeepSession, SessionKey
  <2> HIDE DEF rec
  <2>3. QED
    BY <1>1, <1>3, <2>1, <2>2, SesSavedKeeps
<1>5. CASE DropSession(r) /\ sessRecord[k][n].id # NoSession
  <2> DEFINE rec == [sessRecord[k][n] EXCEPT !.id = NoSession, !.turns = 0]
  <2>1. rec \in Record /\ rec.id = NoSession
    <3>1. 0 \in 0 .. MaxSessionTurns + 1
      BY SessionAssumption
    <3>2. QED
      BY <1>2, <3>1 DEF Record
  <2>2. SaveSessions([sessMap EXCEPT ![k] = n],
                     [sessRecord EXCEPT ![k][n].id = NoSession, ![k][n].turns = 0])
    BY <1>5 DEF DropSession, SessionKey
  <2>3. [sessRecord EXCEPT ![k][n].id = NoSession, ![k][n].turns = 0]
          = [sessRecord EXCEPT ![k] = [sessRecord[k] EXCEPT ![n] = rec]]
    BY <1>2 DEF SesInv, SesTypes, Record
  <2> HIDE DEF rec
  <2>4. QED
    BY <1>1, <1>3, <2>1, <2>2, <2>3, SesSavedKeeps
<1>6. CASE /\ UNCHANGED <<sessMap, sessRecord, sessFile, sessUnsaved>>
           /\ sessRun[r].session = NoSession \/ sessRecord[k][n].id = NoSession
  BY <1>1, <1>6, <1>3, SesUnsavedKeeps
<1>7. QED
  BY <1>4, <1>5, <1>6 DEF KeepSession, DropSession, SpawnFails, SessionKey

\* What the runs are told and what time does: no record's id and no key of a run changes.
LEMMA SesQuietKeeps ==
  ASSUME SesInv, sessUp,
         UNCHANGED <<sessUp, sessMap, sessFile, sessDeleted, sessConv, sessTell, sessNext, sessHistory>>,
         sessRun' \in [CliRun -> RunOf \cup {NoRun}],
         sessRecord' \in [Key -> [1 .. MaxRecords -> Record]],
         \A k \in Key, n \in 1 .. MaxRecords : sessRecord'[k][n].id = sessRecord[k][n].id,
         \A r \in CliRun :
            /\ sessRun'[r].state = sessRun[r].state
            /\ sessRun[r] # NoRun =>
                 /\ sessRun'[r].key = sessRun[r].key
                 /\ sessRun'[r].record = sessRun[r].record
                 /\ sessRun'[r].resumed = sessRun[r].resumed
                 /\ \/ sessRun'[r].session = sessRun[r].session
                    \/ /\ sessRun[r].state = "running"
                       /\ sessRun'[r].session \in {r, sessRun[r].resumed}
  PROVE  SesInv'
<1>1. UNCHANGED <<sessCut, sessMixed, sessLate, sessUnsaved>>
  BY DEF sessHistory
<1>2. SesTypes /\ NoRun.state = "new"
  BY DEF SesInv, NoRun
<1>3. \A r \in CliRun : /\ sessRun[r].state \in {"running", "over"} => sessRun[r] # NoRun
                        /\ sessRun'[r] # NoRun => sessRun[r] # NoRun
                        /\ sessRun[r].state = "running" => sessRun[r].key \in Key
  <2>1. \A r \in CliRun : sessRun[r].state = "running" => sessRun[r].key \in Key
    BY <1>2, RunStates DEF RunOf
  <2>2. \A x \in RunOf : x.state # "new"
    BY DEF RunOf
  <2>3. \A r \in CliRun : sessRun'[r].state = "new" => sessRun'[r] = NoRun
    BY <2>2
  <2>4. QED
    BY <1>2, <2>1, <2>3
<1>4. OverStays
  BY <1>3 DEF OverStays
<1>5. \A id, k : OpenedFor(id, k) => OpenedAfter(id, k)
  BY <1>1, <1>4, OpenedStays
<1>6. \A k \in Key : sessMap'[k] > 0 => /\ sessMap[k] \in 1 .. MaxRecords /\ sessMap' = sessMap
                                        /\ sessRecord'[k][sessMap'[k]].id = sessRecord[k][sessMap[k]].id
  BY <1>2, SessionAssumption DEF SesTypes
<1>7. SesTypes'
  <2>1. \A r \in CliRun : sessRun'[r].state = "running" => sessRun'[r].record > 0
    BY <1>2, <1>3 DEF SesTypes
  <2>2. QED
    BY <1>1, <1>2, <2>1 DEF SesTypes
<1>8. Owned'
  <2>1. ASSUME NEW r \in CliRun, sessRun'[r] # NoRun
        PROVE  /\ sessRun'[r].resumed # NoSession => OpenedAfter(sessRun'[r].resumed, sessRun'[r].key)
               /\ sessRun'[r].session \notin {NoSession, r} =>
                     OpenedAfter(sessRun'[r].session, sessRun'[r].key)
    <3>1. /\ sessRun[r].resumed # NoSession => OpenedFor(sessRun[r].resumed, sessRun[r].key)
          /\ sessRun[r].session \notin {NoSession, r} =>
                OpenedFor(sessRun[r].session, sessRun[r].key)
      BY <1>3, <2>1 DEF SesInv, Owned
    <3>2. QED
      BY <1>3, <1>5, <2>1, <3>1
  <2>2. \A j \in Key, m \in 1 .. MaxRecords :
          sessRecord'[j][m].id # NoSession => OpenedAfter(sessRecord'[j][m].id, j)
    BY <1>5 DEF SesInv, Owned
  <2>3. \A j \in Key : \A x \in sessFile'[j] : x.id # NoSession => OpenedAfter(x.id, j)
    BY <1>5 DEF SesInv, Owned
  <2>4. \A j \in Key : sessConv'[j] # NoSession => OpenedAfter(sessConv'[j], j)
    BY <1>5 DEF SesInv, Owned
  <2>5. QED
    BY <2>1, <2>2, <2>3, <2>4 DEF Owned, OpenedFor, OpenedAfter
<1>9. OneRun' /\ DownIsQuiet' /\ WaitersAreOver'
  <2>1. \A r \in CliRun : sessRun'[r].state = "running" =>
           /\ sessRun[r].state = "running" /\ sessRun'[r].key = sessRun[r].key
           /\ sessRun'[r].record = sessRun[r].record
    BY <1>3
  <2>2. QED
    BY <1>2, <1>4, <2>1 DEF SesInv, SesTypes, OneRun, DownIsQuiet, WaitersAreOver, OverStays
<1>10. \A k : RunningOn(k)' = RunningOn(k)
  BY <1>3 DEF RunningOn
<1>11. SessionIsSaved' /\ DeletedStays'
  BY <1>1, <1>6, <1>10 DEF SesInv, SessionIsSaved, DeletedStays
<1>12. QED
  BY <1>7, <1>8, <1>9, <1>11 DEF SesInv

\* A run tells its session id.
LEMMA SesCaptureKeeps ==
  ASSUME SesInv, NEW r \in CliRun, CaptureSession(r)
  PROVE  SesInv'
<1> DEFINE id == IF sessRun[r].resumed = NoSession THEN r ELSE sessRun[r].resumed
<1>1. /\ sessUp /\ sessRun[r].state = "running"
      /\ sessRun' = [sessRun EXCEPT ![r].session = id]
      /\ UNCHANGED <<sessUp, sessMap, sessRecord, sessFile, sessDeleted, sessConv, sessTell,
                     sessNext, sessHistory>>
  BY DEF CaptureSession
<1>2. SesTypes /\ sessRun[r] \in RunOf
  BY <1>1, RunStates DEF SesInv
<1>3. id \in CliRun \cup {NoSession} /\ id \in {r, sessRun[r].resumed}
  BY <1>2 DEF RunOf
<1> HIDE DEF id
<1>4. /\ sessRun'[r] = [sessRun[r] EXCEPT !.session = id]
      /\ sessRun' = [sessRun EXCEPT ![r] = [sessRun[r] EXCEPT !.session = id]]
  BY <1>1, <1>2 DEF SesTypes
<1>5. /\ sessRun'[r] \in RunOf /\ sessRun'[r].state = sessRun[r].state
      /\ sessRun'[r].key = sessRun[r].key /\ sessRun'[r].record = sessRun[r].record
      /\ sessRun'[r].resumed = sessRun[r].resumed /\ sessRun'[r].session = id
  BY <1>2, <1>3, <1>4 DEF RunOf
<1>6. sessRun' \in [CliRun -> RunOf \cup {NoRun}] /\ \A s \in CliRun \ {r} : sessRun'[s] = sessRun[s]
  <2>1. sessRun' = [sessRun EXCEPT ![r] = sessRun'[r]]
    BY <1>4
  <2>2. QED
    BY <1>2, <1>5, <2>1 DEF SesTypes
<1>7. \A s \in CliRun :
            /\ sessRun'[s].state = sessRun[s].state
            /\ sessRun[s] # NoRun =>
                 /\ sessRun'[s].key = sessRun[s].key
                 /\ sessRun'[s].record = sessRun[s].record
                 /\ sessRun'[s].resumed = sessRun[s].resumed
                 /\ \/ sessRun'[s].session = sessRun[s].session
                    \/ /\ sessRun[s].state = "running"
                       /\ sessRun'[s].session \in {s, sessRun[s].resumed}
  BY <1>1, <1>3, <1>5, <1>6
<1>8. /\ sessRecord' \in [Key -> [1 .. MaxRecords -> Record]]
      /\ \A k \in Key, n \in 1 .. MaxRecords : sessRecord'[k][n].id = sessRecord[k][n].id
  BY <1>1, <1>2 DEF SesTypes
<1>9. QED
  BY <1>1, <1>6, <1>7, <1>8, SesQuietKeeps

\* A record gets old.
LEMMA SesTimeKeeps ==
  ASSUME SesInv, NEW k \in Key, TimePasses(k)
  PROVE  SesInv'
<1>1. PICK last \in Gone : sessRecord' = [sessRecord EXCEPT ![k][sessMap[k]].last = last]
  BY DEF TimePasses
<1>2. /\ sessUp /\ sessMap[k] > 0
      /\ UNCHANGED <<sessUp, sessMap, sessFile, sessRun, sessDeleted, sessConv, sessTell,
                     sessNext, sessHistory>>
  BY DEF TimePasses
<1>3. SesTypes
  BY DEF SesInv
<1> DEFINE n == sessMap[k]
           rec == [sessRecord[k][n] EXCEPT !.last = last]
<1>4. n \in 1 .. MaxRecords
  BY <1>2, <1>3, SessionAssumption DEF SesTypes
<1>5. sessRecord \in [Key -> [1 .. MaxRecords -> Record]]
  BY <1>3 DEF SesTypes
<1>6. sessRecord' = [sessRecord EXCEPT ![k] = [sessRecord[k] EXCEPT ![n] = rec]]
  BY <1>1
<1> HIDE DEF n
<1>7. sessRecord[k][n] \in Record
  BY <1>4, <1>5
<1>8. rec \in Record /\ rec.id = sessRecord[k][n].id
  BY <1>7 DEF Record
<1> HIDE DEF rec
<1>9. [sessRecord[k] EXCEPT ![n] = rec] \in [1 .. MaxRecords -> Record]
  BY <1>5, <1>8
<1>10. sessRecord' \in [Key -> [1 .. MaxRecords -> Record]]
  BY <1>5, <1>6, <1>9
<1>11. ASSUME NEW j \in Key, NEW m \in 1 .. MaxRecords
       PROVE  sessRecord'[j][m].id = sessRecord[j][m].id
  <2>1. CASE j = k
    <3>1. sessRecord'[j] = [sessRecord[k] EXCEPT ![n] = rec]
      BY <1>5, <1>6, <2>1
    <3>2. QED
      BY <1>5, <1>8, <2>1, <3>1
  <2>2. CASE j # k
    BY <1>5, <1>6, <2>2
  <2>3. QED
    BY <2>1, <2>2
<1>12. QED
  BY <1>2, <1>3, <1>10, <1>11, SesQuietKeeps DEF SesTypes

\* A conversation is told the session of a run of it.
LEMMA SesTellKeeps ==
  ASSUME SesInv, NEW r \in CliRun, TellConversation(r)
  PROVE  SesInv'
<1>1. /\ sessUp /\ r \in sessTell /\ sessTell' = sessTell \ {r}
      /\ sessConv' = sessConv \/ sessConv' = [sessConv EXCEPT ![sessRun[r].key] = sessRun[r].session]
      /\ UNCHANGED <<sessUp, sessMap, sessRecord, sessFile, sessRun, sessDeleted, sessNext>>
      /\ UNCHANGED <<sessCut, sessMixed, sessLate, sessUnsaved>>
  BY DEF TellConversation, sessHistory
<1>2. SesTypes /\ sessRun[r].state = "over"
  BY <1>1 DEF SesInv, WaitersAreOver
<1>3. sessRun[r] \in RunOf /\ sessRun[r] # NoRun
  BY <1>2, RunStates
<1> DEFINE id == sessRun[r].session
           k == sessRun[r].key
<1>4. id \in CliRun \cup {NoSession} /\ k \in Key /\ (id # NoSession => OpenedFor(id, k))
  BY <1>2, <1>3 DEF RunOf, SesInv, Owned, OpenedFor
<1> HIDE DEF id, k
<1>5. /\ sessConv' \in [Key -> CliRun \cup {NoSession}]
      /\ \A j \in Key : sessConv'[j] # NoSession => OpenedFor(sessConv'[j], j)
  <2>1. sessConv \in [Key -> CliRun \cup {NoSession}]
    BY <1>2 DEF SesTypes
  <2>2. \A j \in Key : sessConv[j] # NoSession => OpenedFor(sessConv[j], j)
    BY DEF SesInv, Owned
  <2>3. CASE sessConv' = [sessConv EXCEPT ![k] = id]
    BY <1>4, <2>1, <2>2, <2>3
  <2>4. QED
    BY <1>1, <2>1, <2>2, <2>3 DEF id, k
<1>6. SesTypes'
  BY <1>1, <1>2, <1>5 DEF SesTypes
<1>7. Owned'
  BY <1>1, <1>5 DEF SesInv, Owned, OpenedFor
<1>8. WaitersAreOver' /\ OneRun' /\ DownIsQuiet' /\ SessionIsSaved' /\ DeletedStays'
  BY <1>1 DEF SesInv, WaitersAreOver, OneRun, DownIsQuiet, SessionIsSaved, DeletedStays, RunningOn
<1>9. QED
  BY <1>6, <1>7, <1>8 DEF SesInv

\* Runs stay as they are.
LEMMA SesSameRuns ==
  ASSUME SesTypes, sessRun' = sessRun
  PROVE  RunsGoOn
BY DEF SesTypes, RunsGoOn, OverStays

\* Keys leave the map: a clear (executor.js:1118), or the end of a conversation.
LEMMA SesLeaveKeeps ==
  ASSUME SesInv, sessUp, NEW map \in [Key -> 0 .. MaxRecords], SaveSessions(map, sessRecord),
         \A k \in Key : map[k] \in {0, sessMap[k]},
         sessDeleted' \subseteq Key, sessConv' \in [Key -> CliRun \cup {NoSession}],
         \A k \in Key : sessConv'[k] \in {NoSession, sessConv[k]},
         \A k \in sessDeleted' : map[k] > 0 \/ RunningOn(k) # {} => k \in sessLate',
         UNCHANGED <<sessUp, sessRun, sessTell, sessNext, sessCut, sessMixed>>
  PROVE  SesInv'
<1>1. SesTypes
  BY DEF SesInv
<1>2. RunsGoOn
  BY <1>1, SesSameRuns
<1>3. \A id, k : OpenedFor(id, k) => OpenedAfter(id, k)
  BY <1>2, OpenedStays DEF RunsGoOn
<1>4. BesideKept
  BY <1>1, <1>3 DEF BesideKept, SesInv, SesTypes, Owned, WaitersAreOver
<1>5. \A k \in Key, n \in 1 .. MaxRecords :
        sessRecord[k][n].id # NoSession => OpenedAfter(sessRecord[k][n].id, k)
  BY <1>3 DEF SesInv, Owned
<1>6. \A r \in CliRun : sessRun[r].state = "running" => sessRun[r].key \in Key
  BY <1>1, RunStates DEF RunOf
<1>7. \A r \in CliRun : sessRun'[r].state = "running" /\ sessRun'[r].key \notin SharedKey =>
         map[sessRun'[r].key] \in {0, sessRun'[r].record}
  BY <1>6 DEF SesInv, OneRun
<1>8. \A k : RunningOn(k)' = RunningOn(k)
  BY DEF RunningOn
<1>9. sessRecord \in [Key -> [1 .. MaxRecords -> Record]]
  BY <1>1 DEF SesTypes
<1>10. QED
  BY <1>2, <1>4, <1>5, <1>7, <1>8, <1>9, SaveKeeps

\* The sessions of the user are cleared (executor.js:1118).
LEMMA SesClearKeeps ==
  ASSUME SesInv, NEW k \in Key, ClearCommand(k)
  PROVE  SesInv'
<1> DEFINE map == [u \in Key |-> IF u \in CronKey THEN sessMap[u] ELSE 0]
<1>1. /\ sessUp /\ SaveSessions(map, sessRecord)
      /\ UNCHANGED <<sessUp, sessRun, sessDeleted, sessConv, sessTell, sessNext, sessCut,
                     sessMixed, sessLate>>
  BY DEF ClearCommand
<1>2. SesTypes
  BY DEF SesInv
<1>3. map \in [Key -> 0 .. MaxRecords] /\ \A u \in Key : map[u] \in {0, sessMap[u]}
  <2>1. \A u \in Key : sessMap[u] \in 0 .. MaxRecords
    BY <1>2 DEF SesTypes
  <2>2. 0 \in 0 .. MaxRecords
    BY SessionAssumption
  <2>3. QED
    BY <2>1, <2>2
<1> HIDE DEF map
<1>4. \A u \in sessDeleted' : map[u] > 0 \/ RunningOn(u) # {} => u \in sessLate'
  BY <1>1, <1>2, <1>3 DEF SesInv, SesTypes, DeletedStays
<1>5. sessDeleted' \subseteq Key /\ sessConv' \in [Key -> CliRun \cup {NoSession}]
  BY <1>1, <1>2 DEF SesTypes
<1>6. QED
  BY <1>1, <1>3, <1>4, <1>5, SesLeaveKeeps

\* The sessions of a conversation go with it (executor.js:595).
LEMMA SesCleanupKeeps ==
  ASSUME SesInv, NEW k \in Key, CleanupConversationSessions(k)
  PROVE  SesInv'
<1> DEFINE map == [sessMap EXCEPT ![k] = 0]
<1>1. /\ sessUp /\ sessDeleted' = sessDeleted \cup {k}
      /\ sessConv' = [sessConv EXCEPT ![k] = NoSession]
      /\ sessLate' = IF RunningOn(k) # {} THEN sessLate \cup {k} ELSE sessLate
      /\ UNCHANGED <<sessUp, sessRun, sessTell, sessNext, sessCut, sessMixed>>
  BY DEF CleanupConversationSessions
<1>2. SesTypes
  BY DEF SesInv
<1>3. /\ sessDeleted' \subseteq Key
      /\ sessConv' \in [Key -> CliRun \cup {NoSession}]
      /\ \A j \in Key : sessConv'[j] \in {NoSession, sessConv[j]}
  BY <1>1, <1>2 DEF SesTypes
<1>4. CASE sessMap[k] > 0 /\ SaveSessions(map, sessRecord)
  <2>1. /\ map \in [Key -> 0 .. MaxRecords] /\ map[k] = 0
        /\ \A j \in Key : map[j] \in {0, sessMap[j]}
    <3>1. 0 \in 0 .. MaxRecords
      BY SessionAssumption
    <3>2. QED
      BY <1>2, <3>1 DEF SesTypes
  <2> HIDE DEF map
  <2>2. ASSUME NEW j \in sessDeleted', map[j] > 0 \/ RunningOn(j) # {}
        PROVE  j \in sessLate'
    <3>1. CASE j = k
      BY <1>1, <2>1, <2>2, <3>1
    <3>2. CASE j # k
      <4>1. j \in sessDeleted /\ j \in Key
        BY <1>1, <1>2, <3>2 DEF SesTypes
      <4>2. map[j] > 0 => sessMap[j] > 0
        <5>1. map[j] = 0 \/ map[j] = sessMap[j]
          BY <2>1, <4>1
        <5>2. QED
          BY <5>1
      <4>3. j \in sessLate
        BY <2>2, <4>1, <4>2 DEF SesInv, DeletedStays
      <4>4. QED
        BY <1>1, <4>3
    <3>3. QED
      BY <3>1, <3>2
  <2>3. QED
    BY <1>1, <1>3, <1>4, <2>1, <2>2, SesLeaveKeeps
<1>5. CASE ~(sessMap[k] > 0) /\ UNCHANGED <<sessMap, sessRecord, sessFile, sessUnsaved>>
  <2>1. SesTypes'
    BY <1>1, <1>2, <1>3, <1>5 DEF SesTypes
  <2>2. Owned'
    BY <1>1, <1>3, <1>5 DEF SesInv, Owned, OpenedFor
  <2>3. WaitersAreOver' /\ OneRun' /\ DownIsQuiet' /\ SessionIsSaved'
    BY <1>1, <1>5 DEF SesInv, WaitersAreOver, OneRun, DownIsQuiet, SessionIsSaved, RunningOn
  <2>4. DeletedStays'
    BY <1>1, <1>5 DEF SesInv, DeletedStays, RunningOn
  <2>5. QED
    BY <2>1, <2>2, <2>3, <2>4 DEF SesInv
<1>6. QED
  BY <1>4, <1>5 DEF CleanupConversationSessions

\* A crash loses map, records and runs.
LEMMA SesCrashKeeps ==
  ASSUME SesInv, SessionCrash
  PROVE  SesInv'
<1>1. /\ ~sessUp' /\ sessUp' = FALSE
      /\ sessMap' = [k \in Key |-> 0]
      /\ sessRun' = [r \in CliRun |-> IF sessRun[r].state = "running"
                        THEN [sessRun[r] EXCEPT !.state = "over", !.record = 0] ELSE sessRun[r]]
      /\ sessCut' = sessCut \cup {k \in Key : RunningOn(k) # {}}
      /\ sessTell' = {} /\ sessNext' = {} /\ sessUnsaved' = FALSE
      /\ UNCHANGED <<sessRecord, sessFile, sessDeleted, sessConv, sessMixed, sessLate>>
  BY DEF SessionCrash
<1>2. SesTypes
  BY DEF SesInv
<1>3. 0 \in 0 .. MaxRecords
  BY SessionAssumption
<1>4. ASSUME NEW r \in CliRun
      PROVE  /\ sessRun'[r] \in RunOf \cup {NoRun}
             /\ sessRun'[r].state # "running"
             /\ sessRun[r].state = "over" => sessRun'[r] = sessRun[r]
             /\ sessRun'[r] # NoRun =>
                  /\ sessRun[r] # NoRun /\ sessRun'[r].key = sessRun[r].key
                  /\ sessRun'[r].session = sessRun[r].session
                  /\ sessRun'[r].resumed = sessRun[r].resumed
  <2>1. CASE sessRun[r].state = "running"
    <3>1. sessRun[r] \in RunOf /\ sessRun[r] # NoRun
      BY <1>2, <2>1, RunStates
    <3>2. sessRun'[r] = [sessRun[r] EXCEPT !.state = "over", !.record = 0]
      BY <1>1, <2>1
    <3>3. QED
      BY <1>3, <2>1, <3>1, <3>2 DEF RunOf
  <2>2. CASE sessRun[r].state # "running"
    BY <1>1, <1>2, <2>2 DEF SesTypes
  <2>3. QED
    BY <2>1, <2>2
<1>5. sessRun' \in [CliRun -> RunOf \cup {NoRun}]
  <2>1. sessRun' = [r \in CliRun |-> sessRun'[r]]
    BY <1>1
  <2>2. QED
    BY <1>4, <2>1
<1>6. OverStays
  BY <1>4 DEF OverStays
<1>7. \A id, j : OpenedFor(id, j) => OpenedAfter(id, j)
  BY <1>1, <1>6, OpenedStays
<1>8. SesTypes'
  <2>1. sessMap' \in [Key -> 0 .. MaxRecords]
    BY <1>1, <1>3
  <2>2. sessCut' \subseteq Key
    BY <1>1, <1>2 DEF SesTypes
  <2>3. \A r \in CliRun : sessRun'[r].state = "running" => sessRun'[r].record > 0
    BY <1>4
  <2>4. QED
    BY <1>1, <1>2, <1>5, <2>1, <2>2, <2>3 DEF SesTypes
<1>9. Owned'
  <2>1. ASSUME NEW r \in CliRun, sessRun'[r] # NoRun
        PROVE  /\ sessRun'[r].resumed # NoSession => OpenedAfter(sessRun'[r].resumed, sessRun'[r].key)
               /\ sessRun'[r].session \notin {NoSession, r} =>
                     OpenedAfter(sessRun'[r].session, sessRun'[r].key)
    <3>1. /\ sessRun[r].resumed # NoSession => OpenedFor(sessRun[r].resumed, sessRun[r].key)
          /\ sessRun[r].session \notin {NoSession, r} =>
                OpenedFor(sessRun[r].session, sessRun[r].key)
      BY <1>4, <2>1 DEF SesInv, Owned
    <3>2. QED
      BY <1>4, <1>7, <2>1, <3>1
  <2>2. \A j \in Key, m \in 1 .. MaxRecords :
          sessRecord'[j][m].id # NoSession => OpenedAfter(sessRecord'[j][m].id, j)
    BY <1>1, <1>7 DEF SesInv, Owned
  <2>3. \A j \in Key : \A x \in sessFile'[j] : x.id # NoSession => OpenedAfter(x.id, j)
    BY <1>1, <1>7 DEF SesInv, Owned
  <2>4. \A j \in Key : sessConv'[j] # NoSession => OpenedAfter(sessConv'[j], j)
    BY <1>1, <1>7 DEF SesInv, Owned
  <2>5. QED
    BY <2>1, <2>2, <2>3, <2>4 DEF Owned, OpenedFor, OpenedAfter
<1>10. OneRun' /\ DownIsQuiet' /\ WaitersAreOver'
  BY <1>1, <1>4 DEF OneRun, DownIsQuiet, WaitersAreOver
<1>11. SessionIsSaved'
  BY <1>1 DEF SessionIsSaved
<1>12. DeletedStays'
  <2>1. \A k \in Key : ~(sessMap'[k] > 0) /\ RunningOn(k)' = {}
    <3>1. \A k \in Key : sessMap'[k] = 0
      BY <1>1
    <3>2. QED
      BY <1>4, <3>1 DEF RunningOn
  <2>2. QED
    BY <1>1, <1>2, <2>1 DEF DeletedStays, SesTypes
<1>13. QED
  BY <1>8, <1>9, <1>10, <1>11, <1>12 DEF SesInv

\* The load of the sessions file (executor.js:500).
LEMMA SesLoadKeeps ==
  ASSUME SesInv, LoadSessions
  PROVE  SesInv'
<1> DEFINE taken(k) == CHOOSE rec \in sessFile[k] : TRUE
<1>1. /\ ~sessUp /\ sessUp' = TRUE
       /\ UNCHANGED <<sessRun, sessDeleted, sessConv, sessTell, sessNext>>
       /\ UNCHANGED <<sessCut, sessMixed, sessUnsaved>>
  BY DEF LoadSessions
<1>2. CASE UNCHANGED <<sessFile, sessMap, sessRecord>>
  <2>1. SesTypes'
    BY <1>1, <1>2 DEF SesInv, SesTypes
  <2>2. Owned'
    BY <1>1, <1>2 DEF SesInv, Owned, OpenedFor
  <2>3. \A k \in Key : ~(sessMap[k] > 0) /\ RunningOn(k) = {}
    <3>1. \A k \in Key : sessMap[k] = 0
      BY <1>1 DEF SesInv, DownIsQuiet
    <3>2. QED
      BY <1>1, <3>1 DEF SesInv, DownIsQuiet, RunningOn
  <2>4. OneRun' /\ DownIsQuiet' /\ WaitersAreOver'
    BY <1>1, <1>2 DEF SesInv, OneRun, DownIsQuiet, WaitersAreOver
  <2>5. SessionIsSaved' /\ DeletedStays'
    BY <1>1, <1>2, <2>3 DEF SesInv, SesTypes, SessionIsSaved, DeletedStays, RunningOn
  <2>6. QED
    BY <2>1, <2>2, <2>4, <2>5 DEF SesInv
<1>3. CASE
      /\ sessFile' = [k \in Key |-> IF k \in Loadable THEN sessFile[k] ELSE {}]
      /\ sessMap' = [k \in Key |-> IF k \in Loadable THEN NextRecord(k) ELSE 0]
      /\ \A k \in Loadable : NextRecord(k) <= MaxRecords
      /\ sessRecord' = [k \in Key |-> IF k \in Loadable
                           THEN [sessRecord[k] EXCEPT ![NextRecord(k)] = taken(k)]
                           ELSE sessRecord[k]]
  <2>1. SesTypes
    BY DEF SesInv
  <2>2. \A k \in Loadable : /\ k \in Key /\ taken(k) \in Record /\ sessFile[k] = {taken(k)}
                            /\ NextRecord(k) \in 1 .. MaxRecords
    <3>1. ASSUME NEW k \in Loadable
          PROVE  k \in Key /\ taken(k) \in Record /\ sessFile[k] = {taken(k)}
      <4>1. k \in Key /\ sessFile[k] # {}
        BY DEF Loadable
      <4>2. PICK rec \in Record : sessFile[k] = {rec}
        BY <2>1, <4>1 DEF SesTypes
      <4>3. taken(k) \in sessFile[k]
        BY <4>1
      <4> HIDE DEF taken
      <4>4. QED
        BY <4>1, <4>2, <4>3
    <3>2. \A k \in Loadable : k \in Key /\ NextRecord(k) \in 1 .. MaxRecords
      <4>1. \A k \in Loadable : NextRecord(k) <= MaxRecords
        BY <1>3
      <4>2. QED
        BY <3>1, <4>1, NextIsNumber, SessionAssumption
    <3>3. QED
      BY <3>1, <3>2
  <2> HIDE DEF taken
  <2>3. sessRecord \in [Key -> [1 .. MaxRecords -> Record]]
    BY <2>1 DEF SesTypes
  <2>4. /\ sessMap' \in [Key -> 0 .. MaxRecords]
        /\ sessFile' \in [Key -> SUBSET Record]
        /\ sessRecord' \in [Key -> [1 .. MaxRecords -> Record]]
    <3>1. 0 \in 0 .. MaxRecords /\ \A n \in 1 .. MaxRecords : n \in 0 .. MaxRecords
      BY SessionAssumption
    <3>2. sessMap' \in [Key -> 0 .. MaxRecords] /\ sessFile' \in [Key -> SUBSET Record]
      BY <1>3, <2>1, <2>2, <3>1 DEF SesTypes
    <3>3. \A k \in Loadable : [sessRecord[k] EXCEPT ![NextRecord(k)] = taken(k)]
                                \in [1 .. MaxRecords -> Record]
      BY <2>2, <2>3
    <3>4. sessRecord' \in [Key -> [1 .. MaxRecords -> Record]]
      BY <1>3, <2>3, <3>3
    <3>5. QED
      BY <3>2, <3>4
  <2>5. ASSUME NEW k \in Key, NEW n \in 1 .. MaxRecords
        PROVE  \/ sessRecord'[k][n] = sessRecord[k][n]
               \/ k \in Loadable /\ sessRecord'[k][n] \in sessFile[k]
    <3>1. CASE k \in Loadable
      <4>1. sessRecord'[k] = [sessRecord[k] EXCEPT ![NextRecord(k)] = taken(k)]
        BY <1>3, <3>1
      <4>2. QED
        BY <2>2, <2>3, <3>1, <4>1
    <3>2. CASE k \notin Loadable
      BY <1>3, <3>2
    <3>3. QED
      BY <3>1, <3>2
  <2>6. \A k \in Key : sessMap'[k] > 0 =>
           /\ k \in Loadable /\ sessRecord'[k][sessMap'[k]] \in sessFile[k]
           /\ sessFile'[k] = sessFile[k]
    <3> SUFFICES ASSUME NEW k \in Key, sessMap'[k] > 0
                 PROVE  /\ k \in Loadable /\ sessRecord'[k][sessMap'[k]] \in sessFile[k]
                        /\ sessFile'[k] = sessFile[k]
      OBVIOUS
    <3>1. k \in Loadable
      BY <1>3
    <3>2. /\ sessMap'[k] = NextRecord(k) /\ sessFile'[k] = sessFile[k]
          /\ sessRecord'[k] = [sessRecord[k] EXCEPT ![NextRecord(k)] = taken(k)]
      BY <1>3, <3>1
    <3>3. sessRecord'[k][NextRecord(k)] = taken(k)
      BY <2>2, <2>3, <3>1, <3>2
    <3>4. QED
      BY <2>2, <3>1, <3>2, <3>3
  <2>7. \A k \in Key : sessFile'[k] \subseteq sessFile[k]
    BY <1>3
  <2>8. SesTypes'
    <3>1. Cardinality({k \in Key : sessFile'[k] # {}}) <= MaxSessions
      <4> DEFINE A == {k \in Key : sessFile[k] # {}}
                 B == {k \in Key : sessFile'[k] # {}}
      <4>1. IsFiniteSet(A)
        BY SessionAssumption, FS_Subset
      <4>2. B \subseteq A
        BY <2>7
      <4>3. Cardinality(A) <= MaxSessions
        BY <2>1 DEF SesTypes
      <4> HIDE DEF A, B
      <4>4. Cardinality(B) <= Cardinality(A) /\ Cardinality(B) \in Nat /\ Cardinality(A) \in Nat
        BY <4>1, <4>2, FS_Subset, FS_CardinalityType
      <4>5. Cardinality(B) <= MaxSessions
        BY <4>3, <4>4, SessionAssumption
      <4>6. QED
        BY <4>5 DEF B
    <3>2. \A k \in Key : sessFile'[k] = {} \/ \E rec \in Record : sessFile'[k] = {rec}
      BY <1>3, <2>1 DEF SesTypes
    <3>3. QED
      BY <1>1, <2>1, <2>4, <3>1, <3>2 DEF SesTypes
  <2>9. Owned'
    <3>1. /\ \A k \in Key, n \in 1 .. MaxRecords :
               sessRecord'[k][n].id # NoSession => OpenedFor(sessRecord'[k][n].id, k)
          /\ \A k \in Key : \A rec \in sessFile'[k] : rec.id # NoSession => OpenedFor(rec.id, k)
      BY <2>5, <2>7 DEF SesInv, Owned
    <3>2. QED
      BY <1>1, <2>1, <3>1 DEF SesInv, Owned, OpenedFor
  <2>10. OneRun' /\ DownIsQuiet' /\ WaitersAreOver'
    BY <1>1 DEF SesInv, DownIsQuiet, OneRun, WaitersAreOver
  <2>11. SessionIsSaved'
    BY <2>6 DEF SessionIsSaved
  <2>12. DeletedStays'
    <3>1. \A k : RunningOn(k)' = {}
      BY <1>1 DEF SesInv, DownIsQuiet, RunningOn
    <3>2. QED
      BY <1>1, <2>1, <2>6, <3>1 DEF DeletedStays, SesTypes, Loadable
  <2>13. QED
    BY <2>8, <2>9, <2>10, <2>11, <2>12 DEF SesInv
<1>4. QED
  BY <1>3, <1>2 DEF LoadSessions

\* Every step keeps the invariant.
LEMMA SesStep == SesInv /\ [SessionNext]_sessVars => SesInv'
<1> SUFFICES ASSUME SesInv, [SessionNext]_sessVars PROVE SesInv'
  OBVIOUS
<1>1. ASSUME NEW r \in CliRun, NEW k \in Key, Begin(r, k)
      PROVE  SesInv'
  <2>1. BeginRun(r, k, sessConv[k], FALSE) /\ UNCHANGED <<sessNext, sessMixed>>
    BY <1>1 DEF Begin
  <2>2. sessConv[k] \in CliRun \cup {NoSession} /\ sessMixed \subseteq Key
    BY DEF SesInv, SesTypes
  <2>3. sessConv[k] # NoSession => OpenedFor(sessConv[k], k)
    BY DEF SesInv, Owned
  <2>4. QED
    BY <2>1, <2>2, <2>3, SesBeginKeeps DEF OpenedFor
<1>2. ASSUME NEW p \in CliRun, NEW r \in CliRun, NEW k \in Key, Flush(p, r, k)
      PROVE  SesInv'
  <2> DEFINE given == LastSession(p)
  <2>1. /\ p \in sessNext /\ sessNext' = sessNext \ {p} /\ BeginRun(r, k, given, FALSE)
        /\ sessMixed' = IF given # NoSession /\ sessRun[given].key # k
                        THEN sessMixed \cup {k} ELSE sessMixed
    BY <1>2 DEF Flush
  <2>2. sessRun[p].state = "over" /\ sessRun[p] \in RunOf /\ sessRun[p] # NoRun
    BY <2>1, RunStates DEF SesInv, WaitersAreOver
  <2>3. given \in CliRun \cup {NoSession} /\ (given # NoSession => sessRun[given].state = "over")
    BY <2>2 DEF LastSession, RunOf, SesInv, Owned, OpenedFor
  <2> HIDE DEF given
  <2>4. sessMixed \subseteq sessMixed' /\ sessMixed' \subseteq Key /\ sessNext' \subseteq sessNext
    BY <2>1 DEF SesInv, SesTypes
  <2>5. QED
    BY <2>1, <2>3, <2>4, SesBeginKeeps
<1>3. ASSUME NEW r \in CliRun, NEW retry \in CliRun, Retry(r, retry)
      PROVE  SesInv'
  <2>1. r \in sessNext /\ sessNext' = sessNext \ {r} /\ sessMixed' = sessMixed
    BY <1>3 DEF Retry
  <2>2. sessRun[r].key \in Key /\ sessMixed \subseteq Key
    BY <2>1, RunStates DEF SesInv, SesTypes, WaitersAreOver, RunOf
  <2>3. PICK force \in BOOLEAN : BeginRun(retry, sessRun[r].key, NoSession, force)
    BY <1>3 DEF Retry
  <2>4. QED
    BY <2>1, <2>2, <2>3, SesBeginKeeps
<1>4. ASSUME NEW r \in CliRun,
             \/ CaptureSession(r) \/ KeepSession(r) \/ TellConversation(r)
             \/ DropSession(r) \/ SpawnFails(r)
      PROVE  SesInv'
  BY <1>4, SesCaptureKeeps, SesEndKeeps, SesTellKeeps
<1>5. ASSUME NEW k \in Key, TimePasses(k) \/ ClearCommand(k) \/ CleanupConversationSessions(k)
      PROVE  SesInv'
  BY <1>5, SesTimeKeeps, SesClearKeeps, SesCleanupKeeps
<1>6. CASE SessionCrash \/ LoadSessions
  BY <1>6, SesCrashKeeps, SesLoadKeeps
<1>7. CASE UNCHANGED sessVars
  <2>1. SesTypes'
    BY <1>7 DEF sessVars, sessHistory, SesInv, SesTypes
  <2>2. Owned'
    BY <1>7 DEF sessVars, sessHistory, SesInv, Owned, OpenedFor
  <2>3. WaitersAreOver' /\ OneRun' /\ DownIsQuiet' /\ SessionIsSaved' /\ DeletedStays'
    BY <1>7 DEF sessVars, sessHistory, SesInv, WaitersAreOver, OneRun, DownIsQuiet, SessionIsSaved,
                DeletedStays, RunningOn
  <2>4. QED
    BY <2>1, <2>2, <2>3 DEF SesInv
<1>8. QED
  BY <1>1, <1>2, <1>4, <1>5, <1>6, <1>7, <1>3 DEF SessionNext

\* The invariant of the sessions holds always.
LEMMA SesSafe == SessionInit /\ [][SessionNext]_sessVars => []SesInv
<1>1. SessionInit => SesInv
  <2> SUFFICES ASSUME SessionInit PROVE SesInv
    OBVIOUS
  <2>1. NewRecord \in Record /\ NewRecord.id = NoSession /\ NoRun.state = "new"
    <3>1. 0 \in 0 .. MaxSessionTurns + 1
      BY SessionAssumption
    <3>2. QED
      BY <3>1 DEF NewRecord, Record, Gone, NoRun
  <2>2. /\ sessMap \in [Key -> 0 .. MaxRecords]
        /\ sessRecord \in [Key -> [1 .. MaxRecords -> Record]]
        /\ \A k \in Key, n \in 1 .. MaxRecords : sessRecord[k][n] = NewRecord
        /\ \A r \in CliRun : sessRun[r] = NoRun
        /\ \A k \in Key : sessFile[k] = {}
    <3>1. 0 \in 0 .. MaxRecords
      BY SessionAssumption
    <3>2. QED
      BY <2>1, <3>1 DEF SessionInit
  <2>3. Cardinality({k \in Key : sessFile[k] # {}}) <= MaxSessions
    <3>1. {k \in Key : sessFile[k] # {}} = {}
      BY <2>2
    <3>2. QED
      BY <3>1, FS_EmptySet, SessionAssumption
  <2>4. SesTypes
    BY <2>1, <2>2, <2>3 DEF SessionInit, SesTypes
  <2>5. Owned /\ OneRun /\ DownIsQuiet /\ WaitersAreOver
    BY <2>1, <2>2 DEF SessionInit, Owned, OneRun, DownIsQuiet, WaitersAreOver
  <2>6. SessionIsSaved /\ DeletedStays
    BY <2>1, <2>2 DEF SessionInit, SessionIsSaved, DeletedStays
  <2>7. QED
    BY <2>4, <2>5, <2>6 DEF SesInv
<1>2. QED
  BY <1>1, SesStep, PTL

\* What the invariant is for.
LEMMA SesTyped ==
  SesInv => SessionTypeOK /\ OwnContext /\ DeletedIsOver /\ SessionIsSaved
<1> SUFFICES ASSUME SesInv PROVE SessionTypeOK /\ OwnContext /\ DeletedIsOver /\ SessionIsSaved
  OBVIOUS
<1>1. SessionTypeOK
  BY RunStates DEF SesInv, SesTypes, SessionTypeOK
<1>2. OwnContext
  BY DEF SesInv, Owned, OpenedFor, OwnContext
<1>3. QED
  BY <1>1, <1>2 DEF SesInv, DeletedStays, DeletedIsOver

-------------------------------------------------------------------------------
\* Compaction of a context (compactor.js, context-guard.js).

\* The messages behind the first are no summaries and each is older than the
\* next; a summary in front is younger than the one behind it.
OrderedMessages(s) ==
  /\ \A i \in 2..Len(s) : s[i].number # Summary
  /\ \A i, j \in 2..Len(s) : i < j => s[i].ts < s[j].ts
  /\ Len(s) >= 1 /\ s[1].number = Summary => Len(s) >= 2 /\ s[1].ts > s[2].ts
  /\ Len(s) >= 2 /\ s[1].number # Summary => s[1].ts < s[2].ts

CmpInv ==
  /\ cmpMessages \in Seq(SavedMessage)
  /\ cmpUses \in Seq(Nat) /\ Len(cmpUses) <= MaxUses
  /\ cmpSaid \in 0..MaxSaid
  /\ cmpClock \in Nat
  /\ OrderedMessages(cmpMessages)
  /\ \A i \in 1..Len(cmpMessages) : cmpMessages[i].ts < cmpClock
  /\ \A i \in 1..Len(cmpUses) : cmpUses[i] <= cmpClock

\* What a saved message is made of.
LEMMA TurnsFields ==
  ASSUME NEW s \in Seq(SavedMessage), NEW i \in 1..Len(s)
  PROVE  /\ s[i].number \in 0..MaxSaid /\ s[i].marked \in BOOLEAN
         /\ s[i].notes \in SUBSET (1..MaxSaid) /\ s[i].ts \in Nat
<1>1. s[i] \in SavedMessage
  BY ElementOfSeq
<1> QED BY <1>1 DEF SavedMessage

\* The last n of a sequence.
LEMMA LastOfIs ==
  ASSUME NEW S, NEW s \in Seq(S), NEW n \in Nat
  PROVE  /\ LastOf(s, n) \in Seq(S)
         /\ Len(LastOf(s, n)) = Smaller(n, Len(s))
         /\ \A i \in 1..Len(LastOf(s, n)) : LastOf(s, n)[i] = s[Len(s) - Len(LastOf(s, n)) + i]
<1>1. Len(s) \in Nat
  BY LenProperties
<1>2. CASE n >= Len(s)
  <2>1. LastOf(s, n) = s
    BY <1>2 DEF LastOf
  <2>2. Smaller(n, Len(s)) = Len(s)
    BY <1>1, <1>2 DEF Smaller
  <2>3. \A i \in 1..Len(s) : s[Len(s) - Len(s) + i] = s[i]
    <3> TAKE i \in 1..Len(s)
    <3>1. Len(s) - Len(s) + i = i
      BY <1>1
    <3> QED BY <3>1
  <2> QED BY <2>1, <2>2, <2>3
<1>3. CASE ~(n >= Len(s))
  <2> DEFINE m == Len(s) - n + 1
  <2>1. m \in Int /\ Len(s) \in Int /\ m <= Len(s) + 1 /\ m >= 1 /\ Len(s) - m + 1 = n
    BY <1>1, <1>3
  <2>2. LastOf(s, n) = SubSeq(s, m, Len(s))
    BY <1>3 DEF LastOf
  <2>3. Smaller(n, Len(s)) = n
    BY <1>1, <1>3 DEF Smaller
  <2>4. \A i \in m..Len(s) : s[i] \in S
    <3> TAKE i \in m..Len(s)
    <3>1. i \in 1..Len(s)
      BY <2>1
    <3> QED BY <3>1, ElementOfSeq
  <2>5. m + n - 1 = Len(s) /\ \A i \in 1..n : m + i - 1 = Len(s) - n + i
    BY <1>1
  <2> HIDE DEF m
  <2>6. /\ SubSeq(s, m, Len(s)) \in Seq(S)
        /\ Len(SubSeq(s, m, Len(s))) = IF m <= Len(s) THEN Len(s) - m + 1 ELSE 0
        /\ \A i \in 1..(Len(s) - m + 1) : SubSeq(s, m, Len(s))[i] = s[m + i - 1]
    BY <2>1, <2>4, SubSeqProperties
  <2>7. Len(SubSeq(s, m, Len(s))) = n
    BY <2>1, <2>6, <1>1
  <2> QED BY <2>1, <2>2, <2>3, <2>5, <2>6, <2>7
<1> QED BY <1>2, <1>3

\* All but the last n of a sequence.
LEMMA ButLastIs ==
  ASSUME NEW S, NEW s \in Seq(S), NEW n \in Nat
  PROVE  /\ ButLast(s, n) \in Seq(S)
         /\ Len(ButLast(s, n)) = Len(s) - Smaller(n, Len(s))
         /\ \A i \in 1..Len(ButLast(s, n)) : ButLast(s, n)[i] = s[i]
<1>1. Len(s) \in Nat
  BY LenProperties
<1>2. CASE n >= Len(s)
  <2>1. ButLast(s, n) = <<>>
    BY <1>2 DEF ButLast
  <2>2. Len(s) - Smaller(n, Len(s)) = 0
    BY <1>1, <1>2 DEF Smaller
  <2> QED BY <2>1, <2>2, EmptySeq
<1>3. CASE ~(n >= Len(s))
  <2> DEFINE m == Len(s) - n
  <2>1. m \in Nat /\ m <= Len(s) /\ 1 <= m
    BY <1>1, <1>3
  <2>2. ButLast(s, n) = SubSeq(s, 1, m)
    BY <1>3 DEF ButLast
  <2>3. Len(s) - Smaller(n, Len(s)) = m
    BY <1>1, <1>3 DEF Smaller
  <2>4. \A i \in 1..m : s[i] \in S
    <3> TAKE i \in 1..m
    <3>1. i \in 1..Len(s)
      BY <2>1, <1>1
    <3> QED BY <3>1, ElementOfSeq
  <2> HIDE DEF m
  <2>6. /\ SubSeq(s, 1, m) \in Seq(S)
        /\ Len(SubSeq(s, 1, m)) = IF 1 <= m THEN m - 1 + 1 ELSE 0
        /\ \A i \in 1..(m - 1 + 1) : SubSeq(s, 1, m)[i] = s[1 + i - 1]
    BY <2>1, <2>4, SubSeqProperties
  <2> QED BY <2>1, <2>2, <2>3, <2>6
<1> QED BY <1>2, <1>3

\* The smaller of two numbers.
LEMMA SmallerIs ==
  ASSUME NEW a \in Nat, NEW b \in Nat
  PROVE  /\ Smaller(a, b) \in Nat /\ Smaller(a, b) <= a /\ Smaller(a, b) <= b
         /\ (Smaller(a, b) = a \/ Smaller(a, b) = b)
BY DEF Smaller

\* The larger of two numbers.
LEMMA LargerIs ==
  ASSUME NEW a \in Nat, NEW b \in Nat
  PROVE  /\ Larger(a, b) \in Nat /\ Larger(a, b) >= a /\ Larger(a, b) >= b
         /\ (Larger(a, b) = a \/ Larger(a, b) = b)
BY DEF Larger

\* What is assumed of the limits of a compaction.
LEMMA CmpConstants ==
  /\ maxMessages \in Nat /\ compactTo \in Nat /\ MinKeep \in Nat /\ HardKeep \in Nat
  /\ HardNotes \in Nat /\ Window \in Nat /\ RecapCount \in Nat
  /\ maxMessages >= 1 /\ compactTo >= 1 /\ MinKeep >= 1 /\ HardKeep >= 1
  /\ HardNotes >= 1 /\ Window >= 1 /\ RecapCount >= 1
  /\ MaxSaid \in Nat /\ MaxUses \in Nat
  /\ MinKeep <= compactTo /\ compactTo < maxMessages /\ HardKeep < maxMessages
  /\ MinKeep <= HardKeep /\ 2 * MinKeep <= Window
  /\ \A p \in Prompts : p \in Nat /\ 100 * (p + HardKeep) < 90 * Window
BY CompactionAssumption DEF CompactionAssumption

\* How many messages fit into a share of the window.
LEMMA RecommendedIs ==
  ASSUME NEW s \in Seq(SavedMessage), NEW percent \in Nat
  PROVE  /\ Recommended(s, percent) \in Nat /\ Recommended(s, percent) >= MinKeep
         /\ (Recommended(s, percent) = MinKeep \/ 100 * Recommended(s, percent) <= percent * Window)
<1> DEFINE share == (Window * percent) \div 100
<1>1. Window * percent \in Nat /\ percent * Window = Window * percent
  BY CmpConstants
<1>2. share \in Nat /\ 100 * share <= Window * percent
  BY <1>1
<1>3. Len(s) \in Nat
  BY LenProperties
<1> HIDE DEF share
<1>4. /\ Smaller(Len(s), share) \in Nat /\ Smaller(Len(s), share) <= share
  BY <1>2, <1>3, SmallerIs
<1>5. Recommended(s, percent) = Larger(MinKeep, Smaller(Len(s), share))
  BY DEF Recommended, share
<1> DEFINE few == Smaller(Len(s), share)
<1>6. few \in Nat /\ few <= share
  BY <1>4
<1> HIDE DEF few
<1>7. /\ Larger(MinKeep, few) \in Nat /\ Larger(MinKeep, few) >= MinKeep
      /\ (Larger(MinKeep, few) = MinKeep \/ Larger(MinKeep, few) = few)
  BY <1>6, CmpConstants, LargerIs
<1>8. CASE Larger(MinKeep, few) = few
  <2>1. 100 * few <= percent * Window
    BY <1>6, <1>2, <1>1, CmpConstants
  <2> QED BY <1>5, <1>7, <1>8, <2>1 DEF few
<1> QED BY <1>5, <1>7, <1>8 DEF few

\* What a compaction leaves: nothing changes, or a summary and then the last
\* messages, at least MinKeep of them and not all.
CompactedTo(s, p, keep, t) ==
  /\ keep \in Nat /\ MinKeep <= keep /\ keep < Len(s)
  /\ IF IsHard(s, p)
       THEN /\ t = Compacted(s, keep, {n \in Noted(s, keep) : Cardinality({m \in Noted(s, keep) : m > n}) < HardNotes})
            /\ IF p > 0 THEN keep = MinKeep \/ 100 * keep <= 35 * Window ELSE keep = HardKeep
       ELSE /\ t = Compacted(s, keep, Noted(s, keep))
            /\ IF p > 0 THEN keep = MinKeep \/ 100 * keep <= 50 * Window ELSE keep <= compactTo

\* Too few messages to leave one of.
NothingToTrim(s, p) ==
  /\ ~IsHard(s, p) /\ p > 0
  /\ Len(s) <= MinKeep \/ 100 * Len(s) <= 50 * Window

\* How many messages a hard clear keeps.
LEMMA HardKeeps ==
  ASSUME NEW s \in Seq(SavedMessage), NEW p \in Nat
  PROVE  LET keep == IF p > 0 THEN Larger(MinKeep, Smaller(Recommended(s, 35), HardKeep)) ELSE HardKeep
         IN  /\ keep \in Nat /\ MinKeep <= keep /\ keep <= HardKeep
             /\ p > 0 => keep = MinKeep \/ 100 * keep <= 35 * Window
<1> DEFINE r == Recommended(s, 35)
           f == Smaller(r, HardKeep)
<1>1. r \in Nat /\ r >= MinKeep /\ (r = MinKeep \/ 100 * r <= 35 * Window)
  BY RecommendedIs
<1> HIDE DEF r
<1>2. f \in Nat /\ f <= r /\ f <= HardKeep /\ (f = r \/ f = HardKeep)
  BY <1>1, CmpConstants, SmallerIs
<1> HIDE DEF f
<1>3. /\ Larger(MinKeep, f) \in Nat /\ Larger(MinKeep, f) >= MinKeep
      /\ (Larger(MinKeep, f) = MinKeep \/ Larger(MinKeep, f) = f)
  BY <1>2, CmpConstants, LargerIs
<1>4. Larger(MinKeep, f) <= HardKeep
  BY <1>2, <1>3, CmpConstants
<1>5. Larger(MinKeep, f) = MinKeep \/ 100 * Larger(MinKeep, f) <= 35 * Window
  BY <1>1, <1>2, <1>3, CmpConstants
<1>6. CASE p > 0
  BY <1>3, <1>4, <1>5, <1>6 DEF f, r
<1>7. CASE ~(p > 0)
  BY <1>7, CmpConstants
<1> QED BY <1>6, <1>7

\* How many messages a soft trim keeps.
LEMMA SoftKeeps ==
  ASSUME NEW s \in Seq(SavedMessage), NEW p \in Nat
  PROVE  LET keep == Larger(MinKeep, Smaller(Len(s), IF p > 0 THEN Recommended(s, 50) ELSE compactTo))
         IN  /\ keep \in Nat /\ MinKeep <= keep
             /\ IF p > 0 THEN keep = MinKeep \/ 100 * keep <= 50 * Window ELSE keep <= compactTo
<1> DEFINE r == IF p > 0 THEN Recommended(s, 50) ELSE compactTo
           f == Smaller(Len(s), r)
<1>1. Recommended(s, 50) \in Nat /\ (Recommended(s, 50) = MinKeep \/ 100 * Recommended(s, 50) <= 50 * Window)
  BY RecommendedIs
<1>2. r \in Nat /\ (IF p > 0 THEN r = MinKeep \/ 100 * r <= 50 * Window ELSE r = compactTo)
  BY <1>1, CmpConstants
<1>3. Len(s) \in Nat
  BY LenProperties
<1> HIDE DEF r
<1>4. f \in Nat /\ f <= r
  BY <1>2, <1>3, SmallerIs
<1> HIDE DEF f
<1>5. /\ Larger(MinKeep, f) \in Nat /\ Larger(MinKeep, f) >= MinKeep
      /\ (Larger(MinKeep, f) = MinKeep \/ Larger(MinKeep, f) = f)
  BY <1>4, CmpConstants, LargerIs
<1>6. CASE p > 0
  <2>1. Larger(MinKeep, f) = MinKeep \/ 100 * Larger(MinKeep, f) <= 50 * Window
    BY <1>2, <1>4, <1>5, <1>6, CmpConstants
  <2> QED BY <2>1, <1>5, <1>6 DEF f, r
<1>7. CASE ~(p > 0)
  <2>1. Larger(MinKeep, f) <= compactTo
    BY <1>2, <1>4, <1>5, <1>7, CmpConstants
  <2> QED BY <2>1, <1>5, <1>7 DEF f, r
<1> QED BY <1>6, <1>7

\* With the sizes that are possible, a hard clear always takes something.
LEMMA HardIsLong ==
  ASSUME NEW s \in Seq(SavedMessage), NEW p \in Prompts, IsHard(s, p)
  PROVE  HardKeep < Len(s)
<1>1. Len(s) \in Nat /\ p \in Nat
  BY LenProperties, CmpConstants
<1>2. CASE p > 0
  <2>1. (p + Len(s)) * 100 >= 90 * Window
    BY <1>2 DEF IsHard, Uses, TotalContext
  <2>2. 100 * (p + HardKeep) < 90 * Window
    BY CmpConstants
  <2> QED BY <2>1, <2>2, <1>1, CmpConstants
<1>3. CASE ~(p > 0)
  <2>1. 2 * Len(s) > 3 * maxMessages
    BY <1>3 DEF IsHard
  <2> QED BY <2>1, <1>1, CmpConstants
<1> QED BY <1>2, <1>3

\* A compaction leaves the messages alone or puts a summary before the last of them.
LEMMA CompactEffect ==
  ASSUME NEW s \in Seq(SavedMessage), NEW p \in Prompts, NeedsCompaction(s, p)
  PROVE  \/ CompactMessages(s, p) = s /\ NothingToTrim(s, p)
         \/ \E keep \in Nat : CompactedTo(s, p, keep, CompactMessages(s, p))
<1>1. Len(s) \in Nat /\ p \in Nat
  BY LenProperties, CmpConstants
<1>2. CASE IsHard(s, p)
  <2> DEFINE keep == IF p > 0 THEN Larger(MinKeep, Smaller(Recommended(s, 35), HardKeep)) ELSE HardKeep
  <2>1. /\ keep \in Nat /\ MinKeep <= keep /\ keep <= HardKeep
        /\ p > 0 => keep = MinKeep \/ 100 * keep <= 35 * Window
    BY <1>1, HardKeeps
  <2>2. HardKeep < Len(s)
    BY <1>2, HardIsLong
  <2>3. keep < Len(s)
    BY <2>1, <2>2, <1>1, CmpConstants
  <2>4. CompactMessages(s, p) = Compacted(s, keep, {n \in Noted(s, keep) : Cardinality({m \in Noted(s, keep) : m > n}) < HardNotes})
    BY <1>2 DEF CompactMessages, HardClear
  <2>5. ~(p > 0) => keep = HardKeep
    OBVIOUS
  <2> HIDE DEF keep
  <2>6. CompactedTo(s, p, keep, CompactMessages(s, p))
    BY <1>2, <2>1, <2>3, <2>4, <2>5 DEF CompactedTo
  <2> QED BY <2>1, <2>6
<1>3. CASE ~IsHard(s, p)
  <2> DEFINE keep == Larger(MinKeep, Smaller(Len(s), IF p > 0 THEN Recommended(s, 50) ELSE compactTo))
  <2>1. /\ keep \in Nat /\ MinKeep <= keep
        /\ IF p > 0 THEN keep = MinKeep \/ 100 * keep <= 50 * Window ELSE keep <= compactTo
    BY <1>1, SoftKeeps
  <2>2. CompactMessages(s, p) = IF keep >= Len(s) THEN s ELSE Compacted(s, keep, Noted(s, keep))
    BY <1>3 DEF CompactMessages, SoftTrim
  <2> HIDE DEF keep
  <2>3. CASE keep >= Len(s)
    <3>1. p > 0
      <4>1. SUFFICES ASSUME ~(p > 0) PROVE FALSE
        OBVIOUS
      <4>2. Len(s) > maxMessages
        BY <4>1 DEF NeedsCompaction
      <4> QED BY <4>1, <4>2, <2>1, <2>3, <1>1, CmpConstants
    <3>2. Len(s) <= MinKeep \/ 100 * Len(s) <= 50 * Window
      BY <3>1, <2>1, <2>3, <1>1, CmpConstants
    <3> QED BY <3>1, <3>2, <2>2, <2>3, <1>3 DEF NothingToTrim
  <2>4. CASE ~(keep >= Len(s))
    <3>1. keep < Len(s)
      BY <2>1, <2>4, <1>1
    <3>2. CompactedTo(s, p, keep, CompactMessages(s, p))
      BY <1>3, <2>1, <2>2, <2>4, <3>1 DEF CompactedTo
    <3> QED BY <3>2, <2>1
  <2> QED BY <2>3, <2>4
<1> QED BY <1>2, <1>3

SummaryOf(notes) == [number |-> Summary, marked |-> FALSE, notes |-> notes, ts |-> cmpClock]

\* A summary and the last messages.
LEMMA CompactedIs ==
  ASSUME NEW s \in Seq(SavedMessage), NEW keep \in Nat, keep < Len(s),
         NEW notes \in SUBSET (1..MaxSaid), cmpClock \in Nat
  PROVE  /\ Compacted(s, keep, notes) \in Seq(SavedMessage)
         /\ Len(Compacted(s, keep, notes)) = keep + 1
         /\ Compacted(s, keep, notes)[1] = SummaryOf(notes)
         /\ \A i \in 2..(keep + 1) : Compacted(s, keep, notes)[i] = s[Len(s) - keep + i - 1]
<1> DEFINE one == <<SummaryOf(notes)>>
           kept == KeptMessages(s, keep)
<1>1. SummaryOf(notes) \in SavedMessage
  BY CmpConstants DEF SummaryOf, SavedMessage, Summary
<1>2. one \in Seq(SavedMessage) /\ Len(one) = 1 /\ one[1] = SummaryOf(notes)
  BY <1>1
<1>3. Len(s) \in Nat
  BY LenProperties
<1>4. /\ kept \in Seq(SavedMessage)
      /\ Len(kept) = Smaller(keep, Len(s))
      /\ \A i \in 1..Len(kept) : kept[i] = s[Len(s) - Len(kept) + i]
  BY LastOfIs DEF KeptMessages
<1>5. Smaller(keep, Len(s)) = keep
  BY <1>3 DEF Smaller
<1>6. Compacted(s, keep, notes) = one \o kept
  BY DEF Compacted, SummaryOf
<1> HIDE DEF one, kept
<1>7. /\ one \o kept \in Seq(SavedMessage)
      /\ Len(one \o kept) = Len(one) + Len(kept)
      /\ \A i \in 1..Len(one) + Len(kept) : (one \o kept)[i] = IF i <= Len(one) THEN one[i] ELSE kept[i - Len(one)]
  BY <1>2, <1>4, ConcatProperties
<1>8. Len(one \o kept) = keep + 1
  BY <1>2, <1>4, <1>5, <1>7
<1>9. (one \o kept)[1] = SummaryOf(notes)
  BY <1>2, <1>4, <1>5, <1>7
<1>10. ASSUME NEW i \in 2..(keep + 1) PROVE (one \o kept)[i] = s[Len(s) - keep + i - 1]
  <2>1. i \in 1..Len(one) + Len(kept) /\ ~(i <= Len(one)) /\ i - Len(one) = i - 1 /\ i - 1 \in 1..Len(kept)
    BY <1>2, <1>4, <1>5
  <2>2. (one \o kept)[i] = kept[i - 1]
    BY <1>7, <2>1
  <2>3. kept[i - 1] = s[Len(s) - Len(kept) + (i - 1)]
    BY <1>4, <2>1
  <2>4. Len(s) - Len(kept) + (i - 1) = Len(s) - keep + i - 1
    BY <1>3, <1>4, <1>5
  <2> QED BY <2>2, <2>3, <2>4
<1> QED BY <1>6, <1>7, <1>8, <1>9, <1>10

\* What is noted are numbers of messages.
LEMMA NotesAreNumbers ==
  ASSUME NEW s \in Seq(SavedMessage)
  PROVE  NotesOf(s) \in SUBSET (1..MaxSaid)
<1>1. ASSUME NEW i \in Bookmarked(s) PROVE s[i].number \in 1..MaxSaid
  <2>1. i \in 1..Len(s) /\ s[i].number # 0
    BY DEF Bookmarked, Summary
  <2>2. s[i].number \in 0..MaxSaid
    BY <2>1, TurnsFields
  <2> QED BY <2>1, <2>2, CmpConstants
<1> QED BY <1>1 DEF NotesOf

\* The messages after a compaction, one by one.
LEMMA CompactedToIs ==
  ASSUME NEW s \in Seq(SavedMessage), cmpClock \in Nat, NEW p \in Prompts, NEW t, NEW keep \in Nat,
         CompactedTo(s, p, keep, t)
  PROVE  /\ t \in Seq(SavedMessage) /\ MinKeep <= keep /\ keep < Len(s)
         /\ Len(t) = keep + 1
         /\ \A i \in 2..(keep + 1) : t[i] = s[Len(s) - keep + i - 1]
         /\ t[1].number = Summary /\ t[1].ts = cmpClock
         /\ IF IsHard(s, p)
              THEN t[1].notes = {n \in Noted(s, keep) : Cardinality({m \in Noted(s, keep) : m > n}) < HardNotes}
              ELSE t[1].notes = Noted(s, keep)
<1> DEFINE few == {n \in Noted(s, keep) : Cardinality({m \in Noted(s, keep) : m > n}) < HardNotes}
           notes == IF IsHard(s, p) THEN few ELSE Noted(s, keep)
<1>1. MinKeep <= keep /\ keep < Len(s) /\ t = Compacted(s, keep, notes)
  BY DEF CompactedTo
<1>2. ButLast(s, keep) \in Seq(SavedMessage)
  BY ButLastIs
<1>3. Noted(s, keep) \in SUBSET (1..MaxSaid)
  BY <1>2, NotesAreNumbers DEF Noted
<1>4. notes \in SUBSET (1..MaxSaid)
  BY <1>3
<1>5. /\ IsHard(s, p) => notes = few
      /\ ~IsHard(s, p) => notes = Noted(s, keep)
  OBVIOUS
<1> HIDE DEF notes
<1>6. /\ Compacted(s, keep, notes) \in Seq(SavedMessage)
      /\ Len(Compacted(s, keep, notes)) = keep + 1
      /\ Compacted(s, keep, notes)[1] = SummaryOf(notes)
      /\ \A i \in 2..(keep + 1) : Compacted(s, keep, notes)[i] = s[Len(s) - keep + i - 1]
  BY <1>1, <1>4, CompactedIs
<1>7. t[1].number = Summary /\ t[1].ts = cmpClock /\ t[1].notes = notes
  BY <1>1, <1>6 DEF SummaryOf
<1> QED BY <1>1, <1>5, <1>6, <1>7

\* They are in the order in which they were said, the summary in front.
LEMMA CompactedOrdered ==
  ASSUME NEW s \in Seq(SavedMessage), cmpClock \in Nat, OrderedMessages(s),
         \A i \in 1..Len(s) : s[i].ts < cmpClock,
         NEW keep \in Nat, keep >= 1, keep < Len(s), NEW t \in Seq(SavedMessage),
         Len(t) = keep + 1, t[1].number = Summary, t[1].ts = cmpClock,
         \A i \in 2..(keep + 1) : t[i] = s[Len(s) - keep + i - 1]
  PROVE  /\ OrderedMessages(t)
         /\ \A i \in 1..Len(t) : t[i].ts < cmpClock + 1
<1>1. Len(s) \in Nat
  BY LenProperties
<1> DEFINE at(i) == Len(s) - keep + i - 1
<1>2. \A i \in 2..Len(t) : at(i) \in 2..Len(s) /\ t[i] = s[at(i)]
  BY <1>1
<1>3. \A i, j \in 2..Len(t) : i < j => at(i) < at(j)
  BY <1>1
<1> HIDE DEF at
<1>4. \A i \in 2..Len(t) : t[i].number # Summary
  BY <1>2 DEF OrderedMessages
<1>5. ASSUME NEW i \in 2..Len(t), NEW j \in 2..Len(t), i < j PROVE t[i].ts < t[j].ts
  <2>1. at(i) \in 2..Len(s) /\ at(j) \in 2..Len(s) /\ at(i) < at(j)
    BY <1>2, <1>3, <1>5
  <2> QED BY <1>2, <2>1 DEF OrderedMessages
<1>6. \A i \in 1..Len(s) : s[i].ts \in Nat
  BY TurnsFields
<1>7. ASSUME NEW i \in 2..Len(t) PROVE t[i].ts \in Nat /\ t[i].ts < cmpClock
  <2>1. at(i) \in 1..Len(s) /\ t[i] = s[at(i)]
    BY <1>1, <1>2
  <2> QED BY <1>6, <2>1
<1>8. Len(t) >= 2 /\ 2 \in 2..Len(t)
  OBVIOUS
<1>9. t[1].ts > t[2].ts
  BY <1>7, <1>8
<1>10. \A i \in 1..Len(t) : t[i].ts < cmpClock + 1
  <2> TAKE i \in 1..Len(t)
  <2>1. CASE i = 1
    BY <2>1
  <2>2. CASE i # 1
    <3>1. i \in 2..Len(t)
      BY <2>2
    <3>2. t[i].ts \in Nat /\ t[i].ts < cmpClock
      BY <3>1, <1>7
    <3> QED BY <3>2
  <2> QED BY <2>1, <2>2
<1> QED BY <1>4, <1>5, <1>8, <1>9, <1>10 DEF OrderedMessages

\* A message is said.
LEMMA SayKeeps ==
  ASSUME CmpInv, NEW marked \in BOOLEAN, Say(marked)
  PROVE  CmpInv'
<1> USE DEF CmpInv
<1> DEFINE s == cmpMessages
           new == [number |-> cmpSaid', marked |-> marked, notes |-> {}, ts |-> cmpClock]
           t == Append(s, new)
<1>1. /\ cmpSaid < MaxSaid /\ cmpSaid' = cmpSaid + 1 /\ cmpMessages' = t
      /\ cmpClock' = cmpClock + 1 /\ cmpUses' = cmpUses
  BY DEF Say
<1>2. cmpSaid' \in 0..MaxSaid /\ cmpSaid' # 0
  BY <1>1, CmpConstants
<1>3. new \in SavedMessage /\ new.number # Summary /\ new.ts = cmpClock
  BY <1>2 DEF SavedMessage, Summary
<1> HIDE DEF new
<1>4. /\ t \in Seq(SavedMessage) /\ Len(t) = Len(s) + 1 /\ Len(s) \in Nat
      /\ \A i \in 1..Len(s) : t[i] = s[i]
      /\ t[Len(s) + 1] = new
  BY <1>3, AppendProperties, LenProperties
<1> HIDE DEF t
<1>5. \A i \in 1..Len(s) : s[i].ts \in Nat /\ s[i].ts < cmpClock
  BY TurnsFields
<1>6. ASSUME NEW i \in 2..Len(t) PROVE t[i].number # Summary
  <2>1. CASE i = Len(s) + 1
    BY <2>1, <1>3, <1>4
  <2>2. CASE i # Len(s) + 1
    <3>1. i \in 1..Len(s) /\ i \in 2..Len(s)
      BY <2>2, <1>4
    <3> QED BY <3>1, <1>4 DEF OrderedMessages
  <2> QED BY <2>1, <2>2
<1>7. ASSUME NEW i \in 2..Len(t), NEW j \in 2..Len(t), i < j PROVE t[i].ts < t[j].ts
  <2>0. i \in 1..Len(s) /\ i \in 2..Len(s) /\ t[i] = s[i]
    BY <1>4, <1>7
  <2>1. CASE j = Len(s) + 1
    BY <2>0, <2>1, <1>3, <1>4, <1>5
  <2>2. CASE j # Len(s) + 1
    <3>1. j \in 1..Len(s) /\ j \in 2..Len(s) /\ t[j] = s[j]
      BY <2>2, <1>4
    <3> QED BY <3>1, <2>0, <1>7 DEF OrderedMessages
  <2> QED BY <2>1, <2>2
<1>8. OrderedMessages(t)
  <2>1. CASE Len(s) = 0
    <3>1. Len(t) = 1 /\ t[1].number # Summary
      BY <2>1, <1>3, <1>4
    <3> QED BY <3>1, <1>6, <1>7 DEF OrderedMessages
  <2>2. CASE Len(s) = 1
    <3>1. Len(t) = 2 /\ t[1] = s[1] /\ t[2] = new /\ s[1].number # Summary
      BY <2>2, <1>4 DEF OrderedMessages
    <3>2. t[1].ts < t[2].ts
      BY <3>1, <2>2, <1>3, <1>5
    <3> QED BY <3>1, <3>2, <1>6, <1>7 DEF OrderedMessages
  <2>3. CASE Len(s) >= 2
    <3>1. Len(t) >= 2 /\ t[1] = s[1] /\ t[2] = s[2]
      BY <2>3, <1>4
    <3>2. /\ t[1].number = Summary => t[1].ts > t[2].ts
          /\ t[1].number # Summary => t[1].ts < t[2].ts
      BY <3>1, <2>3, <1>4 DEF OrderedMessages
    <3> QED BY <3>1, <3>2, <1>6, <1>7 DEF OrderedMessages
  <2>4. Len(s) = 0 \/ Len(s) = 1 \/ Len(s) >= 2
    <3> HIDE DEF CmpInv
    <3>1. Len(s) \in Nat
      BY <1>4
    <3> QED BY <3>1
  <2> QED BY <2>1, <2>2, <2>3, <2>4
<1>9. \A i \in 1..Len(t) : t[i].ts < cmpClock + 1
  <2> TAKE i \in 1..Len(t)
  <2>1. CASE i = Len(s) + 1
    BY <2>1, <1>3, <1>4
  <2>2. CASE i # Len(s) + 1
    <3>1. i \in 1..Len(s) /\ t[i] = s[i]
      BY <2>2, <1>4
    <3> QED BY <3>1, <1>5
  <2> QED BY <2>1, <2>2
<1>10. \A i \in 1..Len(cmpUses) : cmpUses[i] <= cmpClock + 1
  <2> TAKE i \in 1..Len(cmpUses)
  <2>1. cmpUses[i] \in Nat /\ cmpUses[i] <= cmpClock
    BY ElementOfSeq
  <2> QED BY <2>1
<1>11. cmpClock + 1 \in Nat
  OBVIOUS
<1>12. cmpMessages' \in Seq(SavedMessage) /\ OrderedMessages(cmpMessages')
  BY <1>1, <1>4, <1>8
<1>13. OrderedMessages(cmpMessages)'
  BY <1>12 DEF OrderedMessages
<1>14. (\A i \in 1..Len(cmpMessages) : cmpMessages[i].ts < cmpClock)'
  BY <1>1, <1>9
<1>15. (\A i \in 1..Len(cmpUses) : cmpUses[i] <= cmpClock)'
  BY <1>1, <1>10
<1> QED BY <1>1, <1>2, <1>11, <1>12, <1>13, <1>14, <1>15

\* A tool is used.
LEMMA ToolUsedKeeps ==
  ASSUME CmpInv, ToolUsed
  PROVE  CmpInv'
<1> USE DEF CmpInv
<1>1. PICK tick \in {0, 1} : cmpClock' = cmpClock + tick
  BY DEF ToolUsed
<1>2. /\ Len(cmpUses) < MaxUses /\ cmpUses' = Append(cmpUses, cmpClock)
      /\ cmpMessages' = cmpMessages /\ cmpSaid' = cmpSaid
  BY DEF ToolUsed
<1>3. cmpClock' \in Nat /\ cmpClock <= cmpClock'
  BY <1>1
<1>4. /\ cmpUses' \in Seq(Nat) /\ Len(cmpUses') = Len(cmpUses) + 1 /\ Len(cmpUses) \in Nat
      /\ \A i \in 1..Len(cmpUses) : cmpUses'[i] = cmpUses[i]
      /\ cmpUses'[Len(cmpUses) + 1] = cmpClock
  BY <1>2, AppendProperties, LenProperties
<1>5. Len(cmpUses') <= MaxUses
  BY <1>2, <1>4, CmpConstants
<1>6. (\A i \in 1..Len(cmpUses) : cmpUses[i] <= cmpClock)'
  <2>1. ASSUME NEW i \in 1..Len(cmpUses') PROVE cmpUses'[i] <= cmpClock'
    <3>1. CASE i = Len(cmpUses) + 1
      BY <3>1, <1>3, <1>4
    <3>2. CASE i # Len(cmpUses) + 1
      <4>1. i \in 1..Len(cmpUses) /\ cmpUses'[i] = cmpUses[i]
        BY <3>2, <1>4
      <4>2. cmpUses[i] \in Nat /\ cmpUses[i] <= cmpClock
        BY <4>1, ElementOfSeq
      <4> QED BY <4>1, <4>2, <1>3
    <3> QED BY <3>1, <3>2
  <2> QED BY <2>1
<1>7. (\A i \in 1..Len(cmpMessages) : cmpMessages[i].ts < cmpClock)'
  <2>1. ASSUME NEW i \in 1..Len(cmpMessages) PROVE cmpMessages[i].ts < cmpClock'
    <3>1. cmpMessages[i].ts \in Nat /\ cmpMessages[i].ts < cmpClock
      BY TurnsFields
    <3> QED BY <3>1, <1>3
  <2> QED BY <2>1, <1>2
<1>8. OrderedMessages(cmpMessages)'
  BY <1>2 DEF OrderedMessages
<1> QED BY <1>2, <1>3, <1>4, <1>5, <1>6, <1>7, <1>8

\* A compaction before a run.
LEMMA CompactKeeps ==
  ASSUME CmpInv, NEW p \in Prompts, CompactConversation(p)
  PROVE  CmpInv'
<1> USE DEF CmpInv
<1> DEFINE t == CompactMessages(cmpMessages, p)
<1>1. /\ NeedsCompaction(cmpMessages, p) /\ cmpMessages' = t /\ cmpClock' = cmpClock + 1
      /\ cmpUses' = cmpUses /\ cmpSaid' = cmpSaid
  BY DEF CompactConversation
<1>2. \/ t = cmpMessages
      \/ \E keep \in Nat : CompactedTo(cmpMessages, p, keep, t)
  BY <1>1, CompactEffect
<1> HIDE DEF t
<1>3. t \in Seq(SavedMessage) /\ OrderedMessages(t) /\ \A i \in 1..Len(t) : t[i].ts < cmpClock + 1
  <2>1. CASE t = cmpMessages
    <3>1. ASSUME NEW i \in 1..Len(cmpMessages) PROVE cmpMessages[i].ts < cmpClock + 1
      <4>1. cmpMessages[i].ts \in Nat /\ cmpMessages[i].ts < cmpClock
        BY TurnsFields
      <4> QED BY <4>1
    <3> QED BY <2>1, <3>1
  <2>2. CASE \E keep \in Nat : CompactedTo(cmpMessages, p, keep, t)
    <3>1. PICK keep \in Nat : CompactedTo(cmpMessages, p, keep, t)
      BY <2>2
    <3>2. /\ t \in Seq(SavedMessage) /\ MinKeep <= keep /\ keep < Len(cmpMessages)
          /\ Len(t) = keep + 1
          /\ \A i \in 2..(keep + 1) : t[i] = cmpMessages[Len(cmpMessages) - keep + i - 1]
          /\ t[1].number = Summary /\ t[1].ts = cmpClock
      BY <3>1, CompactedToIs
    <3>3. keep >= 1
      BY <3>2, CmpConstants
    <3> QED BY <3>2, <3>3, CompactedOrdered
  <2> QED BY <1>2, <2>1, <2>2
<1>4. OrderedMessages(cmpMessages)'
  BY <1>1, <1>3 DEF OrderedMessages
<1>5. (\A i \in 1..Len(cmpMessages) : cmpMessages[i].ts < cmpClock)'
  BY <1>1, <1>3
<1>6. (\A i \in 1..Len(cmpUses) : cmpUses[i] <= cmpClock)'
  <2>1. ASSUME NEW i \in 1..Len(cmpUses) PROVE cmpUses[i] <= cmpClock + 1
    <3>1. cmpUses[i] \in Nat /\ cmpUses[i] <= cmpClock
      BY ElementOfSeq
    <3> QED BY <3>1
  <2> QED BY <2>1, <1>1
<1> QED BY <1>1, <1>3, <1>4, <1>5, <1>6

\* Every step keeps the invariant.
LEMMA CmpStep == CmpInv /\ [CompactionNext]_cmpVars => CmpInv'
<1> SUFFICES ASSUME CmpInv, [CompactionNext]_cmpVars PROVE CmpInv'
  OBVIOUS
<1>1. CASE \E marked \in BOOLEAN : Say(marked)
  BY <1>1, SayKeeps
<1>2. CASE ToolUsed
  BY <1>2, ToolUsedKeeps
<1>3. CASE \E p \in Prompts : CompactConversation(p)
  BY <1>3, CompactKeeps
<1>4. CASE UNCHANGED cmpVars
  BY <1>4 DEF cmpVars, CmpInv, OrderedMessages
<1> QED BY <1>1, <1>2, <1>3, <1>4 DEF CompactionNext

\* A conversation begins without messages.
LEMMA CmpStart == CompactionInit => CmpInv
<1> SUFFICES ASSUME CompactionInit PROVE CmpInv
  OBVIOUS
<1>1. cmpMessages = <<>> /\ Len(cmpMessages) = 0 /\ cmpUses = <<>> /\ Len(cmpUses) = 0
  BY DEF CompactionInit
<1>2. cmpMessages \in Seq(SavedMessage) /\ cmpUses \in Seq(Nat)
  BY <1>1
<1>3. cmpClock = 0 /\ cmpSaid \in 0..MaxSaid /\ Len(cmpUses) <= MaxUses
  BY <1>1, CmpConstants DEF CompactionInit
<1>4. OrderedMessages(cmpMessages)
  BY <1>1 DEF OrderedMessages
<1> QED BY <1>1, <1>2, <1>3, <1>4 DEF CmpInv

\* What the invariant says of types.
LEMMA CmpTyped == CmpInv => CompactionTypeOK
BY DEF CmpInv, CompactionTypeOK, OrderedMessages

\* The order of messages and uses of tools is kept, for any limits (compactor.js).
THEOREM CmpSafe == CompactionInit /\ [][CompactionNext]_cmpVars => []CmpInv
<1>1. CompactionInit => CmpInv
  BY CmpStart
<1>2. CmpInv /\ [CompactionNext]_cmpVars => CmpInv'
  BY CmpStep
<1> QED BY <1>1, <1>2, PTL

\* A set of numbers below n has a greatest one.
LEMMA Largest ==
  ASSUME NEW n \in Nat, NEW S \in SUBSET (1..n), S # {}
  PROVE  \E k \in S : \A m \in S : m <= k
<1> DEFINE T == {n - k : k \in S}
<1>1. T \in SUBSET Nat /\ T # {}
  <2>1. ASSUME NEW k \in S PROVE n - k \in Nat
    <3>1. k \in 1..n
      OBVIOUS
    <3> QED BY <3>1
  <2> QED BY <2>1
<1>2. PICK x \in T : \A y \in T : x <= y
  BY <1>1, Smallest
<1>3. PICK k \in S : x = n - k
  BY <1>2
<1>4. ASSUME NEW m \in S PROVE m <= k
  <2>1. n - m \in T
    OBVIOUS
  <2>2. n - k <= n - m
    BY <2>1, <1>2, <1>3
  <2> QED BY <2>2
<1> QED BY <1>4

\* The last of ordered messages are ordered.
LEMMA LastOrdered ==
  ASSUME NEW s \in Seq(SavedMessage), OrderedMessages(s), NEW n \in Nat, n >= 1
  PROVE  OrderedMessages(LastOf(s, n))
<1> DEFINE t == LastOf(s, n)
           d == Len(s) - Len(t)
<1>1. /\ Len(t) = Smaller(n, Len(s))
      /\ \A i \in 1..Len(t) : t[i] = s[d + i]
  BY LastOfIs
<1>2. Len(s) \in Nat
  BY LenProperties
<1>3. Len(t) \in Nat /\ d \in Nat /\ d + Len(t) = Len(s)
  <2>1. Smaller(n, Len(s)) \in Nat /\ Smaller(n, Len(s)) <= Len(s)
    BY <1>2, SmallerIs
  <2> HIDE DEF t
  <2> QED BY <2>1, <1>1, <1>2
<1>4. Len(s) >= 1 => Len(t) >= 1
  BY <1>1, <1>2 DEF Smaller
<1>5. CASE d = 0
  <2>1. \A i \in 1..Len(t) : t[i] = s[i]
    <3> TAKE i \in 1..Len(t)
    <3>1. d + i = i
      BY <1>5
    <3> QED BY <3>1, <1>1
  <2>2. Len(t) = Len(s)
    BY <1>3, <1>5
  <2> HIDE DEF t, d
  <2>3. \A i \in 2..Len(t) : i \in 1..Len(t)
    BY <1>3
  <2>4. Len(t) >= 1 => 1 \in 1..Len(t)
    BY <1>3
  <2>5. Len(t) >= 2 => 2 \in 1..Len(t)
    BY <1>3
  <2>6. OrderedMessages(t)
    BY <2>1, <2>2, <2>3, <2>4, <2>5, <1>3 DEF OrderedMessages
  <2> QED BY <2>6 DEF t
<1>6. CASE d >= 1
  <2> HIDE DEF t, d
  <2>1. \A i \in 1..Len(t) : d + i \in 2..Len(s) /\ t[i] = s[d + i]
    BY <1>1, <1>2, <1>3, <1>6
  <2>2. \A i \in 1..Len(t) : t[i].number # Summary
    BY <2>1 DEF OrderedMessages
  <2>3. ASSUME NEW i \in 1..Len(t), NEW j \in 1..Len(t), i < j PROVE t[i].ts < t[j].ts
    <3>1. d + i < d + j
      BY <1>3, <2>3
    <3> QED BY <3>1, <2>1 DEF OrderedMessages
  <2>4. \A i \in 2..Len(t) : i \in 1..Len(t)
    BY <1>3
  <2>5. Len(t) >= 1 => 1 \in 1..Len(t)
    BY <1>3
  <2>6. Len(t) >= 2 => 2 \in 1..Len(t) /\ 1 \in 1..Len(t) /\ 1 < 2
    BY <1>3
  <2>7. OrderedMessages(t)
    BY <2>2, <2>3, <2>4, <2>5, <2>6 DEF OrderedMessages
  <2> QED BY <2>7 DEF t
<1> QED BY <1>3, <1>5, <1>6

\* The messages that tell a use are those whose time it falls into.
LEMMA RecapIs ==
  ASSUME CmpInv, NEW u \in 1..Len(cmpUses)
  PROVE  LET recent == LastOf(cmpMessages, RecapCount)
             next(i) == IF i < Len(recent) THEN recent[i + 1].ts ELSE cmpClock + 1
         IN  {i \in 1..Len(Recap(cmpMessages)) : u \in Recap(cmpMessages)[i].uses}
               = {i \in 1..Len(recent) : recent[i].ts <= cmpUses[u] /\ cmpUses[u] < next(i)}
<1> DEFINE recent == LastOf(cmpMessages, RecapCount)
           next(i) == IF i < Len(recent) THEN recent[i + 1].ts ELSE cmpClock + 1
           entry(i) == [number |-> recent[i].number, notes |-> recent[i].notes,
                        uses |-> GapUses(recent[i].ts, next(i))]
           recap == [i \in 1..Len(recent) |-> entry(i)]
<1>1. Recap(cmpMessages) = recap
  BY DEF Recap
<1>2. recent \in Seq(SavedMessage)
  BY LastOfIs, CmpConstants DEF CmpInv
<1>3. Len(recent) \in Nat
  BY <1>2, LenProperties
<1>4. \A i \in 1..Len(recent) : u \in entry(i).uses <=> recent[i].ts <= cmpUses[u] /\ cmpUses[u] < next(i)
  BY DEF GapUses
<1> HIDE DEF entry, recent, next
<1>5. Len(recap) = Len(recent)
  BY <1>3
<1>6. \A i \in 1..Len(recent) : recap[i] = entry(i)
  OBVIOUS
<1> HIDE DEF recap
<1>7. {i \in 1..Len(recap) : u \in recap[i].uses}
        = {i \in 1..Len(recent) : recent[i].ts <= cmpUses[u] /\ cmpUses[u] < next(i)}
  BY <1>4, <1>5, <1>6
<1> QED BY <1>1, <1>7 DEF recent, next

\* There is one such message.
LEMMA CmpToldOnce == CmpInv => UsesToldOnce
<1> SUFFICES ASSUME CmpInv, NEW u \in 1..Len(cmpUses)
    PROVE LET recap == Recap(cmpMessages)
              recent == LastOf(cmpMessages, RecapCount)
              said == {i \in 1..Len(recent) : recent[i].number # Summary}
              told == {i \in 1..Len(recap) : u \in recap[i].uses}
          IN  /\ Cardinality(told) <= 1
              /\ (\E i \in said : recent[i].ts <= cmpUses[u]) => told # {}
  BY DEF UsesToldOnce
<1> DEFINE recent == LastOf(cmpMessages, RecapCount)
           next(i) == IF i < Len(recent) THEN recent[i + 1].ts ELSE cmpClock + 1
           told == {i \in 1..Len(recent) : recent[i].ts <= cmpUses[u] /\ cmpUses[u] < next(i)}
           said == {i \in 1..Len(recent) : recent[i].number # Summary}
<1>1. {i \in 1..Len(Recap(cmpMessages)) : u \in Recap(cmpMessages)[i].uses} = told
  BY RecapIs
<1>2. cmpUses[u] \in Nat /\ cmpUses[u] <= cmpClock /\ cmpClock \in Nat
  BY ElementOfSeq DEF CmpInv
<1>3. OrderedMessages(recent)
  BY LastOrdered, CmpConstants DEF CmpInv
<1>4. recent \in Seq(SavedMessage)
  BY LastOfIs, CmpConstants DEF CmpInv
<1>5. Len(recent) \in Nat /\ \A i \in 1..Len(recent) : recent[i].ts \in Nat
  BY <1>4, TurnsFields, LenProperties
<1> HIDE DEF recent
<1>6. ASSUME NEW i \in told, NEW j \in told, i < j PROVE FALSE
  <2>1. i \in 1..Len(recent) /\ j \in 1..Len(recent) /\ i + 1 \in 2..Len(recent) /\ j \in 2..Len(recent)
    BY <1>5, <1>6
  <2>2. recent[j].ts <= cmpUses[u] /\ cmpUses[u] < recent[i + 1].ts
    BY <1>5, <1>6, <2>1
  <2>3. recent[i + 1].ts \in Nat /\ recent[j].ts \in Nat
    BY <1>5, <2>1
  <2>4. CASE i + 1 = j
    BY <2>2, <2>3, <2>4, <1>2
  <2>5. CASE i + 1 # j
    <3>1. i + 1 < j
      BY <2>5, <2>1, <1>6
    <3>2. recent[i + 1].ts < recent[j].ts
      BY <3>1, <2>1, <1>3 DEF OrderedMessages
    <3> QED BY <3>2, <2>2, <2>3, <1>2
  <2> QED BY <2>4, <2>5
<1>7. Cardinality(told) <= 1
  <2>1. CASE told = {}
    <3>1. Cardinality({}) = 0
      BY FS_EmptySet
    <3> HIDE DEF told
    <3> QED BY <2>1, <3>1
  <2>2. CASE told # {}
    <3>1. PICK i \in told : TRUE
      BY <2>2
    <3>2. ASSUME NEW j \in told PROVE j = i
      <4>1. ~(i < j) /\ ~(j < i)
        BY <1>6
      <4>2. i \in Nat /\ j \in Nat
        BY <1>5
      <4> QED BY <4>1, <4>2
    <3>3. told = {i}
      BY <3>1, <3>2
    <3>4. Cardinality({i}) = 1
      BY FS_Singleton
    <3> HIDE DEF told
    <3>5. Cardinality(told) = 1
      BY <3>3, <3>4
    <3> QED BY <3>5
  <2> QED BY <2>1, <2>2
<1>8. ASSUME NEW i \in said, recent[i].ts <= cmpUses[u] PROVE told # {}
  <2> DEFINE before == {k \in 1..Len(recent) : recent[k].number # Summary /\ recent[k].ts <= cmpUses[u]}
  <2>1. before \in SUBSET (1..Len(recent)) /\ before # {}
    BY <1>8
  <2> HIDE DEF before
  <2>2. PICK k \in before : \A m \in before : m <= k
    BY <2>1, <1>5, Largest
  <2>3. k \in 1..Len(recent) /\ recent[k].ts <= cmpUses[u]
    BY <2>2 DEF before
  <2>4. cmpUses[u] < next(k)
    <3>1. CASE k < Len(recent)
      <4>1. k + 1 \in 2..Len(recent) /\ k + 1 \in 1..Len(recent) /\ ~(k + 1 <= k)
        BY <3>1, <2>3, <1>5
      <4>2. ~(k + 1 \in before)
        BY <4>1, <2>2
      <4>3. recent[k + 1].number # Summary
        BY <4>1, <1>3 DEF OrderedMessages
      <4>4. ~(recent[k + 1].ts <= cmpUses[u]) /\ recent[k + 1].ts \in Nat
        BY <4>1, <4>2, <4>3, <1>5 DEF before
      <4> QED BY <4>4, <3>1, <1>2
    <3>2. CASE ~(k < Len(recent))
      BY <3>2, <1>2
    <3> QED BY <3>1, <3>2
  <2>5. k \in told
    BY <2>3, <2>4
  <2> QED BY <2>5
<1> HIDE DEF told
<1> QED BY <1>1, <1>7, <1>8 DEF recent

\* A conversation that was compacted needs no compaction right away.
LEMMA CmpEnough == CmpInv => CompactedEnough
<1> SUFFICES ASSUME CmpInv, NEW p \in Prompts,
                    NeedsCompaction(cmpMessages, p), 100 * (p + 1) < 35 * Window,
                    NeedsCompaction(CompactMessages(cmpMessages, p), p)
             PROVE  FALSE
  BY DEF CompactedEnough
<1> DEFINE s == cmpMessages
           t == CompactMessages(s, p)
<1>1. s \in Seq(SavedMessage) /\ cmpClock \in Nat /\ Len(s) \in Nat /\ p \in Nat
  BY LenProperties, CmpConstants DEF CmpInv
<1>2. \/ t = s /\ NothingToTrim(s, p)
      \/ \E keep \in Nat : CompactedTo(s, p, keep, t)
  BY CompactEffect, <1>1
<1>0. NeedsCompaction(t, p)
  OBVIOUS
<1> HIDE DEF t
<1>3. CASE t = s /\ NothingToTrim(s, p)
  <2>1. p > 0 /\ (Len(s) <= MinKeep \/ 100 * Len(s) <= 50 * Window)
    BY <1>3 DEF NothingToTrim
  <2>2. (p + Len(s)) * 100 >= 85 * Window
    BY <2>1, <1>0, <1>3 DEF NeedsCompaction, Uses, TotalContext
  <2>3. 100 * Len(s) <= 50 * Window
    BY <2>1, <1>1, CmpConstants
  <2> QED BY <2>2, <2>3, <1>1, CmpConstants
<1>4. CASE \E keep \in Nat : CompactedTo(s, p, keep, t)
  <2>1. PICK keep \in Nat : CompactedTo(s, p, keep, t)
    BY <1>4
  <2>2. Len(t) = keep + 1
    BY <2>1, <1>1, CompactedToIs
  <2>3. IF p > 0 THEN keep = MinKeep \/ 100 * keep <= 50 * Window ELSE keep <= compactTo \/ keep = HardKeep
    BY <2>1, <1>1, CmpConstants DEF CompactedTo
  <2>4. CASE p > 0
    <3>1. (p + (keep + 1)) * 100 >= 85 * Window
      BY <2>2, <2>4, <1>0 DEF NeedsCompaction, Uses, TotalContext
    <3>2. 100 * keep <= 50 * Window
      BY <2>3, <2>4, <1>1, CmpConstants
    <3> QED BY <3>1, <3>2, <1>1, CmpConstants
  <2>5. CASE ~(p > 0)
    <3>1. keep + 1 > maxMessages
      BY <2>2, <2>5, <1>0 DEF NeedsCompaction
    <3> QED BY <3>1, <2>3, <2>5, <1>1, CmpConstants
  <2> QED BY <2>4, <2>5
<1> QED BY <1>2, <1>3, <1>4

\* What a compaction that changes something does.
LEMMA ChangedIs ==
  ASSUME CmpInv, NEW p \in Prompts, CompactConversation(p), cmpMessages' # cmpMessages
  PROVE  \E keep \in Nat :
           /\ cmpMessages' \in Seq(SavedMessage)
           /\ MinKeep <= keep /\ keep < Len(cmpMessages)
           /\ Len(cmpMessages') = keep + 1
           /\ \A i \in 2..(keep + 1) : cmpMessages'[i] = cmpMessages[Len(cmpMessages) - keep + i - 1]
           /\ cmpMessages'[1].number = Summary
           /\ IF IsHard(cmpMessages, p)
                THEN cmpMessages'[1].notes = {n \in Noted(cmpMessages, keep) : Cardinality({m \in Noted(cmpMessages, keep) : m > n}) < HardNotes}
                ELSE cmpMessages'[1].notes = Noted(cmpMessages, keep)
<1>1. cmpMessages \in Seq(SavedMessage) /\ cmpClock \in Nat
  BY DEF CmpInv
<1>2. NeedsCompaction(cmpMessages, p) /\ cmpMessages' = CompactMessages(cmpMessages, p)
  BY DEF CompactConversation
<1>3. \E keep \in Nat : CompactedTo(cmpMessages, p, keep, cmpMessages')
  BY <1>1, <1>2, CompactEffect
<1>4. PICK keep \in Nat : CompactedTo(cmpMessages, p, keep, cmpMessages')
  BY <1>3
<1> QED BY <1>1, <1>4, CompactedToIs

\* A compaction leaves the latest messages as they are, counted from the end.
LEMMA CmpRecent ==
  ASSUME CmpInv, NEW p \in Prompts, CompactConversation(p), cmpMessages' # cmpMessages
  PROVE  /\ \A back \in 0..(Len(cmpMessages') - 1) :
               FromEnd(cmpMessages', back).number # Summary =>
                  /\ back < Len(cmpMessages)
                  /\ FromEnd(cmpMessages', back) = FromEnd(cmpMessages, back)
         /\ \A back \in 0..(Smaller(MinKeep, Len(cmpMessages)) - 1) :
               /\ back < Len(cmpMessages')
               /\ FromEnd(cmpMessages', back) = FromEnd(cmpMessages, back)
<1> DEFINE s == cmpMessages
           t == cmpMessages'
<1>1. PICK keep \in Nat :
           /\ MinKeep <= keep /\ keep < Len(s)
           /\ Len(t) = keep + 1
           /\ \A i \in 2..(keep + 1) : t[i] = s[Len(s) - keep + i - 1]
           /\ t[1].number = Summary
  BY ChangedIs
<1>2. Len(s) \in Nat
  BY LenProperties DEF CmpInv
<1>3. Smaller(MinKeep, Len(s)) \in Nat /\ Smaller(MinKeep, Len(s)) <= MinKeep
  BY <1>2, CmpConstants, SmallerIs
<1> HIDE DEF s, t
<1>4. ASSUME NEW back \in 0..(keep - 1)
      PROVE  back < Len(s) /\ back < Len(t) /\ t[Len(t) - back] = s[Len(s) - back]
  <2>1. keep + 1 - back \in 2..(keep + 1) /\ Len(s) - keep + (keep + 1 - back) - 1 = Len(s) - back
    BY <1>2
  <2>2. t[keep + 1 - back] = s[Len(s) - back]
    BY <1>1, <2>1
  <2> QED BY <2>2, <1>1, <1>2
<1>5. ASSUME NEW back \in 0..(Len(t) - 1), t[Len(t) - back].number # Summary
      PROVE  back < Len(s) /\ t[Len(t) - back] = s[Len(s) - back]
  <2>1. CASE back = keep
    <3>1. Len(t) - back = 1
      BY <2>1, <1>1
    <3> QED BY <3>1, <1>1, <1>5
  <2>2. CASE back # keep
    <3>1. back \in 0..(keep - 1)
      BY <2>2, <1>1
    <3> QED BY <3>1, <1>4
  <2> QED BY <2>1, <2>2
<1>6. ASSUME NEW back \in 0..(Smaller(MinKeep, Len(s)) - 1)
      PROVE  back < Len(t) /\ t[Len(t) - back] = s[Len(s) - back]
  <2>1. back \in 0..(keep - 1)
    BY <1>1, <1>3, CmpConstants
  <2> QED BY <2>1, <1>4
<1> QED BY <1>5, <1>6 DEF FromEnd, s, t

\* A compaction notes the marked messages it takes.
LEMMA CmpNoted ==
  ASSUME CmpInv, NEW p \in Prompts, CompactConversation(p), cmpMessages' # cmpMessages,
         Cardinality(NotesOf(cmpMessages)) <= HardNotes \/ ~IsHard(cmpMessages, p)
  PROVE  NotesOf(cmpMessages) \subseteq
            Numbers(cmpMessages') \cup UNION {cmpMessages'[i].notes : i \in 1..Len(cmpMessages')}
<1> DEFINE s == cmpMessages
           t == cmpMessages'
           marked == NotesOf(s)
<1>1. PICK keep \in Nat :
           /\ MinKeep <= keep /\ keep < Len(s)
           /\ Len(t) = keep + 1
           /\ \A i \in 2..(keep + 1) : t[i] = s[Len(s) - keep + i - 1]
           /\ IF IsHard(s, p)
                THEN t[1].notes = {n \in Noted(s, keep) : Cardinality({m \in Noted(s, keep) : m > n}) < HardNotes}
                ELSE t[1].notes = Noted(s, keep)
  BY ChangedIs
<1>2. s \in Seq(SavedMessage) /\ Len(s) \in Nat
  BY LenProperties DEF CmpInv
<1>3. marked \in SUBSET (1..MaxSaid)
  BY <1>2, NotesAreNumbers
<1>4. IsFiniteSet(marked)
  <2>1. IsFiniteSet(1..MaxSaid)
    BY FS_Interval, CmpConstants
  <2> HIDE DEF marked
  <2> QED BY <2>1, <1>3, FS_Subset
<1>5. /\ ButLast(s, keep) \in Seq(SavedMessage)
      /\ Len(ButLast(s, keep)) = Len(s) - Smaller(keep, Len(s))
      /\ \A i \in 1..Len(ButLast(s, keep)) : ButLast(s, keep)[i] = s[i]
  BY <1>2, ButLastIs
<1>6. Len(ButLast(s, keep)) = Len(s) - keep
  BY <1>1, <1>2, <1>5 DEF Smaller
<1> DEFINE noted == Noted(s, keep)
<1>7. noted = {ButLast(s, keep)[i].number : i \in Bookmarked(ButLast(s, keep))}
  BY DEF Noted, NotesOf
<1> HIDE DEF s, t
<1>8. noted \subseteq marked
  <2>1. ASSUME NEW i \in Bookmarked(ButLast(s, keep))
        PROVE  i \in Bookmarked(s) /\ ButLast(s, keep)[i] = s[i]
    <3>1. i \in 1..Len(ButLast(s, keep)) /\ ButLast(s, keep)[i] = s[i]
      BY <1>5 DEF Bookmarked
    <3>2. i \in 1..Len(s)
      BY <3>1, <1>1, <1>2, <1>6
    <3> QED BY <3>1, <3>2 DEF Bookmarked
  <2> QED BY <2>1, <1>7 DEF NotesOf
<1>9. ASSUME NEW n \in noted PROVE n \in t[1].notes
  <2>1. CASE ~IsHard(s, p)
    BY <2>1, <1>1
  <2>2. CASE IsHard(s, p)
    <3> DEFINE later == {m \in noted : m > n}
    <3>1. Cardinality(marked) <= HardNotes
      BY <2>2 DEF s
    <3>2. later \subseteq marked \ {n} /\ n \in marked
      BY <1>3, <1>8
    <3> HIDE DEF later, marked, noted
    <3>3. IsFiniteSet(marked \ {n}) /\ Cardinality(marked \ {n}) = Cardinality(marked) - 1
      BY <1>4, <3>2, FS_RemoveElement
    <3>4. Cardinality(later) <= Cardinality(marked \ {n}) /\ IsFiniteSet(later)
      BY <3>2, <3>3, FS_Subset
    <3>5. Cardinality(later) \in Nat /\ Cardinality(marked) \in Nat
      BY <1>4, <3>4, FS_CardinalityType
    <3>6. Cardinality(later) < HardNotes
      BY <3>1, <3>3, <3>4, <3>5, CmpConstants
    <3> QED BY <3>6, <2>2, <1>1 DEF later, noted
  <2> QED BY <2>1, <2>2
<1>10. ASSUME NEW n \in marked
       PROVE  n \in Numbers(t) \cup UNION {t[i].notes : i \in 1..Len(t)}
  <2>1. PICK i \in Bookmarked(s) : n = s[i].number
    BY DEF NotesOf
  <2>2. i \in 1..Len(s) /\ s[i].number # Summary /\ s[i].marked
    BY <2>1 DEF Bookmarked
  <2>3. CASE i <= Len(s) - keep
    <3>1. i \in 1..Len(ButLast(s, keep))
      BY <2>2, <2>3, <1>2, <1>6
    <3>2. i \in Bookmarked(ButLast(s, keep)) /\ ButLast(s, keep)[i].number = n
      BY <3>1, <2>1, <2>2, <1>5 DEF Bookmarked
    <3>3. n \in noted
      BY <3>2, <1>7
    <3>4. n \in t[1].notes /\ 1 \in 1..Len(t)
      BY <3>3, <1>9, <1>1
    <3> QED BY <3>4
  <2>4. CASE ~(i <= Len(s) - keep)
    <3> DEFINE j == i - (Len(s) - keep) + 1
    <3>1. j \in 2..(keep + 1) /\ j \in 1..Len(t) /\ Len(s) - keep + j - 1 = i
      BY <2>2, <2>4, <1>1, <1>2
    <3> HIDE DEF j
    <3>2. t[j] = s[i]
      BY <3>1, <1>1
    <3> QED BY <3>1, <3>2, <2>1, <2>2 DEF Numbers
  <2> QED BY <2>3, <2>4
<1> QED BY <1>10 DEF s, t

\* For any limits and prompts: a recap tells every use of a tool once, and the run
\* after a compaction does not begin with another (executor.js:1558, 1584).
THEOREM CmpHolds ==
  CompactionInit /\ [][CompactionNext]_cmpVars => [](CompactionTypeOK /\ UsesToldOnce /\ CompactedEnough)
<1>1. CmpInv => CompactionTypeOK /\ UsesToldOnce /\ CompactedEnough
  BY CmpTyped, CmpToldOnce, CmpEnough
<1> QED BY <1>1, CmpSafe, PTL

\* A compaction neither changes the latest messages nor forgets marked ones, for any
\* limits (compactor.js:109, 190).
THEOREM CmpSpares ==
  CompactionInit /\ [][CompactionNext]_cmpVars => RecentKept /\ MarkedIsNoted
<1>1. CmpInv => LatestStay
  BY CmpRecent DEF LatestStay
<1>2. CmpInv => MarkedStay
  BY CmpNoted DEF MarkedStay
<1> QED BY <1>1, <1>2, CmpSafe, PTL DEF RecentKept, MarkedIsNoted

-------------------------------------------------------------------------------
\* Skills and ratings (skill-cache.js, skill-router.js).

Ratings == [ok : Nat, failed : Nat]

SkillsTypes ==
  /\ agentIs \in [Agent -> {"unborn", "there", "deleted"}]
  /\ soulSays \in [Agent -> SUBSET Skill] /\ simple \in [Agent -> SUBSET Skill]
  /\ structured \in [Agent -> SUBSET Skill] /\ extracted \in [Agent -> SUBSET Skill]
  /\ manual \in [Agent -> SUBSET Skill] /\ withSchema \subseteq Agent
  /\ cached \subseteq {a \in Agent : agentIs[a] # "unborn"}
  /\ calls \in [Agent -> Ratings]
  /\ ratedAtBoot \in [Agent -> Ratings] /\ ratingsFile \in [Agent -> Ratings]
  /\ unannounced \subseteq Agent
  /\ indexed \in [Skill -> SUBSET cached]
  /\ \A a \in Agent \ cached : calls[a] = NoCalls
  /\ refreshDue \in BOOLEAN /\ skillsUp \in BOOLEAN /\ ratingsUnsaved \in BOOLEAN

\* Nothing is known of an agent before it is there.
UnbornIsUnknown ==
  \A a \in Agent : agentIs[a] = "unborn" =>
      simple[a] = {} /\ structured[a] = {} /\ manual[a] = {} /\ extracted[a] = {}

SkillsInv ==
  SkillsTypes /\ UnbornIsUnknown /\ StaleIsDue /\ RegisteredIsKept /\ RatingIsOnFile

-----------------------------------------------------------------------------
\* What a refresh of an agent leaves: types, and all of the base.
LEMMA RefreshAgentEffect ==
  ASSUME SkillsTypes, NEW a \in Agent, NEW base \in SUBSET Skill,
         soulSays' \in [Agent -> SUBSET Skill], RefreshAgent(a, base)
  PROVE  /\ extracted' \in [Agent -> SUBSET Skill]
         /\ simple' \in [Agent -> SUBSET Skill]
         /\ structured' \in [Agent -> SUBSET Skill]
         /\ base \subseteq structured'[a]
         /\ \A b \in Agent \ {a} : /\ structured'[b] = structured[b]
                                   /\ simple'[b] = simple[b]
                                   /\ extracted'[b] = extracted[b]
<1> DEFINE skills == Extracted(a, soulSays')
<1>1. skills \in SUBSET Skill
  BY DEF Extracted, SkillsTypes
<1> HIDE DEF skills
<1>2. /\ extracted' = [extracted EXCEPT ![a] = skills]
      /\ \/ /\ simple' = [simple EXCEPT ![a] = skills]
            /\ structured' = [structured EXCEPT ![a] =
                 IF skills = {} THEN base ELSE SyncedNames(a, base, skills)]
         \/ simple' = simple /\ structured' = [structured EXCEPT ![a] = base]
  BY DEF RefreshAgent, skills
<1>3. SyncedNames(a, base, skills) \in {base, base \cup skills}
  BY DEF SyncedNames
<1>4. QED
  BY <1>1, <1>2, <1>3 DEF SkillsTypes

\* A route that refreshes an agent and asks for a refresh of the cache.
LEMMA RouteKeeps ==
  ASSUME SkillsInv, NEW a \in Agent, NEW base \in SUBSET Skill, RefreshAgent(a, base),
         soulSays' \in [Agent -> SUBSET Skill],
         agentIs' \in {agentIs, [agentIs EXCEPT ![a] = "there"]}, agentIs'[a] = "there",
         manual' \in [Agent -> SUBSET Skill], manual'[a] \subseteq base,
         \A b \in Agent \ {a} : manual'[b] = manual[b],
         withSchema' \subseteq Agent, refreshDue' = TRUE,
         UNCHANGED <<cacheVars, ratingVars, skillsUp>>
  PROVE  SkillsInv'
<1>1. /\ extracted' \in [Agent -> SUBSET Skill]
      /\ simple' \in [Agent -> SUBSET Skill]
      /\ structured' \in [Agent -> SUBSET Skill]
      /\ base \subseteq structured'[a]
      /\ \A b \in Agent \ {a} : /\ structured'[b] = structured[b]
                                /\ simple'[b] = simple[b]
                                /\ extracted'[b] = extracted[b]
  BY RefreshAgentEffect DEF SkillsInv
<1>2. \A b \in Agent \ {a} : agentIs'[b] = agentIs[b]
  BY DEF SkillsInv, SkillsTypes
<1>3. SkillsTypes'
  <2>1. agentIs' \in [Agent -> {"unborn", "there", "deleted"}]
    BY DEF SkillsInv, SkillsTypes
  <2>2. cached' \subseteq {b \in Agent : agentIs'[b] # "unborn"}
    BY <1>2 DEF SkillsInv, SkillsTypes, cacheVars
  <2>3. QED
    BY <1>1, <2>1, <2>2 DEF SkillsInv, SkillsTypes, cacheVars, ratingVars
<1>4. UnbornIsUnknown' /\ RegisteredIsKept'
  BY <1>1, <1>2 DEF SkillsInv, UnbornIsUnknown, RegisteredIsKept, Agents
<1>5. StaleIsDue' /\ RatingIsOnFile'
  BY DEF SkillsInv, StaleIsDue, RatingIsOnFile, cacheVars, ratingVars
<1>6. QED
  BY <1>3, <1>4, <1>5 DEF SkillsInv

\* The cache is read anew (skill-cache.js:54).
LEMMA RefreshKeeps ==
  ASSUME SkillsInv, Refresh, refreshDue' \in BOOLEAN, UNCHANGED <<registered, ratingVars, skillsUp>>
  PROVE  SkillsInv'
<1>1. /\ cached' = {a \in Agents : SkillsOf(a) # {}}
      /\ calls' = [a \in Agent |->
           IF a \in cached' THEN (IF a \in cached THEN calls[a] ELSE ratedAtBoot[a]) ELSE NoCalls]
      /\ indexed' = [s \in Skill |-> FoundUnder(s)]
      /\ unannounced' = {}
  BY DEF Refresh
<1>2. /\ \A s \in Skill : FoundUnder(s)' = FoundUnder(s)
      /\ Agents' = Agents
  BY DEF FoundUnder, Agents, SkillsOf, registered
<1>3. NoCalls \in Ratings
  BY DEF NoCalls, Ratings
<1>4. SkillsTypes'
  <2>1. calls' \in [Agent -> Ratings] /\ \A a \in Agent \ cached' : calls'[a] = NoCalls
    BY <1>1, <1>3 DEF SkillsInv, SkillsTypes
  <2>2. cached' \subseteq {a \in Agent : agentIs'[a] # "unborn"}
    BY <1>1 DEF Agents, registered
  <2>3. indexed' \in [Skill -> SUBSET cached']
    BY <1>1 DEF FoundUnder, SkillsOf
  <2>4. QED
    BY <1>1, <2>1, <2>2, <2>3 DEF SkillsInv, SkillsTypes, registered, ratingVars
<1>5. UnbornIsUnknown' /\ RegisteredIsKept'
  BY DEF SkillsInv, UnbornIsUnknown, RegisteredIsKept, Agents, registered
<1>6. StaleIsDue'
  BY <1>1, <1>2 DEF StaleIsDue
<1>7. RatingIsOnFile'
  BY <1>1 DEF SkillsInv, RatingIsOnFile, ratingVars, Agents
<1>8. QED
  BY <1>4, <1>5, <1>6, <1>7 DEF SkillsInv

\* The ratings are written, or the file is left as it was or cut short.
RatingsWritten ==
  \/ ratingsFile' = SavedRatings(calls') /\ ratingsUnsaved' = FALSE
  \/ ratingsFile' \in {ratingsFile, [b \in Agent |-> NoCalls]} /\ ratingsUnsaved' = TRUE

\* What a rating changes.
LEMMA RatedEffect ==
  ASSUME NEW success \in BOOLEAN
  PROVE  /\ \A c \in Ratings : Rated(c, success) \in Ratings
         /\ \A c \in Ratings : Made(Rated(c, success)) >= Made(c)
         /\ \A a \in Agent : UpdateRating(a, success) =>
               /\ calls' = [calls EXCEPT ![a] = Rated(calls[a], success)]
               /\ RatingsWritten
<1>1. \A c \in Ratings : Rated(c, success) \in Ratings /\ Made(Rated(c, success)) >= Made(c)
  BY DEF Rated, Ratings, Made
<1>2. ASSUME NEW a \in Agent, UpdateRating(a, success)
      PROVE  /\ calls' = [calls EXCEPT ![a] = Rated(calls[a], success)]
             /\ RatingsWritten
  BY <1>2 DEF UpdateRating, RatingsWritten
<1>3. QED
  BY <1>1, <1>2

\* A run is rated (skill-cache.js:236).
LEMMA RatingKeeps ==
  ASSUME SkillsInv, NEW a \in Agent, NEW success \in BOOLEAN, UpdateRating(a, success)
  PROVE  SkillsInv'
<1>1. /\ calls' = [calls EXCEPT ![a] = Rated(calls[a], success)]
      /\ RatingsWritten
      /\ a \in cached
      /\ UNCHANGED <<registered, cached, indexed, unannounced, ratedAtBoot, refreshDue, skillsUp>>
  BY RatedEffect DEF UpdateRating
<1>2. calls' \in [Agent -> Ratings]
  BY <1>1, RatedEffect DEF SkillsInv, SkillsTypes
<1>3. /\ ratingsFile' \in [Agent -> Ratings] /\ ratingsUnsaved' \in BOOLEAN
      /\ ~ratingsUnsaved' => \A b \in cached : ratingsFile'[b] = calls'[b]
  <2>1. NoCalls \in Ratings
    BY DEF NoCalls, Ratings
  <2>2. CASE ratingsFile' = SavedRatings(calls') /\ ratingsUnsaved' = FALSE
    BY <1>2, <2>1, <2>2 DEF SavedRatings, SkillsInv, SkillsTypes
  <2>3. CASE ratingsFile' \in {ratingsFile, [b \in Agent |-> NoCalls]} /\ ratingsUnsaved' = TRUE
    BY <2>1, <2>3 DEF SkillsInv, SkillsTypes
  <2>4. QED
    BY <1>1, <2>2, <2>3 DEF RatingsWritten
<1>4. SkillsTypes'
  BY <1>1, <1>2, <1>3 DEF SkillsInv, SkillsTypes, registered
<1>5. UnbornIsUnknown' /\ RegisteredIsKept' /\ StaleIsDue'
  BY <1>1 DEF SkillsInv, UnbornIsUnknown, RegisteredIsKept, StaleIsDue, Agents, registered, FoundUnder, SkillsOf
<1>6. RatingIsOnFile'
  BY <1>1, <1>3 DEF RatingIsOnFile
<1>7. QED
  BY <1>4, <1>5, <1>6 DEF SkillsInv

\* What a set of steps leaves when only the names of one agent change.
LEMMA SoulKeeps ==
  ASSUME SkillsInv, NEW a \in Agent, NEW S \in SUBSET Named, EditSoul(a, S)
  PROVE  SkillsInv'
<1>1. UNCHANGED <<agentIs, simple, structured, manual, withSchema, extracted, cacheVars,
                  ratingVars, refreshDue, skillsUp>>
  BY DEF EditSoul
<1>2. soulSays' \in [Agent -> SUBSET Skill]
  BY DEF EditSoul, SkillsInv, SkillsTypes, Skill
<1>3. SkillsTypes'
  BY <1>1, <1>2 DEF SkillsInv, SkillsTypes, cacheVars, ratingVars
<1>4. UnbornIsUnknown' /\ RegisteredIsKept' /\ StaleIsDue' /\ RatingIsOnFile'
  BY <1>1 DEF SkillsInv, UnbornIsUnknown, RegisteredIsKept, StaleIsDue, Agents, FoundUnder,
              SkillsOf, cacheVars, ratingVars, RatingIsOnFile
<1>5. QED
  BY <1>3, <1>4 DEF SkillsInv

\* A change to one agent that no refresh is asked for leaves its place in the index, which is
\* the others' only, to a later one.
LEMMA UntoldKeeps ==
  ASSUME SkillsInv, NEW a \in Agent, a \in unannounced' \/ refreshDue',
         unannounced' \subseteq Agent, unannounced \subseteq unannounced',
         refreshDue' \in BOOLEAN, refreshDue => refreshDue',
         agentIs' \in [Agent -> {"unborn", "there", "deleted"}],
         simple' \in [Agent -> SUBSET Skill], structured' \in [Agent -> SUBSET Skill],
         \A b \in Agent \ {a} : /\ agentIs'[b] = agentIs[b]
                                /\ simple'[b] = simple[b]
                                /\ structured'[b] = structured[b],
         UNCHANGED <<extracted, indexed, skillsUp>>
  PROVE  StaleIsDue'
<1> SUFFICES ASSUME skillsUp', ~refreshDue', NEW s \in Skill
             PROVE  indexed'[s] \ unannounced' = FoundUnder(s)' \ unannounced'
  BY DEF StaleIsDue
<1>1. indexed[s] \ unannounced = FoundUnder(s) \ unannounced
  BY DEF SkillsInv, StaleIsDue
<1>2. \A b \in Agent \ {a} : b \in FoundUnder(s)' <=> b \in FoundUnder(s)
  BY DEF FoundUnder, Agents, SkillsOf
<1>3. FoundUnder(s)' \subseteq Agent /\ FoundUnder(s) \subseteq Agent
  BY DEF FoundUnder, Agents
<1>4. indexed' = indexed /\ indexed[s] \subseteq Agent
  BY DEF SkillsInv, SkillsTypes
<1>5. a \in unannounced'
  OBVIOUS
<1>6. ASSUME NEW b \in Agent, b \notin unannounced'
      PROVE  b \in indexed'[s] <=> b \in FoundUnder(s)'
  BY <1>1, <1>2, <1>4, <1>5, <1>6
<1>7. QED
  BY <1>3, <1>4, <1>6

\* A user replaces the capabilities of an agent (http-server.js:1550).
LEMMA ReplaceKeeps ==
  ASSUME SkillsInv, NEW a \in Agent, NEW S \in SUBSET ByHand, ReplaceCapabilities(a, S)
  PROVE  SkillsInv'
<1>1. /\ simple' \in [Agent -> SUBSET Skill] /\ structured' \in [Agent -> SUBSET Skill]
      /\ manual' \in [Agent -> SUBSET Skill] /\ withSchema' \subseteq Agent
      /\ unannounced' = unannounced \cup {a}
      /\ simple'[a] = {} /\ structured'[a] = S /\ manual'[a] = S
      /\ \A b \in Agent \ {a} : /\ simple'[b] = simple[b] /\ structured'[b] = structured[b]
                                /\ manual'[b] = manual[b]
  BY DEF ReplaceCapabilities, SkillsInv, SkillsTypes, Skill
<1>2. /\ agentIs[a] = "there"
      /\ UNCHANGED <<agentIs, soulSays, extracted, cached, calls, indexed, ratingVars,
                     refreshDue, skillsUp>>
  BY DEF ReplaceCapabilities, Agents
<1>3. SkillsTypes'
  BY <1>1, <1>2 DEF SkillsInv, SkillsTypes, ratingVars
<1>4. UnbornIsUnknown'
  BY <1>1, <1>2 DEF SkillsInv, UnbornIsUnknown
<1>5. RegisteredIsKept'
  BY <1>1, <1>2 DEF SkillsInv, RegisteredIsKept, Agents
<1>6. RatingIsOnFile'
  BY <1>2 DEF SkillsInv, RatingIsOnFile, ratingVars
<1>7. StaleIsDue'
  <2>1. a \in unannounced' /\ unannounced' \subseteq Agent /\ unannounced \subseteq unannounced'
    BY <1>1 DEF SkillsInv, SkillsTypes
  <2>2. /\ refreshDue' \in BOOLEAN /\ (refreshDue => refreshDue')
        /\ agentIs' \in [Agent -> {"unborn", "there", "deleted"}]
    BY <1>2 DEF SkillsInv, SkillsTypes
  <2>3. QED
    BY <1>1, <1>2, <2>1, <2>2, UntoldKeeps
<1>8. QED
  BY <1>3, <1>4, <1>5, <1>6, <1>7 DEF SkillsInv

\* An agent is deleted (http-server.js:1519).
LEMMA DropKeeps ==
  ASSUME SkillsInv, NEW a \in Agent, NEW told \in BOOLEAN, DropAgent(a, told)
  PROVE  SkillsInv'
<1>1. /\ simple' \in [Agent -> SUBSET Skill] /\ structured' \in [Agent -> SUBSET Skill]
      /\ manual' \in [Agent -> SUBSET Skill] /\ withSchema' \subseteq Agent
      /\ soulSays' \in [Agent -> SUBSET Skill]
      /\ simple'[a] = {} /\ structured'[a] = {} /\ manual'[a] = {}
      /\ \A b \in Agent \ {a} : /\ simple'[b] = simple[b] /\ structured'[b] = structured[b]
                                /\ manual'[b] = manual[b]
  BY DEF DropAgent, SkillsInv, SkillsTypes
<1>2. /\ agentIs' \in [Agent -> {"unborn", "there", "deleted"}]
      /\ agentIs'[a] = "deleted" /\ agentIs[a] = "there"
      /\ \A b \in Agent \ {a} : agentIs'[b] = agentIs[b]
  BY DEF DropAgent, Agents, SkillsInv, SkillsTypes
<1>3. /\ refreshDue' = (refreshDue \/ told)
      /\ unannounced' = IF told THEN unannounced ELSE unannounced \cup {a}
      /\ UNCHANGED <<extracted, cached, calls, indexed, ratingVars, skillsUp>>
  BY DEF DropAgent
<1>4. refreshDue' \in BOOLEAN /\ unannounced' \subseteq Agent
  BY <1>3 DEF SkillsInv, SkillsTypes
<1>5. SkillsTypes'
  <2>1. cached' \subseteq {b \in Agent : agentIs'[b] # "unborn"}
    BY <1>2, <1>3 DEF SkillsInv, SkillsTypes
  <2>2. QED
    BY <1>1, <1>2, <1>3, <1>4, <2>1 DEF SkillsInv, SkillsTypes, ratingVars
<1>6. UnbornIsUnknown'
  BY <1>1, <1>2, <1>3 DEF SkillsInv, UnbornIsUnknown
<1>7. RegisteredIsKept'
  BY <1>1, <1>2 DEF SkillsInv, RegisteredIsKept, Agents
<1>8. RatingIsOnFile'
  BY <1>3 DEF SkillsInv, RatingIsOnFile, ratingVars
<1>9. StaleIsDue'
  <2>1. (a \in unannounced' \/ refreshDue') /\ unannounced \subseteq unannounced'
        /\ (refreshDue => refreshDue')
    BY <1>3
  <2>2. QED
    BY <1>1, <1>2, <1>3, <1>4, <2>1, UntoldKeeps
<1>10. QED
  BY <1>5, <1>6, <1>7, <1>8, <1>9 DEF SkillsInv

\* An agent that is made with a workspace: nothing is known of it, so no index is stale.
LEMMA NewWithWorkspaceKeeps ==
  ASSUME SkillsInv, NEW a \in Agent, NEW S \in SUBSET Named, NewWithWorkspace(a, S)
  PROVE  SkillsInv'
<1>1. /\ agentIs[a] = "unborn" /\ agentIs'[a] = "there"
      /\ \A b \in Agent \ {a} : agentIs'[b] = agentIs[b]
      /\ agentIs' \in [Agent -> {"unborn", "there", "deleted"}]
      /\ soulSays' \in [Agent -> SUBSET Skill]
      /\ UNCHANGED <<simple, structured, manual, withSchema, extracted, cacheVars, ratingVars,
                     refreshDue, skillsUp>>
  BY DEF NewWithWorkspace, SkillsInv, SkillsTypes, Skill
<1>2. simple[a] = {} /\ structured[a] = {} /\ manual[a] = {} /\ extracted[a] = {}
  BY <1>1 DEF SkillsInv, UnbornIsUnknown
<1>3. SkillsTypes'
  <2>1. cached' \subseteq {b \in Agent : agentIs'[b] # "unborn"}
    BY <1>1 DEF SkillsInv, SkillsTypes, cacheVars
  <2>2. QED
    BY <1>1, <2>1 DEF SkillsInv, SkillsTypes, cacheVars, ratingVars
<1>4. UnbornIsUnknown' /\ RegisteredIsKept'
  BY <1>1, <1>2 DEF SkillsInv, UnbornIsUnknown, RegisteredIsKept, Agents
<1>5. \A s \in Skill : FoundUnder(s)' = FoundUnder(s)
  BY <1>1, <1>2 DEF FoundUnder, Agents, SkillsOf
<1>6. StaleIsDue' /\ RatingIsOnFile'
  BY <1>1, <1>5 DEF SkillsInv, StaleIsDue, RatingIsOnFile, cacheVars, ratingVars
<1>7. QED
  BY <1>3, <1>4, <1>6 DEF SkillsInv

\* The end of the program, perhaps while it writes.
LEMMA EndKeeps ==
  ASSUME SkillsInv, SkillsEnd \/ CrashInSave
  PROVE  SkillsInv'
<1>1. /\ MemoryGone
      /\ UNCHANGED <<agentIs, soulSays, simple, structured, manual, withSchema>>
      /\ ratingsFile' \in {ratingsFile, [a \in Agent |-> NoCalls]}
  BY DEF SkillsEnd, CrashInSave
<1>2. NoCalls \in Ratings
  BY DEF NoCalls, Ratings
<1>3. SkillsTypes'
  <2>1. calls' \in [Agent -> Ratings] /\ ratedAtBoot' \in [Agent -> Ratings]
        /\ ratingsFile' \in [Agent -> Ratings]
    BY <1>1, <1>2 DEF MemoryGone, SkillsInv, SkillsTypes
  <2>2. QED
    BY <1>1, <2>1 DEF SkillsInv, SkillsTypes, MemoryGone, None
<1>4. UnbornIsUnknown' /\ RegisteredIsKept'
  BY <1>1 DEF SkillsInv, UnbornIsUnknown, RegisteredIsKept, Agents, MemoryGone, None
<1>5. StaleIsDue' /\ RatingIsOnFile'
  BY <1>1 DEF MemoryGone, StaleIsDue, RatingIsOnFile
<1>6. QED
  BY <1>3, <1>4, <1>5 DEF SkillsInv

\* The boot reads souls, agents.json and ratings (index.js:354).
LEMMA BootKeeps ==
  ASSUME SkillsInv, NEW lost \in SUBSET Agents, SkillsBoot(lost)
  PROVE  SkillsInv'
<1> DEFINE read(a) == IF agentIs[a] = "there" THEN Extracted(a, soulSays) ELSE {}
           names(a) == IF a \in withSchema \cup lost \/ read(a) = {} THEN structured[a]
                       ELSE structured[a] \cup read(a)
           has(a) == IF agentIs[a] = "there" THEN read(a) \cup names(a) ELSE {}
<1>1. /\ skillsUp' = TRUE
      /\ extracted' = [a \in Agent |-> read(a)]
      /\ simple' = [a \in Agent |->
           IF agentIs[a] = "there" /\ a \notin lost THEN read(a) ELSE simple[a]]
      /\ structured' = [a \in Agent |-> IF agentIs[a] = "there" THEN names(a) ELSE structured[a]]
      /\ ratedAtBoot' = ratingsFile
      /\ cached' = {a \in Agent : has(a) # {}}
      /\ calls' = [a \in Agent |-> IF has(a) # {} THEN ratingsFile[a] ELSE NoCalls]
      /\ indexed' = [s \in Skill |-> {a \in Agent : s \in has(a)}]
      /\ refreshDue' = FALSE
      /\ unannounced' = {}
      /\ UNCHANGED <<agentIs, soulSays, manual, withSchema, ratingsFile, ratingsUnsaved>>
  BY DEF SkillsBoot
<1>2. \A a \in Agent : /\ read(a) \in SUBSET Skill /\ names(a) \in SUBSET Skill
                       /\ structured[a] \subseteq names(a)
                       /\ agentIs[a] = "unborn" => read(a) = {}
                       /\ agentIs[a] = "there" => simple[a] \subseteq read(a)
  BY DEF Extracted, SkillsInv, SkillsTypes
<1>3. \A a \in Agent : has(a) # {} => agentIs[a] = "there"
  OBVIOUS
<1>4. \A a \in Agent : agentIs[a] = "there" => has(a) = read(a) \cup names(a)
  OBVIOUS
<1> HIDE DEF read, names, has
<1>5. NoCalls \in Ratings
  BY DEF NoCalls, Ratings
<1>6. SkillsTypes'
  <2>1. /\ extracted' \in [Agent -> SUBSET Skill] /\ simple' \in [Agent -> SUBSET Skill]
        /\ structured' \in [Agent -> SUBSET Skill]
    BY <1>1, <1>2 DEF SkillsInv, SkillsTypes
  <2>2. calls' \in [Agent -> Ratings] /\ ratedAtBoot' \in [Agent -> Ratings]
    BY <1>1, <1>5 DEF SkillsInv, SkillsTypes
  <2>3. cached' \subseteq {a \in Agent : agentIs'[a] # "unborn"}
    BY <1>1, <1>3
  <2>4. indexed' \in [Skill -> SUBSET cached']
    BY <1>1
  <2>5. \A a \in Agent \ cached' : calls'[a] = NoCalls
    BY <1>1
  <2>6. QED
    BY <1>1, <2>1, <2>2, <2>3, <2>4, <2>5 DEF SkillsInv, SkillsTypes
<1>7. UnbornIsUnknown'
  BY <1>1, <1>2 DEF SkillsInv, UnbornIsUnknown
<1>8. RegisteredIsKept'
  BY <1>1, <1>2 DEF SkillsInv, RegisteredIsKept, Agents
<1>9. RatingIsOnFile'
  BY <1>1 DEF RatingIsOnFile
<1>10. StaleIsDue'
  <2> SUFFICES ASSUME NEW s \in Skill, NEW a \in Agent
               PROVE  a \in indexed'[s] <=> a \in FoundUnder(s)'
    BY <1>1 DEF StaleIsDue, FoundUnder, Agents
  <2>1. CASE agentIs[a] = "there"
    <3>1. SkillsOf(a)' = has(a)
      BY <1>1, <1>2, <1>4, <2>1 DEF SkillsOf
    <3>2. QED
      BY <1>1, <2>1, <3>1 DEF FoundUnder, Agents
  <2>2. CASE agentIs[a] # "there"
    BY <1>1, <1>3, <2>2 DEF FoundUnder, Agents
  <2>3. QED
    BY <2>1, <2>2
<1>11. QED
  BY <1>6, <1>7, <1>8, <1>9, <1>10 DEF SkillsInv

\* Every step keeps the invariant.
LEMMA SkillsStep == SkillsInv /\ [SkillsNext]_skillVars => SkillsInv'
<1> SUFFICES ASSUME SkillsInv, [SkillsNext]_skillVars PROVE SkillsInv'
  OBVIOUS
<1>1. ASSUME NEW a \in Agent, NEW S \in SUBSET Named, SaveSoul(a, S) \/ NewAgent(a, S)
      PROVE  SkillsInv'
  <2>1. CASE SaveSoul(a, S)
    <3>1. /\ RefreshAgent(a, structured[a]) /\ structured[a] \in SUBSET Skill
          /\ soulSays' \in [Agent -> SUBSET Skill] /\ agentIs' = agentIs /\ agentIs'[a] = "there"
          /\ manual' = manual /\ withSchema' = withSchema /\ refreshDue' = TRUE
          /\ UNCHANGED <<cacheVars, ratingVars, skillsUp>>
      BY <2>1 DEF SaveSoul, Agents, SkillsInv, SkillsTypes, Skill
    <3>2. manual'[a] \subseteq structured[a] /\ manual' \in [Agent -> SUBSET Skill]
          /\ withSchema' \subseteq Agent
      BY <3>1 DEF SkillsInv, SkillsTypes, RegisteredIsKept, Agents
    <3>3. QED
      BY <3>1, <3>2, RouteKeeps
  <2>2. CASE NewAgent(a, S)
    <3>1. /\ RefreshAgent(a, {}) /\ soulSays' \in [Agent -> SUBSET Skill]
          /\ agentIs' = [agentIs EXCEPT ![a] = "there"] /\ agentIs'[a] = "there"
          /\ manual' = manual /\ withSchema' = withSchema /\ refreshDue' = TRUE
          /\ UNCHANGED <<cacheVars, ratingVars, skillsUp>>
      BY <2>2 DEF NewAgent, SkillsInv, SkillsTypes, Skill
    <3>2. manual'[a] = {} /\ manual' \in [Agent -> SUBSET Skill] /\ withSchema' \subseteq Agent
      BY <2>2, <3>1 DEF NewAgent, SkillsInv, SkillsTypes, UnbornIsUnknown
    <3>3. manual'[a] \subseteq {} /\ {} \in SUBSET Skill
      BY <3>2
    <3>4. QED
      BY <3>1, <3>2, <3>3, RouteKeeps
  <2>3. QED
    BY <1>1, <2>1, <2>2
<1>2. ASSUME NEW a \in Agent, NEW s \in ByHand, NEW schema \in BOOLEAN,
             RegisterSkill(a, s, schema)
      PROVE  SkillsInv'
  <2> DEFINE base == structured[a] \cup {s}
  <2>1. /\ RefreshAgent(a, base) /\ base \in SUBSET Skill
        /\ soulSays' = soulSays /\ agentIs' = agentIs /\ agentIs'[a] = "there"
        /\ refreshDue' = TRUE /\ withSchema' \subseteq Agent
        /\ manual' = [manual EXCEPT ![a] = @ \cup {s}]
        /\ UNCHANGED <<cacheVars, ratingVars, skillsUp>>
    BY <1>2 DEF RegisterSkill, Agents, SkillsInv, SkillsTypes, Skill
  <2>2. /\ manual' \in [Agent -> SUBSET Skill] /\ manual'[a] \subseteq base
        /\ \A b \in Agent \ {a} : manual'[b] = manual[b]
        /\ soulSays' \in [Agent -> SUBSET Skill]
    BY <2>1 DEF SkillsInv, SkillsTypes, RegisteredIsKept, Agents, Skill
  <2> HIDE DEF base
  <2>3. QED
    BY <2>1, <2>2, RouteKeeps
<1>3. ASSUME NEW a \in Agent, NEW S \in SUBSET Named, EditSoul(a, S) \/ NewWithWorkspace(a, S)
      PROVE  SkillsInv'
  BY <1>3, SoulKeeps, NewWithWorkspaceKeeps
<1>4. ASSUME NEW a \in Agent, NEW S \in SUBSET ByHand, ReplaceCapabilities(a, S)
      PROVE  SkillsInv'
  BY <1>4, ReplaceKeeps
<1>5. ASSUME NEW a \in Agent, NEW b \in BOOLEAN, UpdateRating(a, b) \/ DropAgent(a, b)
      PROVE  SkillsInv'
  BY <1>5, RatingKeeps, DropKeeps
<1>6. CASE RefreshNow \/ AutoRefresh
  <2>1. Refresh /\ refreshDue' \in BOOLEAN /\ UNCHANGED <<registered, ratingVars, skillsUp>>
    BY <1>6 DEF RefreshNow, AutoRefresh, SkillsInv, SkillsTypes
  <2>2. QED
    BY <2>1, RefreshKeeps
<1>7. CASE SkillsEnd \/ CrashInSave \/ \E lost \in SUBSET Agents : SkillsBoot(lost)
  BY <1>7, EndKeeps, BootKeeps
<1>8. CASE UNCHANGED skillVars
  BY <1>8 DEF skillVars, registered, cacheVars, ratingVars, SkillsInv, SkillsTypes,
      UnbornIsUnknown, StaleIsDue, RegisteredIsKept, RatingIsOnFile, Agents, FoundUnder, SkillsOf
<1>9. QED
  BY <1>1, <1>2, <1>3, <1>4, <1>5, <1>6, <1>7, <1>8 DEF SkillsNext

\* The invariant of the skills holds always.
LEMMA SkillsSafe == SkillsInit /\ [][SkillsNext]_skillVars => []SkillsInv
<1>1. SkillsInit => SkillsInv
  <2>1. NoCalls \in Ratings
    BY DEF NoCalls, Ratings
  <2>2. ASSUME SkillsInit PROVE SkillsTypes
    <3>1. soulSays \in [Agent -> SUBSET Skill] /\ calls \in [Agent -> Ratings]
      BY <2>1, <2>2 DEF SkillsInit
    <3>2. agentIs \in [Agent -> {"unborn", "there", "deleted"}]
      BY <2>2 DEF SkillsInit
    <3>3. QED
      BY <2>2, <3>1, <3>2 DEF SkillsInit, SkillsTypes
  <2>3. QED
    BY <2>2 DEF SkillsInit, SkillsInv, UnbornIsUnknown, StaleIsDue, RegisteredIsKept,
                RatingIsOnFile, Agents, FoundUnder
<1>2. QED
  BY <1>1, SkillsStep, PTL

\* What the invariant is for.
LEMMA SkillsTyped ==
  SkillsInv => SkillsTypeOK /\ StaleIsDue /\ RegisteredIsKept /\ RatingIsOnFile
BY DEF SkillsInv, SkillsTypes, SkillsTypeOK

\* An agent that stays in the cache keeps every rating it was given.
LEMMA RatingStays ==
  ASSUME SkillsInv, [SkillsNext]_skillVars, NEW a \in cached \cap cached', skillsUp, skillsUp'
  PROVE  Made(calls'[a]) >= Made(calls[a])
<1>1. a \in Agent /\ calls[a] \in Ratings
  BY DEF SkillsInv, SkillsTypes
<1>2. Made(calls[a]) >= Made(calls[a])
  BY <1>1 DEF Made, Ratings
<1>3. ASSUME NEW b \in Agent, NEW success \in BOOLEAN, UpdateRating(b, success)
      PROVE  Made(calls'[a]) >= Made(calls[a])
  <2>1. calls[b] \in Ratings /\ calls \in [Agent -> Ratings]
    BY DEF SkillsInv, SkillsTypes
  <2>2. Made(Rated(calls[b], success)) >= Made(calls[b])
    BY <2>1, RatedEffect
  <2>3. calls' = [calls EXCEPT ![b] = Rated(calls[b], success)]
    BY <1>3, RatedEffect
  <2>4. QED
    BY <1>1, <1>2, <2>1, <2>2, <2>3
<1>4. ASSUME Refresh
      PROVE  calls'[a] = calls[a]
  BY <1>1, <1>4 DEF Refresh
<1>5. CASE RefreshNow \/ AutoRefresh
  BY <1>2, <1>4, <1>5 DEF RefreshNow, AutoRefresh
<1>6. ASSUME calls' = calls
      PROVE  Made(calls'[a]) >= Made(calls[a])
  BY <1>2, <1>6
<1>7. CASE ~(RefreshNow \/ AutoRefresh \/ \E b \in Agent, success \in BOOLEAN : UpdateRating(b, success))
  <2>1. calls' = calls
    BY <1>7 DEF SkillsNext, SaveSoul, EditSoul, NewAgent, NewWithWorkspace, ReplaceCapabilities,
          RegisterSkill, DropAgent, SkillsEnd, CrashInSave, SkillsBoot, MemoryGone, cacheVars,
          skillVars
  <2>2. QED
    BY <1>6, <2>1
<1>8. QED
  BY <1>3, <1>5, <1>7

\* No step takes a rating back (skill-cache.js:368).
LEMMA RatingsKept == SkillsInv /\ [SkillsNext]_skillVars => RatingsStay
BY RatingStays DEF RatingsStay

-------------------------------------------------------------------------------
\* Which agent or model is chosen (model-resolver.js).

\* The members of a finite set of numbers have every rank below its size.
LEMMA Ranked ==
  ASSUME NEW S \in SUBSET Nat, IsFiniteSet(S), NEW k \in Nat, k < Cardinality(S),
         NEW N \in Nat, \A i \in S : i <= N
  PROVE  \E i \in S : Cardinality({j \in S : j < i}) = k
<1> DEFINE Below(n) == {j \in S : j < n}
           Above == {n \in Nat : Cardinality(Below(n)) > k}
<1>1. \A n \in Nat : IsFiniteSet(Below(n)) /\ Cardinality(Below(n)) \in Nat
  BY FS_Subset, FS_CardinalityType
<1>2. Below(0) = {} /\ Cardinality(Below(0)) = 0
  <2>1. \A j \in S : j \in Nat /\ ~ (j < 0)
    OBVIOUS
  <2>2. Below(0) = {}
    BY <2>1
  <2> HIDE DEF Below
  <2>3. QED
    BY <2>2, FS_EmptySet
<1>3. Below(N + 1) = S
  <2>1. \A j \in S : j < N + 1
    OBVIOUS
  <2>2. QED
    BY <2>1
<1>4. N + 1 \in Above
  BY <1>3
<1>5. PICK n \in Above : \A m \in Above : n <= m
  <2> HIDE DEF Above
  <2>1. Above \in SUBSET Nat
    BY DEF Above
  <2>2. QED
    BY <1>4, <2>1, Smallest
<1>6. n \in Nat /\ n # 0 /\ Cardinality(Below(n)) > k
  BY <1>2, <1>5
<1>7. n - 1 \in Nat /\ ~ (Cardinality(Below(n - 1)) > k)
  BY <1>5, <1>6
<1> DEFINE i == n - 1
<1>8. Below(n) = IF i \in S THEN Below(i) \cup {i} ELSE Below(i)
  <2>1. \A j \in S : j < n <=> j < i \/ j = i
    BY <1>6
  <2>2. ASSUME NEW j
        PROVE  j \in Below(n) <=> j \in Below(i) \/ (j = i /\ i \in S)
    BY <2>1
  <2> HIDE DEF Below, i
  <2>3. QED
    BY <2>2
<1>9. i \in S
  BY <1>6, <1>7, <1>8
<1>10. i \notin Below(i) /\ i \in Nat
  BY <1>7
<1> HIDE DEF i
<1>11. Cardinality(Below(n)) = Cardinality(Below(i)) + 1
  <2>1. Below(n) = Below(i) \cup {i}
    BY <1>8, <1>9
  <2> HIDE DEF Below
  <2>2. Cardinality(Below(i) \cup {i}) = Cardinality(Below(i)) + 1
    BY <1>1, <1>10, FS_AddElement
  <2>3. QED
    BY <2>1, <2>2
<1>12. Cardinality(Below(i)) = k
  <2> HIDE DEF Below
  <2>1. Cardinality(Below(i)) <= k /\ Cardinality(Below(i)) \in Nat
    BY <1>1, <1>7, <1>10 DEF i
  <2>2. QED
    BY <1>6, <1>11, <2>1
<1>13. QED
  BY <1>9, <1>12

\* Whoever is selected is available.
LEMMA SelectedAvailable ==
  ASSUME nextInTurn \in Nat, Available # {}
  PROVE  Selected \in Available
<1>1. /\ Available \in SUBSET Nat /\ IsFiniteSet(Available)
      /\ \A p \in Available : p <= Providers
  <2>1. IsFiniteSet(1 .. Providers) /\ Available \subseteq 1 .. Providers /\ Providers \in Nat
    BY ResolverAssumption, FS_Interval DEF Available, Provider
  <2>2. IsFiniteSet(Available)
    BY <2>1, FS_Subset
  <2>3. QED
    BY <2>1, <2>2
<1>2. Cardinality(Available) \in Nat /\ Cardinality(Available) # 0
  BY <1>1, FS_CardinalityType, FS_EmptySet
<1>3. CASE RoundRobin
  <2>1. /\ nextInTurn % Cardinality(Available) \in Nat
        /\ nextInTurn % Cardinality(Available) < Cardinality(Available)
    BY <1>2
  <2>2. \E p \in Available :
          Cardinality({q \in Available : q < p}) = nextInTurn % Cardinality(Available)
    BY <1>1, <2>1, Ranked, ResolverAssumption
  <2>3. QED
    BY <1>3, <2>2 DEF Selected
<1>4. CASE ~RoundRobin
  <2>1. \E p \in Available : \A q \in Available : p <= q
    BY <1>1, Smallest
  <2>2. QED
    BY <1>4, <2>1 DEF Selected, Min
<1>5. QED
  BY <1>3, <1>4

\* What a choice leaves of the states of the providers.
LEMMA ResolveKeeps ==
  ASSUME ResolverTypeOK, NEW p \in Provider, Resolve(p)
  PROVE  /\ healthy' \in [Provider -> BOOLEAN] /\ failures' \in [Provider -> 0 .. maxFailures]
         /\ coolingFor' \in [Provider -> 0 .. cooldown]
         /\ limitedFor' \in [Provider -> 0 .. rateLimitCooldown]
         /\ nextInTurn' \in 0 .. Turns - 1
         /\ \A q \in Provider : /\ ~healthy'[q] => failures'[q] = maxFailures
                                /\ coolingFor'[q] > 0 => ~healthy'[q]
<1>1. CASE UNCHANGED states /\ nextInTurn' = IF RoundRobin THEN (nextInTurn + 1) % Turns ELSE nextInTurn
  <2>1. nextInTurn' \in 0 .. Turns - 1
    BY <1>1, ResolverAssumption DEF ResolverTypeOK
  <2>2. QED
    BY <1>1, <2>1 DEF states, ResolverTypeOK
<1>2. CASE /\ healthy' = Everywhere(TRUE) /\ failures' = Everywhere(0)
           /\ coolingFor' = Everywhere(0) /\ limitedFor' = Everywhere(0)
           /\ UNCHANGED nextInTurn
  <2>1. 0 \in 0 .. maxFailures /\ 0 \in 0 .. cooldown /\ 0 \in 0 .. rateLimitCooldown
    BY ResolverAssumption
  <2>2. QED
    BY <1>2, <2>1 DEF Everywhere, ResolverTypeOK
<1>3. QED
  BY <1>1, <1>2 DEF Resolve

\* Types are kept, and those available are asked in turn.
LEMMA ResolverStep == ResolverTypeOK /\ [ResolverNext]_resolverVars => ResolverTypeOK'
<1> SUFFICES ASSUME ResolverTypeOK, [ResolverNext]_resolverVars PROVE ResolverTypeOK'
  OBVIOUS
<1>1. ASSUME NEW p \in Provider, CallProvider(p) \/ FailOver(p)
      PROVE  ResolverTypeOK'
  <2>1. Resolve(p)
    BY <1>1 DEF CallProvider, FailOver
  <2>2. trying' \in Provider /\ stage' \in {"idle", "calling", "failed", "again"}
    BY <1>1 DEF CallProvider, FailOver, ResolverTypeOK
  <2>3. QED
    BY <2>1, <2>2, ResolveKeeps DEF ResolverTypeOK
<1>2. CASE CallSucceeds
  <2>1. 0 \in 0 .. maxFailures /\ 0 \in 0 .. cooldown
    BY ResolverAssumption
  <2>2. QED
    BY <1>2, <2>1 DEF CallSucceeds, ResolverTypeOK
<1>3. ASSUME NEW limited \in BOOLEAN, CallFails(limited)
      PROVE  ResolverTypeOK'
  <2> DEFINE n == Min({failures[trying] + 1, maxFailures})
  <2>1. failures[trying] \in 0 .. maxFailures /\ trying \in Provider
    BY DEF ResolverTypeOK
  <2>2. n \in {failures[trying] + 1, maxFailures} /\ n <= maxFailures
    <3>1. \E x \in {failures[trying] + 1, maxFailures} :
             \A y \in {failures[trying] + 1, maxFailures} : x <= y
      BY <2>1, ResolverAssumption
    <3>2. QED
      BY <3>1, <2>1, ResolverAssumption DEF Min
  <2>3. n \in 0 .. maxFailures /\ (failures[trying] = maxFailures => n = maxFailures)
    BY <2>1, <2>2, ResolverAssumption
  <2>4. /\ failures' = [failures EXCEPT ![trying] = n]
        /\ limitedFor' = IF limited THEN [limitedFor EXCEPT ![trying] = rateLimitCooldown]
                         ELSE limitedFor
        /\ healthy' = [healthy EXCEPT ![trying] = healthy[trying] /\ (limited \/ n < maxFailures)]
        /\ coolingFor' = IF ~limited /\ n = maxFailures
                         THEN [coolingFor EXCEPT ![trying] = cooldown] ELSE coolingFor
        /\ stage' = "failed"
        /\ UNCHANGED <<nextInTurn, trying>>
    BY <1>3 DEF CallFails
  <2> HIDE DEF n
  <2>5. rateLimitCooldown \in 0 .. rateLimitCooldown /\ cooldown \in 0 .. cooldown
    BY ResolverAssumption
  <2>6. failures' \in [Provider -> 0 .. maxFailures]
    BY <2>3, <2>4 DEF ResolverTypeOK
  <2>7. limitedFor' \in [Provider -> 0 .. rateLimitCooldown]
    BY <2>4, <2>5 DEF ResolverTypeOK
  <2>8. coolingFor' \in [Provider -> 0 .. cooldown]
    BY <2>4, <2>5 DEF ResolverTypeOK
  <2>9. healthy' \in [Provider -> BOOLEAN]
    BY <2>4 DEF ResolverTypeOK
  <2>10. ASSUME NEW p \in Provider
         PROVE  /\ ~healthy'[p] => failures'[p] = maxFailures
                /\ coolingFor'[p] > 0 => ~healthy'[p]
    <3>1. CASE p # trying
      BY <3>1, <2>1, <2>4 DEF ResolverTypeOK
    <3>2. CASE p = trying
      <4>1. healthy'[p] <=> (healthy[p] /\ (limited \/ n < maxFailures))
        BY <3>2, <2>4 DEF ResolverTypeOK
      <4>2. failures'[p] = n
        BY <3>2, <2>4 DEF ResolverTypeOK
      <4>3. coolingFor'[p] > 0 => (~limited /\ n = maxFailures) \/ coolingFor[p] > 0
        BY <3>2, <2>4 DEF ResolverTypeOK
      <4>4. /\ ~healthy[p] => failures[p] = maxFailures
            /\ coolingFor[p] > 0 => ~healthy[p]
        BY DEF ResolverTypeOK
      <4>5. QED
        BY <3>2, <2>3, <4>1, <4>2, <4>3, <4>4, ResolverAssumption
    <3>3. QED
      BY <3>1, <3>2
  <2>11. QED
    BY <2>4, <2>6, <2>7, <2>8, <2>9, <2>10 DEF ResolverTypeOK
<1>4. CASE Elapses
  <2>1. /\ \A f \in [Provider -> 0 .. cooldown] :
              [p \in Provider |-> IF f[p] = 0 THEN 0 ELSE f[p] - 1] \in [Provider -> 0 .. cooldown]
        /\ \A f \in [Provider -> 0 .. rateLimitCooldown] :
              [p \in Provider |-> IF f[p] = 0 THEN 0 ELSE f[p] - 1]
                \in [Provider -> 0 .. rateLimitCooldown]
    BY ResolverAssumption
  <2>2. /\ coolingFor' = [p \in Provider |-> IF coolingFor[p] = 0 THEN 0 ELSE coolingFor[p] - 1]
        /\ limitedFor' = [p \in Provider |-> IF limitedFor[p] = 0 THEN 0 ELSE limitedFor[p] - 1]
        /\ UNCHANGED <<healthy, failures, nextInTurn, trying, stage>>
    BY <1>4 DEF Elapses
  <2>3. \A p \in Provider : coolingFor'[p] > 0 => coolingFor[p] > 0
    BY <2>2, ResolverAssumption DEF ResolverTypeOK
  <2>4. QED
    BY <2>1, <2>2, <2>3 DEF ResolverTypeOK
<1>5. CASE UNCHANGED resolverVars
  BY <1>5 DEF resolverVars, ResolverTypeOK
<1>6. QED
  BY <1>1, <1>2, <1>3, <1>4, <1>5 DEF ResolverNext

\* The types of the resolver are an invariant.
LEMMA ResolverSafe == ResolverInit /\ [][ResolverNext]_resolverVars => []ResolverTypeOK
<1>1. ResolverInit => ResolverTypeOK
  BY ResolverAssumption DEF ResolverInit, ResolverTypeOK, Everywhere, Provider
<1>2. QED
  BY <1>1, ResolverStep, PTL

\* A rate limited provider is asked only when nobody else is left.
LEMMA LimitedSpared ==
  ASSUME ResolverTypeOK, NEW p \in Provider, limitedFor[p] > 0, CallProvider(p) \/ FailOver(p)
  PROVE  \A q \in Provider : limitedFor[q] > 0 \/ coolingFor[q] > 0 \/ ~healthy[q]
<1>1. Resolve(p)
  BY DEF CallProvider, FailOver
<1>2. Available = {}
  <2> SUFFICES ASSUME Available # {} PROVE FALSE
    OBVIOUS
  <2>1. p = Selected
    BY <1>1 DEF Resolve
  <2>2. p \in Available
    BY <2>1, SelectedAvailable, ResolverAssumption DEF ResolverTypeOK
  <2>3. QED
    BY <2>2 DEF Available
<1>3. \A q \in Provider : limitedFor[q] \in Nat /\ coolingFor[q] \in Nat
  BY ResolverAssumption DEF ResolverTypeOK
<1>4. QED
  BY <1>2, <1>3 DEF Available

\* A provider that is limited is called only when no other can be (model-resolver.js:110).
LEMMA LimitedLast == ResolverTypeOK => LimitedAreLast
BY LimitedSpared DEF LimitedAreLast

-------------------------------------------------------------------------------
\* Conversations and answers (websocket-server.js, conversation-manager.js).

\* A finite set that R orders has a member that is before every other one.
LEMMA FirstExists ==
  ASSUME NEW T, NEW R,
         \A x, y \in T : x # y => <<x, y>> \in R \/ <<y, x>> \in R,
         \A x, y, z \in T : x # y /\ y # z /\ x # z /\ <<x, y>> \in R /\ <<y, z>> \in R => <<x, z>> \in R
  PROVE  \A S \in SUBSET T : IsFiniteSet(S) /\ S # {} => \E v \in S : \A u \in S \ {v} : <<v, u>> \in R
<1> DEFINE Has(S) == S # {} => \E v \in S : \A u \in S \ {v} : <<v, u>> \in R
           P == {n \in Nat : \A S \in SUBSET T : IsFiniteSet(S) /\ Cardinality(S) = n => Has(S)}
<1>1. 0 \in P
  <2>1. ASSUME NEW S \in SUBSET T, IsFiniteSet(S), Cardinality(S) = 0 PROVE Has(S)
    <3>1. S = {}
      BY <2>1, FS_EmptySet
    <3> QED BY <3>1
  <2> QED BY <2>1
<1>2. ASSUME NEW n \in P PROVE n + 1 \in P
  <2>1. ASSUME NEW S \in SUBSET T, IsFiniteSet(S), Cardinality(S) = n + 1 PROVE Has(S)
    <3>1. n \in Nat
      BY <1>2
    <3>2. S # {}
      <4>1. Cardinality(S) # 0
        BY <2>1, <3>1
      <4> QED BY <2>1, <4>1, FS_EmptySet
    <3>3. PICK x \in S : TRUE
      BY <3>2
    <3>4. IsFiniteSet(S \ {x}) /\ Cardinality(S \ {x}) = n
      BY <2>1, <3>1, <3>3, FS_RemoveElement
    <3>5. Has(S \ {x})
      BY <1>2, <3>4
    <3>6. CASE S \ {x} = {}
      BY <3>3, <3>6
    <3>7. CASE S \ {x} # {}
      <4>1. PICK v \in S \ {x} : \A u \in (S \ {x}) \ {v} : <<v, u>> \in R
        BY <3>5, <3>7
      <4>2. CASE <<v, x>> \in R
        <5>1. \A u \in S \ {v} : <<v, u>> \in R
          BY <4>1, <4>2
        <5> QED BY <4>1, <5>1
      <4>3. CASE <<x, v>> \in R
        <5>1. ASSUME NEW u \in S \ {x} PROVE <<x, u>> \in R
          <6>1. CASE u = v
            BY <4>3, <6>1
          <6>2. CASE u # v
            <7>1. <<v, u>> \in R
              BY <4>1, <6>2
            <7> QED BY <4>1, <4>3, <5>1, <6>2, <7>1, <3>3
          <6> QED BY <6>1, <6>2
        <5> QED BY <5>1, <3>3
      <4> QED BY <4>1, <4>2, <4>3, <3>3
    <3> QED BY <3>6, <3>7
  <2> HIDE DEF Has
  <2>2. n + 1 \in Nat
    BY <1>2
  <2> QED BY <2>1, <2>2
<1>3. P = Nat
  <2>1. P \in SUBSET Nat
    OBVIOUS
  <2> HIDE DEF P
  <2> QED BY <1>1, <1>2, <2>1, NatInd
<1> QED
  <2>1. ASSUME NEW S \in SUBSET T, IsFiniteSet(S) PROVE Has(S)
    <3>1. Cardinality(S) \in P
      BY <2>1, <1>3, FS_CardinalityType
    <3> HIDE DEF Has
    <3> QED BY <2>1, <3>1
  <2> QED BY <2>1

-----------------------------------------------------------------------------
UserIds(d) == Ids(d) \ AgentConv

\* What every content of conversations.json is.
GwData(d) ==
  /\ Ids(d) \subseteq Conv /\ IsFiniteSet(Ids(d))
  /\ \A v \in Ids(d) : d[v] \in Conversation(Ids(d))
  /\ \A u, v \in UserIds(d) : u # v => (u \in d[v].older <=> v \notin d[u].older)
  /\ \A u, v, x \in UserIds(d) : u \in d[v].older /\ v \in d[x].older /\ u # x => u \in d[x].older

\* What a conversation is made of.
LEMMA GwFields ==
  ASSUME NEW d, GwData(d), NEW v \in Ids(d)
  PROVE  /\ d[v].ws \in Workspace /\ d[v].messages \in Seq(Said) /\ d[v].older \subseteq Ids(d)
         /\ Len(d[v].messages) \in Nat
<1>1. d[v].ws \in Workspace /\ d[v].messages \in Seq(Said) /\ d[v].older \subseteq Ids(d)
  BY DEF GwData, Conversation
<1> QED BY <1>1, LenProperties

\* v is the conversation the workspace writes to.
First(d, x, v) ==
  v \in OfUsers(d, x, AgentConv) /\ \A u \in OfUsers(d, x, AgentConv) \ {v} : Ahead(d, v, u)

\* At most one conversation is ahead of all others.
LEMMA OneFront ==
  ASSUME NEW d, GwData(d), NEW x, NEW v, NEW u, First(d, x, v), First(d, x, u)
  PROVE  v = u
<1>1. SUFFICES ASSUME v # u PROVE FALSE
  OBVIOUS
<1>2. Ahead(d, v, u) /\ Ahead(d, u, v) /\ v \in UserIds(d) /\ u \in UserIds(d)
  BY <1>1 DEF First, OfUsers, UserIds
<1>3. Len(d[v].messages) \in Nat /\ Len(d[u].messages) \in Nat
  BY <1>2, GwFields DEF UserIds
<1>4. u \in d[v].older /\ v \in d[u].older
  BY <1>2, <1>3 DEF Ahead
<1> QED BY <1>1, <1>2, <1>4 DEF GwData

\* One is, where there is any: the order is finite.
LEMMA FrontExists ==
  ASSUME NEW d, GwData(d), NEW x, OfUsers(d, x, AgentConv) # {}
  PROVE  \E v : First(d, x, v)
<1> DEFINE T == UserIds(d)
           R == {p \in T \X T : Ahead(d, p[1], p[2])}
           S == OfUsers(d, x, AgentConv)
<1>0. \A v \in T : Len(d[v].messages) \in Nat
  BY GwFields DEF UserIds
<1>1. \A u, v \in T : u # v => Ahead(d, u, v) \/ Ahead(d, v, u)
  BY <1>0 DEF Ahead, GwData
<1>2. \A u, v, y \in T : u # v /\ v # y /\ u # y /\ Ahead(d, u, v) /\ Ahead(d, v, y) => Ahead(d, u, y)
  <2> SUFFICES ASSUME NEW u \in T, NEW v \in T, NEW y \in T, u # v, v # y, u # y,
                      Ahead(d, u, v), Ahead(d, v, y)
               PROVE  Ahead(d, u, y)
    OBVIOUS
  <2>1. /\ Len(d[u].messages) \in Nat /\ Len(d[v].messages) \in Nat
        /\ Len(d[y].messages) \in Nat
    BY <1>0
  <2>2. \A a, b, c \in T : a \in d[b].older /\ b \in d[c].older /\ a # c => a \in d[c].older
    BY DEF GwData
  <2> HIDE DEF T
  <2>3. CASE Len(d[u].messages) > Len(d[y].messages)
    BY <2>3 DEF Ahead
  <2>4. CASE Len(d[u].messages) <= Len(d[y].messages)
    <3>1. Len(d[u].messages) = Len(d[v].messages) /\ Len(d[v].messages) = Len(d[y].messages)
      BY <2>1, <2>4 DEF Ahead
    <3>2. v \in d[u].older /\ y \in d[v].older
      BY <2>1, <3>1 DEF Ahead
    <3>3. y \in d[u].older
      BY <2>2, <3>2
    <3> QED BY <3>1, <3>3 DEF Ahead
  <2> QED BY <2>1, <2>3, <2>4
<1>3. \A u, v \in T : <<u, v>> \in R <=> Ahead(d, u, v)
  OBVIOUS
<1>4. S \in SUBSET T
  BY DEF OfUsers, UserIds
<1>5. IsFiniteSet(S)
  <2>1. IsFiniteSet(Ids(d)) /\ S \in SUBSET Ids(d)
    BY <1>4 DEF GwData, UserIds
  <2> HIDE DEF S
  <2> QED BY <2>1, FS_Subset
<1> HIDE DEF R, T, S
<1>6. \A u, v \in T : u # v => <<u, v>> \in R \/ <<v, u>> \in R
  BY <1>1, <1>3
<1>7. \A u, v, y \in T : u # v /\ v # y /\ u # y /\ <<u, v>> \in R /\ <<v, y>> \in R => <<u, y>> \in R
  BY <1>2, <1>3
<1>8. S # {}
  BY DEF S
<1>9. \E v \in S : \A u \in S \ {v} : <<v, u>> \in R
  <2>1. \A S1 \in SUBSET T : IsFiniteSet(S1) /\ S1 # {} => \E v \in S1 : \A u \in S1 \ {v} : <<v, u>> \in R
    BY <1>6, <1>7, FirstExists
  <2> QED BY <2>1, <1>4, <1>5, <1>8
<1>10. PICK v \in S : \A u \in S \ {v} : <<v, u>> \in R
  BY <1>9
<1>11. \A u \in S \ {v} : Ahead(d, v, u)
  BY <1>10, <1>3, <1>4
<1> QED BY <1>10, <1>11 DEF First, S

\* The canonical conversation is the one ahead of the others.
LEMMA CanonicalIs ==
  ASSUME NEW d, GwData(d), NEW x
  PROVE  /\ OfUsers(d, x, AgentConv) = {} => Canonical(d, x, AgentConv) = NoConv
         /\ OfUsers(d, x, AgentConv) # {} => First(d, x, Canonical(d, x, AgentConv))
         /\ \A v : First(d, x, v) => Canonical(d, x, AgentConv) = v
<1> DEFINE users == OfUsers(d, x, AgentConv)
<1>1. users = {} => Canonical(d, x, AgentConv) = NoConv
  BY DEF Canonical
<1>2. ASSUME users # {} PROVE First(d, x, Canonical(d, x, AgentConv))
  <2>1. Canonical(d, x, AgentConv) = CHOOSE v \in users : \A u \in users \ {v} : Ahead(d, v, u)
    BY <1>2 DEF Canonical
  <2>2. \E v \in users : \A u \in users \ {v} : Ahead(d, v, u)
    BY <1>2, FrontExists DEF First
  <2> HIDE DEF users
  <2>3. /\ Canonical(d, x, AgentConv) \in users
        /\ \A u \in users \ {Canonical(d, x, AgentConv)} : Ahead(d, Canonical(d, x, AgentConv), u)
    BY <2>1, <2>2
  <2> QED BY <2>3 DEF First, users
<1>3. ASSUME NEW v, First(d, x, v) PROVE Canonical(d, x, AgentConv) = v
  <2>1. users # {}
    BY <1>3 DEF First
  <2> QED BY <1>2, <1>3, <2>1, OneFront
<1> QED BY <1>1, <1>2, <1>3

\* The same, with no conversation where the workspace has none.
LEMMA CanonicalFront ==
  ASSUME NEW d, GwData(d), NEW x
  PROVE  /\ Canonical(d, x, AgentConv) # NoConv <=> First(d, x, Canonical(d, x, AgentConv))
         /\ Canonical(d, x, AgentConv) = NoConv <=> OfUsers(d, x, AgentConv) = {}
<1>1. ASSUME First(d, x, Canonical(d, x, AgentConv)) PROVE Canonical(d, x, AgentConv) # NoConv
  BY <1>1, GatewayAssumption DEF First, OfUsers, GwData
<1> QED BY <1>1, CanonicalIs DEF First

-----------------------------------------------------------------------------
\* A conversation is created.
LEMMA GwCreated ==
  ASSUME NEW d, GwData(d), NEW id \in Conv, id \notin Ids(d), NEW x \in Workspace, NEW e, e = Create(d, id, x)
  PROVE  /\ GwData(e) /\ Ids(e) = Ids(d) \cup {id}
         /\ \A v \in Ids(d) : e[v] = d[v]
         /\ e[id].ws = x /\ e[id].messages = <<>> /\ e[id].older = Ids(d)
<1>1. Ids(e) = Ids(d) \cup {id}
  BY DEF Create, Ids
<1>2. \A v \in Ids(d) : e[v] = d[v]
  BY DEF Create
<1>3. e[id] = [ws |-> x, messages |-> <<>>, older |-> Ids(d)]
  BY DEF Create
<1>4. e[id].ws = x /\ e[id].messages = <<>> /\ e[id].older = Ids(d)
  BY <1>3
<1>5. \A v \in Ids(e) : e[v] \in Conversation(Ids(e))
  <2>1. e[id] \in Conversation(Ids(e))
    <3>1. <<>> \in Seq(Said)
      BY EmptySeq
    <3> QED BY <1>1, <1>3, <3>1 DEF Conversation
  <2>2. ASSUME NEW v \in Ids(d) PROVE e[v] \in Conversation(Ids(e))
    <3>1. d[v] \in Conversation(Ids(d))
      BY DEF GwData
    <3> QED BY <3>1, <1>1, <1>2 DEF Conversation
  <2> QED BY <1>1, <2>1, <2>2
<1>6. IsFiniteSet(Ids(e)) /\ Ids(e) \subseteq Conv
  BY <1>1, FS_AddElement DEF GwData
<1>7. \A v \in Ids(d) : id \notin d[v].older
  BY GwFields
<1>8. \A u, v \in UserIds(e) : u # v => (u \in e[v].older <=> v \notin e[u].older)
  <2>1. ASSUME NEW u \in UserIds(e), NEW v \in UserIds(e), u # v
        PROVE  u \in e[v].older <=> v \notin e[u].older
    <3>1. CASE u = id
      BY <2>1, <3>1, <1>1, <1>2, <1>4, <1>7 DEF UserIds
    <3>2. CASE v = id
      BY <2>1, <3>2, <1>1, <1>2, <1>4, <1>7 DEF UserIds
    <3>3. CASE u # id /\ v # id
      <4>1. u \in UserIds(d) /\ v \in UserIds(d)
        BY <3>3, <1>1 DEF UserIds
      <4> QED BY <2>1, <4>1, <1>2 DEF GwData, UserIds
    <3> QED BY <3>1, <3>2, <3>3
  <2> QED BY <2>1
<1>9. \A u, v, y \in UserIds(e) : u \in e[v].older /\ v \in e[y].older /\ u # y => u \in e[y].older
  <2>1. ASSUME NEW u \in UserIds(e), NEW v \in UserIds(e), NEW y \in UserIds(e),
               u \in e[v].older, v \in e[y].older, u # y
        PROVE  u \in e[y].older
    <3>1. CASE y = id
      BY <2>1, <3>1, <1>1, <1>4 DEF UserIds
    <3>2. CASE y # id
      <4>1. y \in UserIds(d)
        BY <3>2, <1>1 DEF UserIds
      <4>2. v # id
        BY <2>1, <4>1, <1>2, <1>7 DEF UserIds
      <4>3. v \in UserIds(d)
        BY <4>2, <1>1 DEF UserIds
      <4>4. u # id
        BY <2>1, <4>3, <1>2, <1>7 DEF UserIds
      <4>5. u \in UserIds(d)
        BY <4>4, <1>1 DEF UserIds
      <4> QED BY <2>1, <4>1, <4>3, <4>5, <1>2 DEF GwData, UserIds
    <3> QED BY <3>1, <3>2
  <2> QED BY <2>1
<1> QED BY <1>1, <1>2, <1>4, <1>5, <1>6, <1>8, <1>9 DEF GwData

\* A message is added.
LEMMA GwAdded ==
  ASSUME NEW d, GwData(d), NEW id, NEW said \in Said, NEW e, e = AddMessage(d, id, said)
  PROVE  /\ GwData(e) /\ Ids(e) = Ids(d)
         /\ \A v \in Ids(d) : v # id => e[v] = d[v]
         /\ \A v \in Ids(d) : e[v].ws = d[v].ws /\ e[v].older = d[v].older
         /\ id \in Ids(d) => e[id].messages = Append(d[id].messages, said)
<1>1. Ids(e) = Ids(d)
  BY DEF AddMessage, Ids
<1>2. \A v \in Ids(d) : v # id => e[v] = d[v]
  BY DEF AddMessage
<1>3. \A v \in Ids(d) : d[v] \in Conversation(Ids(d))
  BY DEF GwData
<1>4. ASSUME id \in Ids(d)
      PROVE  /\ e[id].messages = Append(d[id].messages, said) /\ e[id].ws = d[id].ws
             /\ e[id].older = d[id].older /\ e[id] \in Conversation(Ids(d))
  <2>1. e[id] = [d[id] EXCEPT !.messages = Append(d[id].messages, said)]
    BY <1>4 DEF AddMessage
  <2>2. Append(d[id].messages, said) \in Seq(Said)
    BY <1>4, GwFields, AppendProperties
  <2>3. d[id] \in [ws : Workspace, messages : Seq(Said), older : SUBSET Ids(d)]
    BY <1>3, <1>4 DEF Conversation
  <2> QED BY <2>1, <2>2, <2>3 DEF Conversation
<1>5. \A v \in Ids(d) : e[v].ws = d[v].ws /\ e[v].older = d[v].older
  BY <1>2, <1>4
<1>6. \A v \in Ids(e) : e[v] \in Conversation(Ids(e))
  BY <1>1, <1>2, <1>3, <1>4
<1>7. UserIds(e) = UserIds(d)
  BY <1>1 DEF UserIds
<1>8. \A v \in UserIds(d) : e[v].older = d[v].older
  BY <1>5 DEF UserIds
<1>9. GwData(e)
  BY <1>1, <1>6, <1>7, <1>8 DEF GwData
<1> QED BY <1>1, <1>2, <1>4, <1>5, <1>9

\* Where the messages of a conversation are, and which is the new one.
LEMMA GwAppended ==
  ASSUME NEW d, GwData(d), NEW id, NEW said \in Said, NEW e, e = AddMessage(d, id, said)
  PROVE  /\ \A u \in Ids(d) : \A i \in DOMAIN e[u].messages :
                \/ i \in DOMAIN d[u].messages /\ e[u].messages[i] = d[u].messages[i]
                \/ u = id /\ i = Len(d[u].messages) + 1 /\ e[u].messages[i] = said
         /\ \A u \in Ids(d) : \A i \in DOMAIN d[u].messages :
                i \in DOMAIN e[u].messages /\ e[u].messages[i] = d[u].messages[i]
         /\ id \in Ids(d) => /\ Len(d[id].messages) + 1 \in DOMAIN e[id].messages
                             /\ e[id].messages[Len(d[id].messages) + 1] = said
<1>1. \A u \in Ids(d) : u # id => e[u] = d[u]
  BY GwAdded
<1>2. ASSUME id \in Ids(d)
      PROVE  /\ DOMAIN d[id].messages = 1 .. Len(d[id].messages)
             /\ DOMAIN e[id].messages = 1 .. Len(d[id].messages) + 1
             /\ Len(d[id].messages) \in Nat
             /\ \A i \in 1 .. Len(d[id].messages) : e[id].messages[i] = d[id].messages[i]
             /\ e[id].messages[Len(d[id].messages) + 1] = said
  <2>1. d[id].messages \in Seq(Said) /\ e[id].messages = Append(d[id].messages, said)
    BY <1>2, GwFields, GwAdded
  <2> DEFINE s == d[id].messages
             t == e[id].messages
  <2>2. t \in Seq(Said) /\ Len(t) = Len(s) + 1 /\ t[Len(s) + 1] = said
        /\ \A i \in 1 .. Len(s) : t[i] = s[i]
    BY <2>1, AppendProperties
  <2>3. Len(s) \in Nat /\ DOMAIN s = 1 .. Len(s) /\ DOMAIN t = 1 .. Len(t)
    BY <2>1, <2>2, LenProperties
  <2> QED BY <2>2, <2>3
<1>3. ASSUME NEW u \in Ids(d), NEW i \in DOMAIN e[u].messages
      PROVE  \/ i \in DOMAIN d[u].messages /\ e[u].messages[i] = d[u].messages[i]
             \/ u = id /\ i = Len(d[u].messages) + 1 /\ e[u].messages[i] = said
  <2>1. CASE u # id
    BY <1>1, <1>3, <2>1
  <2>2. CASE u = id
    <3>1. i \in 1 .. Len(d[id].messages) + 1
      BY <1>2, <1>3, <2>2
    <3>2. CASE i = Len(d[id].messages) + 1
      BY <1>2, <1>3, <2>2, <3>2
    <3>3. CASE i # Len(d[id].messages) + 1
      <4>1. i \in 1 .. Len(d[id].messages)
        BY <1>2, <1>3, <2>2, <3>1, <3>3
      <4> QED BY <1>2, <1>3, <2>2, <4>1
    <3> QED BY <3>2, <3>3
  <2> QED BY <2>1, <2>2
<1>4. ASSUME NEW u \in Ids(d), NEW i \in DOMAIN d[u].messages
      PROVE  i \in DOMAIN e[u].messages /\ e[u].messages[i] = d[u].messages[i]
  <2>1. CASE u # id
    BY <1>1, <1>4, <2>1
  <2>2. CASE u = id
    <3>1. i \in 1 .. Len(d[id].messages) /\ i \in 1 .. Len(d[id].messages) + 1
      BY <1>2, <1>4, <2>2
    <3> QED BY <1>2, <1>4, <2>2, <3>1
  <2> QED BY <2>1, <2>2
<1>5. ASSUME id \in Ids(d)
      PROVE  Len(d[id].messages) + 1 \in DOMAIN e[id].messages /\ e[id].messages[Len(d[id].messages) + 1] = said
  BY <1>2, <1>5
<1> QED BY <1>3, <1>4, <1>5

\* Conversations are taken out.
LEMMA GwLeft ==
  ASSUME NEW d, GwData(d), NEW S, NEW e, e = Without(d, S)
  PROVE  /\ GwData(e) /\ Ids(e) = Ids(d) \ S
         /\ \A v \in Ids(e) : e[v].ws = d[v].ws /\ e[v].messages = d[v].messages /\ e[v].older = d[v].older \ S
<1>1. Ids(e) = Ids(d) \ S
  BY DEF Without, Ids
<1>2. ASSUME NEW v \in Ids(e)
      PROVE  /\ e[v].ws = d[v].ws /\ e[v].messages = d[v].messages /\ e[v].older = d[v].older \ S
             /\ e[v] \in Conversation(Ids(e))
  <2>1. e[v] = [d[v] EXCEPT !.older = d[v].older \ S]
    BY <1>1 DEF Without
  <2>2. d[v] \in [ws : Workspace, messages : Seq(Said), older : SUBSET Ids(d)]
    BY <1>1 DEF GwData, Conversation
  <2>3. d[v].older \ S \in SUBSET Ids(e)
    BY <1>1, <2>2
  <2> QED BY <2>1, <2>2, <2>3 DEF Conversation
<1>3. IsFiniteSet(Ids(e)) /\ Ids(e) \subseteq Conv
  <2>1. Ids(e) \in SUBSET Ids(d) /\ IsFiniteSet(Ids(d)) /\ Ids(d) \subseteq Conv
    BY <1>1 DEF GwData
  <2>2. IsFiniteSet(Ids(e))
    BY <2>1, FS_Subset
  <2> QED BY <2>1, <2>2
<1>4. \A v \in UserIds(e) : v \in UserIds(d) /\ v \notin S /\ e[v].older = d[v].older \ S
  BY <1>1, <1>2 DEF UserIds
<1>5. \A u, v \in UserIds(e) : u # v => (u \in e[v].older <=> v \notin e[u].older)
  BY <1>4 DEF GwData
<1>6. \A u, v, y \in UserIds(e) : u \in e[v].older /\ v \in e[y].older /\ u # y => u \in e[y].older
  BY <1>4 DEF GwData
<1> QED BY <1>1, <1>2, <1>3, <1>5, <1>6 DEF GwData

\* Pruning takes out, twice (conversation-manager.js:270).
LEMMA GwPruned ==
  ASSUME NEW d, NEW aged, NEW e \in Pruned(d, aged, AgentConv)
  PROVE  \E S, T : e = Without(Without(d, S), T)
BY DEF Pruned

-----------------------------------------------------------------------------
\* The conversations d's workspaces write to stay the same in e.
Steady(d, e) ==
  \A x \in Workspace, v \in Ids(e) : First(d, x, v) /\ d[v].messages # <<>> => First(e, x, v)

\* Where none gets ahead, the canonical conversation stays.
LEMMA SteadyKept ==
  ASSUME NEW d, GwData(d), NEW e, GwData(e), Steady(d, e), NEW x \in Workspace
  PROVE  LET v == Canonical(d, x, AgentConv)
         IN  v # NoConv /\ d[v].messages # <<>> /\ v \in Ids(e) => Canonical(e, x, AgentConv) = v
<1> DEFINE v == Canonical(d, x, AgentConv)
<1>1. SUFFICES ASSUME v # NoConv, d[v].messages # <<>>, v \in Ids(e) PROVE Canonical(e, x, AgentConv) = v
  OBVIOUS
<1>2. First(d, x, v)
  BY <1>1, CanonicalFront
<1>3. First(e, x, v)
  BY <1>1, <1>2 DEF Steady
<1> QED BY <1>3, CanonicalIs

\* Nothing changes.
LEMMA SteadySame == ASSUME NEW d PROVE Steady(d, d)
BY DEF Steady

\* Taking conversations out lets none get ahead.
LEMMA SteadyLeft ==
  ASSUME NEW d, GwData(d), NEW S, NEW e, e = Without(d, S)
  PROVE  Steady(d, e)
<1>1. /\ Ids(e) = Ids(d) \ S
      /\ \A v \in Ids(e) : e[v].ws = d[v].ws /\ e[v].messages = d[v].messages /\ e[v].older = d[v].older \ S
  BY GwLeft
<1>2. ASSUME NEW x \in Workspace, NEW v \in Ids(e), First(d, x, v) PROVE First(e, x, v)
  <2>1. OfUsers(e, x, AgentConv) = OfUsers(d, x, AgentConv) \ S
    BY <1>1 DEF OfUsers
  <2>2. v \in OfUsers(e, x, AgentConv)
    BY <1>1, <1>2, <2>1 DEF First
  <2>3. ASSUME NEW u \in OfUsers(e, x, AgentConv) \ {v} PROVE Ahead(e, v, u)
    <3>1. Ahead(d, v, u) /\ u \notin S /\ u \in Ids(e)
      BY <1>2, <2>1, <2>3 DEF First, OfUsers
    <3> QED BY <1>1, <3>1 DEF Ahead
  <2> QED BY <2>2, <2>3 DEF First
<1> QED BY <1>2 DEF Steady

\* Nor does a new one, which has no message.
LEMMA SteadyCreated ==
  ASSUME NEW d, GwData(d), NEW id \in Conv, id \notin Ids(d), NEW x \in Workspace, NEW e, e = Create(d, id, x)
  PROVE  Steady(d, e)
<1>1. /\ Ids(e) = Ids(d) \cup {id} /\ \A v \in Ids(d) : e[v] = d[v]
      /\ e[id].ws = x /\ e[id].messages = <<>>
  BY GwCreated
<1>2. ASSUME NEW y \in Workspace, NEW v \in Ids(e), First(d, y, v), d[v].messages # <<>> PROVE First(e, y, v)
  <2>1. v \in Ids(d) /\ v \in OfUsers(d, y, AgentConv)
    BY <1>2 DEF First, OfUsers
  <2>2. v \in OfUsers(e, y, AgentConv)
    BY <1>1, <2>1 DEF OfUsers
  <2>3. ASSUME NEW u \in OfUsers(e, y, AgentConv) \ {v} PROVE Ahead(e, v, u)
    <3>1. CASE u \in Ids(d)
      <4>1. u \in OfUsers(d, y, AgentConv)
        BY <1>1, <2>3, <3>1 DEF OfUsers
      <4>2. Ahead(d, v, u)
        BY <1>2, <2>3, <4>1 DEF First
      <4> QED BY <1>1, <2>1, <3>1, <4>2 DEF Ahead
    <3>2. CASE u = id
      <4>1. Len(d[v].messages) \in Nat /\ Len(d[v].messages) # 0
        <5>1. d[v].messages \in Seq(Said)
          BY <2>1, GwFields
        <5> QED BY <5>1, <1>2, LenProperties, EmptySeq
      <4>2. Len(<<>>) = 0
        BY EmptySeq
      <4> QED BY <1>1, <2>1, <3>2, <4>1, <4>2 DEF Ahead
    <3> QED BY <1>1, <2>3, <3>1, <3>2 DEF OfUsers
  <2> QED BY <2>2, <2>3 DEF First
<1> QED BY <1>2 DEF Steady

\* What is added to the conversation in front leaves it there, that of the
\* other workspaces too.
LEMMA FrontAdded ==
  ASSUME NEW d, GwData(d), NEW id, NEW said \in Said, NEW e, e = AddMessage(d, id, said),
         id \in Ids(d) => \E y : First(d, y, id)
  PROVE  \A x, v : First(d, x, v) => First(e, x, v)
<1>1. /\ Ids(e) = Ids(d)
      /\ \A v \in Ids(d) : v # id => e[v] = d[v]
      /\ \A v \in Ids(d) : e[v].ws = d[v].ws /\ e[v].older = d[v].older
      /\ id \in Ids(d) => e[id].messages = Append(d[id].messages, said)
  BY GwAdded
<1>2. ASSUME NEW x, NEW v, First(d, x, v) PROVE First(e, x, v)
  <2>1. OfUsers(e, x, AgentConv) = OfUsers(d, x, AgentConv)
    BY <1>1 DEF OfUsers
  <2>2. v \in OfUsers(d, x, AgentConv) /\ v \in Ids(d)
    BY <1>2 DEF First, OfUsers
  <2>3. ASSUME NEW u \in OfUsers(d, x, AgentConv) \ {v} PROVE Ahead(e, v, u)
    <3>1. Ahead(d, v, u) /\ u \in Ids(d)
      BY <1>2, <2>3 DEF First, OfUsers
    <3>2. u # id
      <4>1. SUFFICES ASSUME u = id PROVE FALSE
        OBVIOUS
      <4>2. PICK y : First(d, y, id)
        BY <3>1, <4>1
      <4>3. d[id].ws = y /\ d[id].ws = x
        BY <2>3, <4>1, <4>2 DEF First, OfUsers
      <4>4. First(d, x, id)
        BY <4>2, <4>3
      <4>5. v = id
        BY <1>2, <4>4, OneFront
      <4> QED BY <2>3, <4>1, <4>5
    <3>3. Len(e[u].messages) = Len(d[u].messages) /\ Len(d[u].messages) \in Nat /\ e[v].older = d[v].older
      BY <1>1, <2>2, <3>1, <3>2, GwFields
    <3>4. CASE v = id
      <4>1. Len(e[v].messages) = Len(d[v].messages) + 1 /\ Len(d[v].messages) \in Nat
        <5>1. d[v].messages \in Seq(Said)
          BY <2>2, GwFields
        <5>2. e[v].messages = Append(d[v].messages, said)
          BY <1>1, <2>2, <3>4
        <5> QED BY <5>1, <5>2, AppendProperties, LenProperties
      <4> QED BY <3>1, <3>3, <4>1 DEF Ahead
    <3>5. CASE v # id
      BY <1>1, <2>2, <3>1, <3>3, <3>5 DEF Ahead
    <3> QED BY <3>4, <3>5
  <2> QED BY <2>1, <2>2, <2>3 DEF First
<1> QED BY <1>2

-----------------------------------------------------------------------------
\* The conversations know the messages, wherever the runs are.
Placed ==
  /\ \A m \in Message \ gwSeen : gwConv[m] = NoConv
  /\ \A m \in gwSeen : gwConv[m] \in gwMade
  /\ \A m \in gwSeen : gwConv[m] \in Ids(gwData) =>
         Holds(gwData[gwConv[m]], "user", m) /\ First(gwData, WsOf[m], gwConv[m])
  /\ \A v \in Ids(gwData) : \A i \in DOMAIN gwData[v].messages :
         gwData[v].messages[i].of \in Message => v = gwConv[gwData[v].messages[i].of]
  /\ MessageOnce

DataInv == GwData(gwData) /\ Ids(gwData) \subseteq gwMade /\ AgentConv \subseteq gwMade /\ Placed

Unseen ==
  /\ \A m \in Message \ gwSeen : gwRun[m] = "new" /\ gwText[m] = "unwritten"
  /\ \A v \in Conv : \A i \in DOMAIN gwQueue[v] : gwQueue[v][i] \in gwSeen
  /\ \A v \in Conv : gwBuffer[v] # NoBuffer => gwBuffer[v].text \subseteq gwSeen

GwInv == GatewayTypeOK /\ DataInv /\ Unseen /\ TextKept

\* A message that was seen has its conversation.
LEMMA SeenConv ==
  ASSUME GatewayTypeOK, DataInv, NEW m \in gwSeen
  PROVE  gwConv[m] \in Conv /\ gwConv[m] # NoConv /\ m \in Message
BY GatewayAssumption DEF GatewayTypeOK, DataInv, Placed

\* An answer stands in the conversation of its question.
LEMMA GwBeside == DataInv /\ GatewayTypeOK => AnswerBesideQuestion
<1> SUFFICES ASSUME DataInv, GatewayTypeOK, NEW v \in Ids(gwData), NEW m \in Message,
                    Holds(gwData[v], "assistant", m)
             PROVE  Holds(gwData[v], "user", m)
  BY DEF AnswerBesideQuestion
<1>1. PICK i \in DOMAIN gwData[v].messages : gwData[v].messages[i] = [role |-> "assistant", of |-> m]
  BY DEF Holds
<1>2. gwData[v].messages[i].of = m
  BY <1>1
<1>3. v = gwConv[m]
  BY <1>2 DEF DataInv, Placed
<1>4. v # NoConv
  BY GatewayAssumption DEF DataInv, GwData
<1>5. m \in gwSeen
  BY <1>3, <1>4 DEF DataInv, Placed
<1> QED BY <1>3, <1>5 DEF DataInv, Placed

\* Nothing happens to the conversations.
LEMMA DataStill ==
  ASSUME DataInv, UNCHANGED <<gwData, gwMade, gwSeen, gwConv>>
  PROVE  DataInv' /\ CanonicalKept
<1>1. gwData' = gwData /\ gwMade' = gwMade /\ gwSeen' = gwSeen /\ gwConv' = gwConv
  OBVIOUS
<1>2. CanonicalKept
  BY <1>1 DEF CanonicalKept
<1> QED BY <1>1, <1>2 DEF DataInv, Placed, MessageOnce

\* An edit that keeps what messages there are.
LEMMA DataEdited ==
  ASSUME DataInv, GatewayTypeOK, UNCHANGED <<gwSeen, gwConv>>, GwData(gwData'), Steady(gwData, gwData'),
         gwMade' = gwMade \cup Ids(gwData'),
         \A v \in Ids(gwData') : IF v \in Ids(gwData) THEN gwData'[v].messages = gwData[v].messages
                                 ELSE v \notin gwMade /\ gwData'[v].messages = <<>>
  PROVE  DataInv' /\ CanonicalKept
<1>0. gwSeen' = gwSeen /\ gwConv' = gwConv
  OBVIOUS
<1>1. CanonicalKept
  BY SteadyKept DEF CanonicalKept, DataInv
<1>2. \A v \in Ids(gwData') : DOMAIN gwData'[v].messages # {} =>
          v \in Ids(gwData) /\ gwData'[v].messages = gwData[v].messages
  <2>1. DOMAIN <<>> = {}
    OBVIOUS
  <2> QED BY <2>1
<1>3. ASSUME NEW m \in gwSeen, gwConv[m] \in Ids(gwData')
      PROVE  Holds(gwData'[gwConv[m]], "user", m) /\ First(gwData', WsOf[m], gwConv[m])
  <2>1. gwConv[m] \in gwMade /\ m \in Message
    BY <1>3 DEF DataInv, Placed, GatewayTypeOK
  <2>2. gwConv[m] \in Ids(gwData) /\ gwData'[gwConv[m]].messages = gwData[gwConv[m]].messages
    BY <1>3, <2>1
  <2>3. Holds(gwData[gwConv[m]], "user", m) /\ First(gwData, WsOf[m], gwConv[m])
    BY <1>3, <2>2 DEF DataInv, Placed
  <2>4. gwData[gwConv[m]].messages # <<>>
    <3>1. DOMAIN <<>> = {}
      OBVIOUS
    <3> QED BY <2>3, <3>1 DEF Holds
  <2>5. WsOf[m] \in Workspace
    BY <2>1, GatewayAssumption
  <2>6. First(gwData', WsOf[m], gwConv[m])
    BY <1>3, <2>3, <2>4, <2>5 DEF Steady
  <2> QED BY <2>2, <2>3, <2>6 DEF Holds
<1>4. \A v \in Ids(gwData') : \A i \in DOMAIN gwData'[v].messages :
          gwData'[v].messages[i].of \in Message => v = gwConv[gwData'[v].messages[i].of]
  BY <1>2 DEF DataInv, Placed
<1>5. MessageOnce'
  <2>1. ASSUME NEW m \in Message, NEW u \in Ids(gwData'), NEW v \in Ids(gwData'),
               NEW i \in DOMAIN gwData'[u].messages, NEW j \in DOMAIN gwData'[v].messages,
               gwData'[u].messages[i] = [role |-> "user", of |-> m],
               gwData'[v].messages[j] = [role |-> "user", of |-> m]
        PROVE  u = v /\ i = j
    BY <2>1, <1>2 DEF DataInv, Placed, MessageOnce
  <2> QED BY <2>1 DEF MessageOnce
<1>6. Placed'
  BY <1>0, <1>3, <1>4, <1>5 DEF Placed, DataInv
<1> QED BY <1>1, <1>6 DEF DataInv

\* What a run answers.
LEMMA DataAnswered ==
  ASSUME DataInv, GatewayTypeOK, UNCHANGED <<gwMade, gwSeen, gwConv>>, NEW m \in gwSeen,
         gwData' = Answered(gwConv[m], m)
  PROVE  DataInv' /\ CanonicalKept
<1> DEFINE v == gwConv[m]
           said == [role |-> "assistant", of |-> m]
           e == AddMessage(gwData, v, said)
<1>0. gwMade' = gwMade /\ gwSeen' = gwSeen /\ gwConv' = gwConv /\ m \in Message
  BY SeenConv
<1>1. CASE gwData' = gwData
  BY <1>0, <1>1, DataStill
<1>2. CASE gwData' = e
  <2>1. said \in Said
    BY <1>0 DEF Said
  <2>2. GwData(gwData) /\ v \in Conv
    BY SeenConv DEF DataInv
  <2> DEFINE d2 == gwData'
  <2>3. d2 = AddMessage(gwData, v, said)
    BY <1>2
  <2> HIDE DEF said, e, d2
  <2>4. /\ GwData(d2) /\ Ids(d2) = Ids(gwData)
        /\ \A u \in Ids(gwData) : u # v => d2[u] = gwData[u]
        /\ \A u \in Ids(gwData) : d2[u].ws = gwData[u].ws /\ d2[u].older = gwData[u].older
        /\ v \in Ids(gwData) => d2[v].messages = Append(gwData[v].messages, said)
    BY <2>1, <2>2, <2>3, GwAdded
  <2>5. v \in Ids(gwData) => \E y : First(gwData, y, v)
    BY DEF DataInv, Placed
  <2>6. \A y, u : First(gwData, y, u) => First(d2, y, u)
    BY <2>1, <2>2, <2>3, <2>5, FrontAdded
  <2>7. CanonicalKept
    <3>1. Steady(gwData, d2)
      BY <2>6 DEF Steady
    <3> QED BY <2>2, <2>4, <3>1, SteadyKept DEF CanonicalKept, d2
  <2>8. \A u \in Ids(d2) : \A i \in DOMAIN d2[u].messages :
            \/ i \in DOMAIN gwData[u].messages /\ d2[u].messages[i] = gwData[u].messages[i]
            \/ u = v /\ d2[u].messages[i] = said
    BY <2>1, <2>2, <2>3, <2>4, GwAppended
  <2>9. \A u \in Ids(gwData) : \A i \in DOMAIN gwData[u].messages :
            i \in DOMAIN d2[u].messages /\ d2[u].messages[i] = gwData[u].messages[i]
    BY <2>1, <2>2, <2>3, GwAppended
  <2>10. ASSUME NEW n \in gwSeen, gwConv[n] \in Ids(d2)
         PROVE  Holds(d2[gwConv[n]], "user", n) /\ First(d2, WsOf[n], gwConv[n])
    <3>1. Holds(gwData[gwConv[n]], "user", n) /\ First(gwData, WsOf[n], gwConv[n])
      BY <2>4, <2>10 DEF DataInv, Placed
    <3>2. Holds(d2[gwConv[n]], "user", n)
      BY <2>4, <2>9, <2>10, <3>1 DEF Holds
    <3> QED BY <2>6, <3>1, <3>2
  <2>11. said.of = m /\ \A n : said # [role |-> "user", of |-> n]
    BY DEF said
  <2>12. \A u \in Ids(d2) : \A i \in DOMAIN d2[u].messages :
             d2[u].messages[i].of \in Message => u = gwConv[d2[u].messages[i].of]
    BY <2>4, <2>8, <2>11 DEF DataInv, Placed
  <2>13. MessageOnce'
    <3>1. ASSUME NEW n \in Message, NEW u \in Ids(d2), NEW y \in Ids(d2),
                 NEW i \in DOMAIN d2[u].messages, NEW j \in DOMAIN d2[y].messages,
                 d2[u].messages[i] = [role |-> "user", of |-> n],
                 d2[y].messages[j] = [role |-> "user", of |-> n]
          PROVE  u = y /\ i = j
      <4>1. i \in DOMAIN gwData[u].messages /\ gwData[u].messages[i] = [role |-> "user", of |-> n]
        BY <2>8, <2>11, <3>1
      <4>2. j \in DOMAIN gwData[y].messages /\ gwData[y].messages[j] = [role |-> "user", of |-> n]
        BY <2>8, <2>11, <3>1
      <4> QED BY <2>4, <3>1, <4>1, <4>2 DEF DataInv, Placed, MessageOnce
    <3> QED BY <3>1 DEF MessageOnce, d2
  <2>14. Placed'
    BY <1>0, <2>10, <2>12, <2>13 DEF Placed, DataInv, d2
  <2> QED BY <1>0, <2>4, <2>7, <2>14 DEF DataInv, d2
<1> QED BY <1>1, <1>2 DEF Answered

\* The conversation a message is written to: that of its workspace, or a new one.
LEMMA TargetIs ==
  ASSUME DataInv, GatewayTypeOK, NEW m \in Message, NEW v \in Target(m)
  PROVE  /\ v \in Conv
         /\ \/ v \in Ids(gwData) /\ First(gwData, WsOf[m], v)
            \/ v \notin gwMade /\ v \notin AgentConv /\ v \notin Ids(gwData) /\ OfUsers(gwData, WsOf[m], AgentConv) = {}
<1> DEFINE c == Canonical(gwData, WsOf[m], AgentConv)
<1>1. GwData(gwData) /\ Ids(gwData) \subseteq gwMade
  BY DEF DataInv
<1>2. Target(m) = IF c # NoConv THEN {c} ELSE Fresh
  BY DEF Target
<1>3. /\ c # NoConv <=> First(gwData, WsOf[m], c)
      /\ c = NoConv <=> OfUsers(gwData, WsOf[m], AgentConv) = {}
  BY <1>1, CanonicalFront
<1> HIDE DEF c
<1>4. CASE c # NoConv
  <2>1. v = c /\ First(gwData, WsOf[m], v)
    BY <1>2, <1>3, <1>4
  <2>2. v \in Ids(gwData)
    BY <2>1 DEF First, OfUsers
  <2> QED BY <1>1, <2>1, <2>2 DEF GwData
<1>5. CASE c = NoConv
  <2>1. v \in Fresh
    BY <1>2, <1>5
  <2> QED BY <1>1, <1>3, <1>5, <2>1 DEF Fresh
<1> QED BY <1>4, <1>5

\* A message of a user goes to the canonical conversation or to a new one.
LEMMA DataSent ==
  ASSUME DataInv, GatewayTypeOK, NEW m \in Message, m \notin gwSeen, NEW v \in Target(m),
         gwSeen' = gwSeen \cup {m}, gwData' = WithUser(m, v), gwMade' = gwMade \cup {v},
         gwConv' = [gwConv EXCEPT ![m] = v]
  PROVE  DataInv' /\ CanonicalKept
<1> DEFINE said == [role |-> "user", of |-> m]
           base == IF v \in Ids(gwData) THEN gwData ELSE Create(gwData, v, WsOf[m])
           d2 == gwData'
           x == WsOf[m]
<1>0. /\ GwData(gwData) /\ Ids(gwData) \subseteq gwMade /\ x \in Workspace /\ said \in Said
      /\ gwConv \in [Message -> Conv \cup {NoConv}] /\ gwSeen \subseteq Message
  BY GatewayAssumption DEF DataInv, Said, GatewayTypeOK
<1>1. /\ v \in Conv
      /\ \/ v \in Ids(gwData) /\ First(gwData, x, v)
         \/ v \notin gwMade /\ v \notin AgentConv /\ v \notin Ids(gwData) /\ OfUsers(gwData, x, AgentConv) = {}
  BY TargetIs
<1>2. d2 = AddMessage(base, v, said)
  BY DEF WithUser
<1>3. /\ GwData(base) /\ Ids(base) = Ids(gwData) \cup {v}
      /\ \A u \in Ids(gwData) : base[u] = gwData[u]
      /\ v \notin Ids(gwData) => base[v].messages = <<>> /\ base[v].ws = x
      /\ Steady(gwData, base)
  <2>1. CASE v \in Ids(gwData)
    <3>1. base = gwData
      BY <2>1
    <3> HIDE DEF base
    <3> QED BY <1>0, <2>1, <3>1, SteadySame
  <2>2. CASE v \notin Ids(gwData)
    <3>1. base = Create(gwData, v, x)
      BY <2>2
    <3> HIDE DEF base, x
    <3> QED BY <1>0, <1>1, <2>2, <3>1, GwCreated, SteadyCreated
  <2> QED BY <2>1, <2>2
<1>4. First(base, x, v)
  <2>1. CASE v \in Ids(gwData)
    <3>1. base = gwData
      BY <2>1
    <3> HIDE DEF base
    <3> QED BY <1>0, <1>1, <2>1, <3>1
  <2>2. CASE v \notin Ids(gwData)
    <3> HIDE DEF base
    <3>1. \A u \in OfUsers(base, x, AgentConv) : u = v
      BY <1>1, <1>3, <2>2 DEF OfUsers
    <3>2. v \in OfUsers(base, x, AgentConv)
      BY <1>1, <1>3, <2>2 DEF OfUsers
    <3> QED BY <3>1, <3>2 DEF First
  <2> QED BY <2>1, <2>2
<1> HIDE DEF base, said, d2, x
<1>5. GwData(d2) /\ Ids(d2) = Ids(base)
  BY <1>0, <1>2, <1>3, GwAdded
<1>6. \A y, u : First(base, y, u) => First(d2, y, u)
  BY <1>0, <1>2, <1>3, <1>4, FrontAdded
<1>7. /\ \A u \in Ids(base) : \A i \in DOMAIN d2[u].messages :
             \/ i \in DOMAIN base[u].messages /\ d2[u].messages[i] = base[u].messages[i]
             \/ u = v /\ i = Len(base[u].messages) + 1 /\ d2[u].messages[i] = said
      /\ \A u \in Ids(base) : \A i \in DOMAIN base[u].messages :
             i \in DOMAIN d2[u].messages /\ d2[u].messages[i] = base[u].messages[i]
      /\ v \in Ids(base) => /\ Len(base[v].messages) + 1 \in DOMAIN d2[v].messages
                            /\ d2[v].messages[Len(base[v].messages) + 1] = said
  BY <1>0, <1>2, <1>3, GwAppended
\* What was there before, and the new message.
<1>8. ASSUME NEW u \in Ids(d2), NEW i \in DOMAIN d2[u].messages
      PROVE  \/ u \in Ids(gwData) /\ i \in DOMAIN gwData[u].messages /\ d2[u].messages[i] = gwData[u].messages[i]
             \/ u = v /\ i = Len(base[v].messages) + 1 /\ d2[u].messages[i] = said
  <2>0. DOMAIN <<>> = {}
    OBVIOUS
  <2>1. CASE u \in Ids(gwData)
    BY <1>3, <1>5, <1>7, <1>8, <2>1
  <2>2. CASE u \notin Ids(gwData)
    BY <1>3, <1>5, <1>7, <1>8, <2>0, <2>2
  <2> QED BY <2>1, <2>2
<1>9. Steady(gwData, d2)
  BY <1>3, <1>5, <1>6 DEF Steady
<1>10. CanonicalKept
  BY <1>0, <1>5, <1>9, SteadyKept DEF CanonicalKept, d2
<1>11. said.of = m /\ said = [role |-> "user", of |-> m]
  BY DEF said
<1>12. gwConv'[m] = v /\ \A n \in Message : n # m => gwConv'[n] = gwConv[n]
  BY <1>0
<1>13. ASSUME NEW n \in gwSeen', gwConv'[n] \in Ids(d2)
       PROVE  Holds(d2[gwConv'[n]], "user", n) /\ First(d2, WsOf[n], gwConv'[n])
  <2>1. CASE n = m
    <3>1. Holds(d2[v], "user", m)
      BY <1>3, <1>7, <1>11 DEF Holds
    <3>2. First(d2, x, v)
      BY <1>4, <1>6
    <3> QED BY <2>1, <3>1, <3>2, <1>12 DEF x
  <2>2. CASE n # m
    <3> DEFINE u == gwConv[n]
    <3>1. n \in gwSeen /\ n \in Message /\ gwConv'[n] = u
      BY <1>0, <1>12, <1>13, <2>2
    <3>2. u \in gwMade
      BY <3>1 DEF DataInv, Placed
    <3>3. u \in Ids(gwData)
      BY <1>1, <1>3, <1>5, <1>13, <3>1, <3>2
    <3>4. Holds(gwData[u], "user", n) /\ First(gwData, WsOf[n], u)
      BY <3>1, <3>3 DEF DataInv, Placed
    <3>5. gwData[u].messages # <<>>
      <4>1. DOMAIN <<>> = {}
        OBVIOUS
      <4> QED BY <3>4, <4>1 DEF Holds
    <3>6. WsOf[n] \in Workspace /\ u \in Ids(d2)
      BY <1>3, <1>5, <3>1, <3>3, GatewayAssumption
    <3>7. First(d2, WsOf[n], u)
      BY <1>9, <3>4, <3>5, <3>6 DEF Steady
    <3>8. Holds(d2[u], "user", n)
      <4>1. \A i \in DOMAIN gwData[u].messages :
                i \in DOMAIN d2[u].messages /\ d2[u].messages[i] = gwData[u].messages[i]
        BY <1>3, <1>7, <3>3
      <4> QED BY <3>4, <4>1 DEF Holds
    <3> QED BY <3>1, <3>7, <3>8
  <2> QED BY <2>1, <2>2
<1>14. ASSUME NEW u \in Ids(d2), NEW i \in DOMAIN d2[u].messages, d2[u].messages[i].of \in Message
       PROVE  u = gwConv'[d2[u].messages[i].of]
  <2>1. CASE u = v /\ d2[u].messages[i] = said
    BY <1>11, <1>12, <2>1
  <2>2. CASE u \in Ids(gwData) /\ i \in DOMAIN gwData[u].messages /\ d2[u].messages[i] = gwData[u].messages[i]
    <3>1. u = gwConv[d2[u].messages[i].of]
      BY <1>14, <2>2 DEF DataInv, Placed
    <3>2. u # NoConv
      BY <1>0, <2>2, GatewayAssumption DEF GwData
    <3>3. gwConv[m] = NoConv
      BY DEF DataInv, Placed
    <3> QED BY <1>12, <1>14, <3>1, <3>2, <3>3
  <2> QED BY <1>8, <1>14, <2>1, <2>2
<1>15. ASSUME NEW n \in Message, NEW u \in Ids(d2), NEW y \in Ids(d2),
              NEW i \in DOMAIN d2[u].messages, NEW j \in DOMAIN d2[y].messages,
              d2[u].messages[i] = [role |-> "user", of |-> n],
              d2[y].messages[j] = [role |-> "user", of |-> n]
       PROVE  u = y /\ i = j
  <2>1. CASE n = m
    <3>1. ASSUME NEW z \in Ids(gwData), NEW k \in DOMAIN gwData[z].messages PROVE gwData[z].messages[k].of # m
      <4>1. z # NoConv
        BY <1>0, GatewayAssumption DEF GwData
      <4> QED BY <4>1 DEF DataInv, Placed
    <3>2. [role |-> "user", of |-> n].of = m
      BY <2>1
    <3>3. u = v /\ i = Len(base[v].messages) + 1
      BY <1>8, <1>15, <3>1, <3>2
    <3>4. y = v /\ j = Len(base[v].messages) + 1
      BY <1>8, <1>15, <3>1, <3>2
    <3> QED BY <3>3, <3>4
  <2>2. CASE n # m
    <3>1. said # [role |-> "user", of |-> n]
      BY <1>11, <2>2
    <3>2. u \in Ids(gwData) /\ i \in DOMAIN gwData[u].messages /\ gwData[u].messages[i] = [role |-> "user", of |-> n]
      BY <1>8, <1>15, <3>1
    <3>3. y \in Ids(gwData) /\ j \in DOMAIN gwData[y].messages /\ gwData[y].messages[j] = [role |-> "user", of |-> n]
      BY <1>8, <1>15, <3>1
    <3> QED BY <1>15, <3>2, <3>3 DEF DataInv, Placed, MessageOnce
  <2> QED BY <2>1, <2>2
<1>16. MessageOnce'
  BY <1>15 DEF MessageOnce, d2
<1>17. \A n \in Message \ gwSeen' : gwConv'[n] = NoConv
  BY <1>12 DEF DataInv, Placed
<1>18. \A n \in gwSeen' : gwConv'[n] \in gwMade'
  BY <1>0, <1>12 DEF DataInv, Placed
<1>19. Placed'
  BY <1>13, <1>14, <1>16, <1>17, <1>18 DEF Placed, d2
<1> QED BY <1>0, <1>3, <1>5, <1>10, <1>19 DEF DataInv, d2

-----------------------------------------------------------------------------
GwShape ==
  /\ gwSocket \in [Client -> {"new", "open", "closed"}]
  /\ gwViewing \in [Client -> Conv \cup {NoConv}]
  /\ gwProcessing \in [Client -> BOOLEAN]
  /\ gwMade \subseteq Conv
  /\ gwSeen \subseteq Message
  /\ gwRun \in [Message -> Run]
  /\ gwSender \in [Message -> Client \cup {NoClient}]
  /\ gwConv \in [Message -> Conv \cup {NoConv}]
  /\ gwCall \subseteq Message
  /\ gwQueue \in [Conv -> Seq(Message)]
  /\ gwActive \in [Workspace -> Nat]
  /\ gwBuffer \in [Conv -> Buffer \cup {NoBuffer}]
  /\ gwText \in [Message -> Text]

Rest == GwShape /\ Unseen /\ TextKept

\* The invariant in two parts, conversations and the rest.
LEMMA GwSplit == GwInv <=> DataInv /\ Rest
BY DEF GwInv, DataInv, Rest, GatewayTypeOK, GwShape, GwData

\* The same of the next state.
LEMMA GwSplitNext == GwInv' <=> DataInv' /\ Rest'
BY DEF GwInv, DataInv, Rest, GatewayTypeOK, GwShape, GwData

\* A client connects or leaves.
LEMMA GwConnected ==
  ASSUME Rest, NEW c \in Client,
         gwSocket' = [gwSocket EXCEPT ![c] = "open"] \/ gwSocket' = [gwSocket EXCEPT ![c] = "closed"],
         UNCHANGED <<gwViewing, gwProcessing, gwData, gwMade, gwSeen, gwExecutor, gwBuffer, gwText>>
  PROVE  Rest'
<1>1. gwSocket' \in [Client -> {"new", "open", "closed"}]
  BY DEF Rest, GwShape
<1> QED BY <1>1 DEF Rest, GwShape, Unseen, TextKept, gwExecutor

\* A message with a run or a text was seen.
LEMMA SeenIs ==
  ASSUME GwInv, NEW m \in Message, gwText[m] # "unwritten" \/ gwRun[m] # "new"
  PROVE  m \in gwSeen /\ gwConv[m] \in Conv
<1>1. m \in gwSeen
  BY DEF GwInv, Unseen
<1> QED BY <1>1, SeenConv DEF GwInv

\* A buffer that is taken away has had its text shown or marked as expired.
LEMMA GwTaken ==
  ASSUME GwInv, NEW v \in Conv, NEW S \in SUBSET gwSeen, NEW how \in {"shown", "expired"},
         gwBuffer[v] # NoBuffer => S = gwBuffer[v].text,
         gwBuffer' = [gwBuffer EXCEPT ![v] = NoBuffer] \/ gwBuffer' = gwBuffer,
         gwText' = [m \in Message |-> IF m \in S THEN how ELSE gwText[m]],
         gwViewing' \in [Client -> Conv \cup {NoConv}],
         UNCHANGED <<gwSocket, gwProcessing, gwMade, gwSeen, gwExecutor>>
  PROVE  Rest'
<1>0. /\ gwText \in [Message -> Text] /\ gwBuffer \in [Conv -> Buffer \cup {NoBuffer}]
      /\ Rest /\ Unseen
  BY GwSplit DEF Rest, GwShape
<1>1. gwText' \in [Message -> Text]
  BY <1>0 DEF Text
<1>2. gwBuffer' \in [Conv -> Buffer \cup {NoBuffer}]
  BY <1>0
<1>3. \A m \in Message : gwText'[m] = IF m \in S THEN how ELSE gwText[m]
  OBVIOUS
<1>4. /\ \A u \in Conv : u # v => gwBuffer'[u] = gwBuffer[u]
      /\ gwBuffer'[v] = NoBuffer \/ gwBuffer'[v] = gwBuffer[v]
  BY <1>0
<1>5. ASSUME NEW m \in Message, gwText'[m] = "buffered"
      PROVE  gwBuffer'[gwConv[m]] # NoBuffer /\ m \in gwBuffer'[gwConv[m]].text
  <2>1. m \notin S /\ gwText[m] = "buffered"
    BY <1>3, <1>5
  <2>2. gwBuffer[gwConv[m]] # NoBuffer /\ m \in gwBuffer[gwConv[m]].text
    BY <1>0, <2>1 DEF Rest, TextKept
  <2>3. gwConv[m] # v
    BY <2>1, <2>2
  <2>4. gwConv[m] \in Conv
    BY <2>1, SeenIs
  <2> QED BY <1>4, <2>2, <2>3, <2>4
<1>6. TextKept'
  BY <1>5 DEF TextKept, gwExecutor
<1>7. Unseen'
  <2>1. \A u \in Conv : gwBuffer'[u] # NoBuffer => gwBuffer'[u].text \subseteq gwSeen
    BY <1>0, <1>4 DEF Unseen
  <2> QED BY <1>0, <1>3, <2>1 DEF Unseen, gwExecutor
<1> QED BY <1>0, <1>1, <1>2, <1>6, <1>7 DEF Rest, GwShape, gwExecutor

\* A client selects a conversation and gets what was buffered.
LEMMA GwSelected ==
  ASSUME GwInv, NEW c \in Client, NEW v \in gwMade, Select(c, v)
  PROVE  Rest'
<1>1. v \in Conv /\ gwViewing \in [Client -> Conv \cup {NoConv}] /\ Unseen
  BY GwSplit DEF Rest, GwShape
<1>2. Replayed(v) \in SUBSET gwSeen /\ (gwBuffer[v] # NoBuffer => Replayed(v) = gwBuffer[v].text)
  BY <1>1 DEF Replayed, Unseen
<1>3. gwViewing' \in [Client -> Conv \cup {NoConv}]
  BY <1>1 DEF Select
<1> QED BY <1>1, <1>2, <1>3, GwTaken DEF Select

\* A buffer that nobody asked for expires.
LEMMA GwExpired ==
  ASSUME GwInv, NEW v \in Conv, ExpireBuffer(v)
  PROVE  Rest'
<1>1. gwViewing \in [Client -> Conv \cup {NoConv}] /\ Unseen
  BY GwSplit DEF Rest, GwShape
<1>2. gwBuffer[v].text \in SUBSET gwSeen
  BY <1>1 DEF ExpireBuffer, Unseen
<1>3. /\ gwViewing' = gwViewing /\ UNCHANGED <<gwSocket, gwProcessing, gwMade, gwSeen, gwExecutor>>
      /\ gwBuffer' = [gwBuffer EXCEPT ![v] = NoBuffer]
      /\ gwText' = [m \in Message |-> IF m \in gwBuffer[v].text THEN "expired" ELSE gwText[m]]
  BY DEF ExpireBuffer, gwClients
<1> QED BY <1>1, <1>2, <1>3, GwTaken

\* An event keeps what text its buffer had, and adds its own.
LEMMA GwDelivered ==
  ASSUME GwInv, NEW m \in gwSeen, NEW S \in SUBSET gwSeen, NEW final \in BOOLEAN, NEW b, b = Deliver(m, S, final)
  PROVE  /\ b \in [Conv -> Buffer \cup {NoBuffer}]
         /\ \A u \in Conv : gwBuffer[u] # NoBuffer =>
                b[u] # NoBuffer /\ gwBuffer[u].text \subseteq b[u].text
         /\ \A u \in Conv : b[u] # NoBuffer => b[u].text \subseteq gwSeen
         /\ ~Receives(m) => b[gwConv[m]] # NoBuffer /\ S \subseteq b[gwConv[m]].text
<1>0. /\ gwBuffer \in [Conv -> Buffer \cup {NoBuffer}] /\ Unseen /\ gwConv[m] \in Conv
      /\ gwSeen \subseteq Message
  BY GwSplit, SeenConv DEF Rest, GwShape, GwInv
<1>1. CASE Receives(m)
  BY <1>0, <1>1 DEF Deliver, Unseen
<1>2. CASE ~Receives(m)
  <2> DEFINE v == gwConv[m]
             new == Buffered(gwBuffer[v], S, final)
  <2>1. b = [gwBuffer EXCEPT ![v] = new]
    BY <1>2 DEF Deliver
  <2> DEFINE old == IF gwBuffer[v] = NoBuffer THEN [processing |-> TRUE, text |-> {}] ELSE gwBuffer[v]
  <2>2. new = [processing |-> old.processing /\ ~final, text |-> old.text \cup S]
    BY DEF Buffered
  <2>3. old \in [processing : BOOLEAN, text : SUBSET Message] /\ old.text \subseteq gwSeen
    <3>1. CASE gwBuffer[v] = NoBuffer
      BY <3>1
    <3>2. CASE gwBuffer[v] # NoBuffer
      BY <1>0, <3>2 DEF Buffer, Unseen
    <3> QED BY <3>1, <3>2
  <2>4. gwBuffer[v] # NoBuffer => old = gwBuffer[v]
    OBVIOUS
  <2> HIDE DEF old
  <2>5. (old.processing /\ ~final) \in BOOLEAN
    OBVIOUS
  <2>6. old.text \cup S \in SUBSET Message
    BY <1>0, <2>3
  <2>7. new \in [processing : BOOLEAN, text : SUBSET Message] /\ new.text = old.text \cup S
    BY <2>2, <2>5, <2>6
  <2> HIDE DEF new
  <2>8. new \in Buffer /\ new # NoBuffer
    BY <2>7, GatewayAssumption DEF Buffer
  <2> HIDE DEF v
  <2>9. v \in Conv
    BY <1>0 DEF v
  <2>10. b[v] = new /\ b \in [Conv -> Buffer \cup {NoBuffer}] /\ \A u \in Conv : u # v => b[u] = gwBuffer[u]
    BY <1>0, <2>1, <2>8, <2>9
  <2>11. b[v] # NoBuffer /\ S \subseteq b[v].text /\ b[v].text \subseteq gwSeen
    BY <2>3, <2>7, <2>8, <2>10
  <2>12. \A u \in Conv : gwBuffer[u] # NoBuffer => b[u] # NoBuffer /\ gwBuffer[u].text \subseteq b[u].text
    BY <2>4, <2>7, <2>8, <2>10
  <2>13. \A u \in Conv : b[u] # NoBuffer => b[u].text \subseteq gwSeen
    BY <1>0, <2>10, <2>11 DEF Unseen
  <2> QED BY <2>10, <2>11, <2>12, <2>13 DEF v
<1> QED BY <1>1, <1>2

\* A run streams text.
LEMMA GwStreamed ==
  ASSUME GwInv, NEW m \in Message, Stream(m)
  PROVE  Rest'
<1>0. /\ gwRun[m] = "running" /\ gwText[m] = "unwritten" /\ gwBuffer' = Deliver(m, {m}, FALSE)
      /\ gwText' = [gwText EXCEPT ![m] = IF Receives(m) THEN "shown" ELSE "buffered"]
      /\ UNCHANGED <<gwClients, gwData, gwMade, gwSeen, gwExecutor>>
  BY DEF Stream
<1>1. m \in gwSeen /\ gwConv[m] \in Conv
  BY <1>0, SeenIs
<1>2. Rest
  BY GwSplit
<1> DEFINE b == gwBuffer'
<1>3. /\ b \in [Conv -> Buffer \cup {NoBuffer}]
      /\ \A u \in Conv : gwBuffer[u] # NoBuffer => b[u] # NoBuffer /\ gwBuffer[u].text \subseteq b[u].text
      /\ \A u \in Conv : b[u] # NoBuffer => b[u].text \subseteq gwSeen
      /\ ~Receives(m) => b[gwConv[m]] # NoBuffer /\ {m} \subseteq b[gwConv[m]].text
  <2>1. b = Deliver(m, {m}, FALSE) /\ {m} \in SUBSET gwSeen
    BY <1>0, <1>1
  <2> HIDE DEF b
  <2> QED BY <1>1, <2>1, GwDelivered
<1>4. gwText' \in [Message -> Text] /\ gwText'[m] = (IF Receives(m) THEN "shown" ELSE "buffered")
      /\ \A n \in Message : n # m => gwText'[n] = gwText[n]
  BY <1>0, <1>2 DEF Rest, GwShape, Text
<1>5. ASSUME NEW n \in Message, gwText'[n] = "buffered"
      PROVE  b[gwConv[n]] # NoBuffer /\ n \in b[gwConv[n]].text
  <2>1. CASE n = m
    BY <1>3, <1>4, <1>5, <2>1
  <2>2. CASE n # m
    <3>1. gwText[n] = "buffered"
      BY <1>4, <1>5, <2>2
    <3>2. gwConv[n] \in Conv
      BY <3>1, SeenIs
    <3>3. gwBuffer[gwConv[n]] # NoBuffer /\ n \in gwBuffer[gwConv[n]].text
      BY <1>2, <3>1 DEF Rest, TextKept
    <3> QED BY <1>3, <3>2, <3>3
  <2> QED BY <2>1, <2>2
<1>6. TextKept'
  BY <1>0, <1>5 DEF TextKept, gwExecutor
<1>7. Unseen'
  BY <1>0, <1>1, <1>2, <1>3, <1>4 DEF Rest, Unseen, gwExecutor
<1> QED BY <1>0, <1>2, <1>3, <1>4, <1>6, <1>7 DEF Rest, GwShape, gwExecutor, gwClients

\* A client sends a message.
LEMMA GwSent ==
  ASSUME GwInv, NEW c \in Client, NEW m \in Message, Send(c, m)
  PROVE  Rest' /\ DataInv' /\ CanonicalKept
<1>1. /\ Open(c) /\ m \notin gwSeen /\ gwSeen' = gwSeen \cup {m}
      /\ UNCHANGED <<gwSocket, gwBuffer, gwText>>
  BY DEF Send, Remembered
<1>2. PICK v \in Target(m) :
          /\ gwViewing' = [gwViewing EXCEPT ![c] = v]
          /\ gwData' = WithUser(m, v)
          /\ gwMade' = gwMade \cup {v}
          /\ gwSender' = [gwSender EXCEPT ![m] = c]
          /\ gwConv' = [gwConv EXCEPT ![m] = v]
          /\ gwProcessing' = [gwProcessing EXCEPT ![c] = TRUE]
          /\ IF IsRunning(v)
             THEN /\ gwRun' = [gwRun EXCEPT ![m] = "queued"]
                  /\ gwQueue' = [gwQueue EXCEPT ![v] = Append(gwQueue[v], m)]
                  /\ UNCHANGED <<gwCall, gwActive>>
             ELSE /\ gwRun' = [gwRun EXCEPT ![m] = "running"]
                  /\ gwCall' = gwCall \cup {m}
                  /\ gwActive' = [gwActive EXCEPT ![WsOf[m]] = gwActive[WsOf[m]] + 1]
                  /\ UNCHANGED gwQueue
  BY DEF Send
<1>3. DataInv /\ GatewayTypeOK /\ Rest
  BY GwSplit DEF GwInv
<1>4. v \in Conv
  BY <1>3, TargetIs
<1>5. DataInv' /\ CanonicalKept
  BY <1>1, <1>2, <1>3, DataSent
<1>6. /\ gwRun' \in [Message -> Run] /\ gwCall' \subseteq Message /\ gwQueue' \in [Conv -> Seq(Message)]
      /\ gwActive' \in [Workspace -> Nat]
      /\ \A n \in Message : n # m => gwRun'[n] = gwRun[n]
      /\ \A u \in Conv : \A i \in DOMAIN gwQueue'[u] : gwQueue'[u][i] \in gwSeen \cup {m}
  <2>0. /\ gwRun \in [Message -> Run] /\ gwCall \subseteq Message /\ gwQueue \in [Conv -> Seq(Message)]
        /\ gwActive \in [Workspace -> Nat] /\ Unseen /\ WsOf[m] \in Workspace
    BY <1>3, GatewayAssumption DEF Rest, GwShape
  <2>1. CASE IsRunning(v)
    <3>1. gwRun' \in [Message -> Run] /\ \A n \in Message : n # m => gwRun'[n] = gwRun[n]
      BY <1>2, <2>0, <2>1 DEF Run
    <3>2. gwQueue[v] \in Seq(Message)
      BY <1>4, <2>0
    <3>3. /\ Append(gwQueue[v], m) \in Seq(Message)
          /\ Len(Append(gwQueue[v], m)) = Len(gwQueue[v]) + 1
          /\ \A k \in 1 .. Len(gwQueue[v]) : Append(gwQueue[v], m)[k] = gwQueue[v][k]
          /\ Append(gwQueue[v], m)[Len(gwQueue[v]) + 1] = m
          /\ Len(gwQueue[v]) \in Nat /\ DOMAIN gwQueue[v] = 1 .. Len(gwQueue[v])
      BY <3>2, AppendProperties, LenProperties
    <3>4. /\ gwQueue' \in [Conv -> Seq(Message)] /\ gwQueue'[v] = Append(gwQueue[v], m)
          /\ \A u \in Conv : u # v => gwQueue'[u] = gwQueue[u]
      BY <1>2, <1>4, <2>0, <2>1, <3>3
    <3>5. ASSUME NEW u \in Conv, NEW i \in DOMAIN gwQueue'[u] PROVE gwQueue'[u][i] \in gwSeen \cup {m}
      <4>1. CASE u # v
        BY <2>0, <3>4, <3>5, <4>1 DEF Unseen
      <4>2. CASE u = v
        <5>1. DOMAIN gwQueue'[v] = 1 .. Len(gwQueue[v]) + 1
          BY <3>3, <3>4, LenProperties
        <5>2. i \in 1 .. Len(gwQueue[v]) + 1
          BY <3>5, <4>2, <5>1
        <5>3. CASE i = Len(gwQueue[v]) + 1
          BY <3>3, <3>4, <4>2, <5>3
        <5>4. CASE i # Len(gwQueue[v]) + 1
          <6>1. i \in 1 .. Len(gwQueue[v])
            BY <3>3, <5>2, <5>4
          <6> QED BY <1>4, <2>0, <3>3, <3>4, <4>2, <6>1 DEF Unseen
        <5> QED BY <5>3, <5>4
      <4> QED BY <4>1, <4>2
    <3> QED BY <1>2, <2>0, <2>1, <3>1, <3>4, <3>5
  <2>2. CASE ~IsRunning(v)
    <3>1. gwRun' \in [Message -> Run] /\ \A n \in Message : n # m => gwRun'[n] = gwRun[n]
      BY <1>2, <2>0, <2>2 DEF Run
    <3>2. gwActive[WsOf[m]] + 1 \in Nat
      BY <2>0
    <3>3. gwActive' \in [Workspace -> Nat]
      BY <1>2, <2>0, <2>2, <3>2
    <3>4. gwCall' \subseteq Message /\ gwQueue' = gwQueue
      BY <1>2, <2>0, <2>2
    <3> QED BY <2>0, <3>1, <3>3, <3>4 DEF Unseen
  <2> QED BY <2>1, <2>2
<1>7. /\ gwViewing' \in [Client -> Conv \cup {NoConv}] /\ gwProcessing' \in [Client -> BOOLEAN]
      /\ gwSender' \in [Message -> Client \cup {NoClient}] /\ gwConv' \in [Message -> Conv \cup {NoConv}]
      /\ gwMade' \subseteq Conv /\ gwSeen' \subseteq Message
      /\ \A n \in Message : n # m => gwConv'[n] = gwConv[n]
  BY <1>1, <1>2, <1>3, <1>4 DEF Rest, GwShape
<1>8. GwShape'
  BY <1>1, <1>3, <1>6, <1>7 DEF Rest, GwShape
<1>9. Unseen'
  BY <1>1, <1>3, <1>6 DEF Rest, Unseen
<1>10. TextKept'
  <2>1. gwText[m] = "unwritten"
    BY <1>1, <1>3 DEF Rest, Unseen
  <2> QED BY <1>1, <1>3, <1>7, <2>1 DEF Rest, TextKept
<1> QED BY <1>5, <1>8, <1>9, <1>10 DEF Rest

\* The process of a run ends.
LEMMA GwExited ==
  ASSUME GwInv, NEW m \in Message, Exit(m)
  PROVE  Rest'
<1>1. m \in gwSeen
  BY SeenIs DEF Exit
<1>2. gwRun' \in [Message -> Run] /\ \A n \in Message : n # m => gwRun'[n] = gwRun[n]
  BY GwSplit DEF Rest, GwShape, Exit, Run
<1> QED BY <1>1, <1>2, GwSplit DEF Rest, GwShape, Unseen, TextKept, Exit, gwClients

\* A client aborts a run.
LEMMA GwAborted ==
  ASSUME GwInv, NEW c \in Client, Abort(c)
  PROVE  Rest'
<1> DEFINE v == gwViewing[c]
<1>0. Rest
  BY GwSplit
<1>1. /\ v # NoConv
      /\ gwRun' = [m \in Message |->
              IF gwRun[m] = "running" /\ gwConv[m] = v THEN "ending"
              ELSE IF \E i \in DOMAIN gwQueue[v] : gwQueue[v][i] = m THEN "dropped"
              ELSE gwRun[m]]
      /\ gwQueue' = [gwQueue EXCEPT ![v] = <<>>]
      /\ UNCHANGED <<gwClients, gwData, gwMade, gwSeen, gwSender, gwConv, gwCall, gwActive, gwBuffer, gwText>>
  BY DEF Abort
<1>2. v \in Conv
  BY <1>0, <1>1 DEF Rest, GwShape
<1> HIDE DEF v
<1>3. gwRun' \in [Message -> Run]
  BY <1>0, <1>1 DEF Rest, GwShape, Run
<1>4. ASSUME NEW m \in Message \ gwSeen PROVE gwRun'[m] = "new"
  <2>1. gwRun[m] = "new" /\ ~(\E i \in DOMAIN gwQueue[v] : gwQueue[v][i] = m)
    BY <1>0, <1>2, <1>4 DEF Rest, Unseen
  <2> QED BY <1>1, <2>1
<1>5. gwQueue' \in [Conv -> Seq(Message)] /\ \A u \in Conv : gwQueue'[u] = gwQueue[u] \/ gwQueue'[u] = <<>>
  <2>1. <<>> \in Seq(Message)
    BY EmptySeq
  <2> QED BY <1>0, <1>1, <2>1 DEF Rest, GwShape
<1>6. \A u \in Conv : \A i \in DOMAIN gwQueue'[u] : gwQueue'[u][i] \in gwSeen
  <2>1. DOMAIN <<>> = {}
    OBVIOUS
  <2> QED BY <1>0, <1>5, <2>1 DEF Rest, Unseen
<1>7. Unseen'
  BY <1>0, <1>1, <1>4, <1>6 DEF Rest, Unseen
<1> QED BY <1>0, <1>1, <1>3, <1>5, <1>7 DEF Rest, GwShape, TextKept, gwClients

\* The end of a run, with what its last event did to the buffers.
LEMMA GwEnded ==
  ASSUME GwInv, NEW m \in Message, gwRun[m] = "ending", gwBuffer' = Deliver(m, {}, TRUE),
         NEW processing \in [Client -> BOOLEAN], NEW active \in [Workspace -> Nat],
         AfterRun(m, processing, active)
  PROVE  Rest' /\ UNCHANGED <<gwMade, gwSeen, gwConv>> /\ m \in gwSeen
<1>0. /\ Rest /\ m \in gwSeen /\ gwConv[m] \in Conv
  BY GwSplit, SeenIs
<1> DEFINE v == gwConv[m]
           next == {n \in Message : gwQueue[v] # <<>> /\ n = Head(gwQueue[v])}
           run == [n \in Message |-> IF n = m THEN "finished" ELSE IF n \in next THEN "running" ELSE gwRun[n]]
           idle == m \in gwCall /\ ~RunningIn(run, v)
<1>1. /\ gwRun' = run
      /\ gwQueue' = [gwQueue EXCEPT ![v] = IF next = {} THEN gwQueue[v] ELSE Tail(gwQueue[v])]
      /\ gwCall' = gwCall \ {m}
      /\ gwProcessing' = IF idle THEN [processing EXCEPT ![gwSender[m]] = FALSE] ELSE processing
      /\ gwActive' = IF idle THEN [active EXCEPT ![WsOf[m]] = Idled(active[WsOf[m]])] ELSE active
      /\ UNCHANGED <<gwSocket, gwViewing, gwSeen, gwMade, gwSender, gwConv, gwText>>
  BY DEF AfterRun
<1>2. gwQueue[v] \in Seq(Message) /\ gwQueue \in [Conv -> Seq(Message)]
  BY <1>0 DEF Rest, GwShape
<1>3. next \subseteq gwSeen
  <2>1. ASSUME gwQueue[v] # <<>> PROVE Head(gwQueue[v]) \in gwSeen
    <3>1. Len(gwQueue[v]) \in Nat \ {0} /\ DOMAIN gwQueue[v] = 1 .. Len(gwQueue[v])
      BY <1>2, <2>1, EmptySeq, LenProperties
    <3>2. 1 \in DOMAIN gwQueue[v] /\ Head(gwQueue[v]) = gwQueue[v][1]
      BY <3>1
    <3> QED BY <1>0, <3>2 DEF Rest, Unseen
  <2> QED BY <2>1
<1>4. next # {} => gwQueue[v] # <<>>
  OBVIOUS
<1> DEFINE rest == IF next = {} THEN gwQueue[v] ELSE Tail(gwQueue[v])
<1>5. rest \in Seq(Message) /\ \A i \in DOMAIN rest : rest[i] \in gwSeen
  <2>1. \A i \in DOMAIN gwQueue[v] : gwQueue[v][i] \in gwSeen
    BY <1>0 DEF Rest, Unseen
  <2>2. CASE next = {}
    BY <1>2, <2>1, <2>2
  <2>3. CASE next # {}
    <3>1. rest = Tail(gwQueue[v]) /\ gwQueue[v] # <<>>
      BY <1>4, <2>3
    <3>2. /\ Tail(gwQueue[v]) \in Seq(Message) /\ Len(Tail(gwQueue[v])) = Len(gwQueue[v]) - 1
          /\ \A i \in 1 .. Len(Tail(gwQueue[v])) : Tail(gwQueue[v])[i] = gwQueue[v][i + 1]
      BY <1>2, <3>1, HeadTailProperties
    <3>3. Len(gwQueue[v]) \in Nat /\ DOMAIN gwQueue[v] = 1 .. Len(gwQueue[v])
          /\ DOMAIN Tail(gwQueue[v]) = 1 .. Len(Tail(gwQueue[v]))
      BY <1>2, <3>2, LenProperties
    <3>4. \A i \in 1 .. Len(Tail(gwQueue[v])) : i + 1 \in 1 .. Len(gwQueue[v])
      BY <3>2, <3>3
    <3> QED BY <2>1, <3>1, <3>2, <3>3, <3>4
  <2> QED BY <2>2, <2>3
<1> HIDE DEF next, idle, rest
<1>6. gwRun' \in [Message -> Run] /\ \A n \in Message \ gwSeen : gwRun'[n] = "new"
  <2>1. \A n \in Message : gwRun'[n] = IF n = m THEN "finished" ELSE IF n \in next THEN "running" ELSE gwRun[n]
    BY <1>1
  <2>2. gwRun' \in [Message -> Run]
    BY <1>0, <1>1 DEF Rest, GwShape, Run
  <2> QED BY <1>0, <1>3, <2>1, <2>2 DEF Rest, Unseen
<1> HIDE DEF run
<1>7. gwQueue' = [gwQueue EXCEPT ![v] = rest]
  BY <1>1 DEF rest
<1>8. gwQueue' \in [Conv -> Seq(Message)] /\ \A u \in Conv : \A i \in DOMAIN gwQueue'[u] : gwQueue'[u][i] \in gwSeen
  BY <1>0, <1>2, <1>5, <1>7 DEF Rest, Unseen
<1>9. gwProcessing' \in [Client -> BOOLEAN]
  BY <1>1
<1>10. gwActive' \in [Workspace -> Nat]
  <2>1. WsOf[m] \in Workspace
    BY GatewayAssumption
  <2>2. active[WsOf[m]] \in Nat
    BY <2>1
  <2>3. Idled(active[WsOf[m]]) \in Nat
    BY <2>2 DEF Idled
  <2> QED BY <1>1, <2>3
<1>11. /\ gwBuffer' \in [Conv -> Buffer \cup {NoBuffer}]
       /\ \A u \in Conv : gwBuffer[u] # NoBuffer =>
              gwBuffer'[u] # NoBuffer /\ gwBuffer[u].text \subseteq gwBuffer'[u].text
       /\ \A u \in Conv : gwBuffer'[u] # NoBuffer => gwBuffer'[u].text \subseteq gwSeen
  <2>1. {} \in SUBSET gwSeen /\ TRUE \in BOOLEAN /\ gwBuffer' = Deliver(m, {}, TRUE)
    OBVIOUS
  <2> QED BY <1>0, <2>1, GwDelivered
<1>12. TextKept'
  <2>1. ASSUME NEW n \in Message, gwText[n] = "buffered"
        PROVE  gwBuffer'[gwConv[n]] # NoBuffer /\ n \in gwBuffer'[gwConv[n]].text
    <3>1. gwConv[n] \in Conv
      BY <2>1, SeenIs
    <3> QED BY <1>0, <1>11, <2>1, <3>1 DEF Rest, TextKept
  <2> QED BY <1>1, <2>1 DEF TextKept
<1>13. Unseen'
  BY <1>0, <1>1, <1>6, <1>8, <1>11 DEF Rest, Unseen
<1>14. GwShape'
  BY <1>0, <1>1, <1>6, <1>8, <1>9, <1>10, <1>11 DEF Rest, GwShape
<1> QED BY <1>0, <1>1, <1>12, <1>13, <1>14 DEF Rest

\* Complete and Fail give the callback's marks to AfterRun.
LEMMA GwCompleted ==
  ASSUME GwInv, NEW m \in Message, Complete(m)
  PROVE  Rest' /\ DataInv' /\ CanonicalKept
<1>1. gwRun[m] = "ending" /\ gwData' = Answered(gwConv[m], m) /\ gwBuffer' = Deliver(m, {}, TRUE)
      /\ AfterRun(m, gwProcessing, gwActive)
  BY DEF Complete
<1>2. gwProcessing \in [Client -> BOOLEAN] /\ gwActive \in [Workspace -> Nat]
  BY GwSplit DEF Rest, GwShape
<1>3. Rest' /\ UNCHANGED <<gwMade, gwSeen, gwConv>> /\ m \in gwSeen
  BY <1>1, <1>2, GwEnded
<1>4. DataInv' /\ CanonicalKept
  BY <1>1, <1>3, DataAnswered DEF GwInv
<1> QED BY <1>3, <1>4

\* A run fails.
LEMMA GwFailed ==
  ASSUME GwInv, NEW m \in Message, Fail(m)
  PROVE  Rest' /\ DataInv' /\ CanonicalKept
<1> DEFINE processing == [gwProcessing EXCEPT ![gwSender[m]] = FALSE]
           active == [gwActive EXCEPT ![WsOf[m]] = Idled(gwActive[WsOf[m]])]
<1>1. gwRun[m] = "ending" /\ gwData' = gwData /\ gwBuffer' = Deliver(m, {}, TRUE)
      /\ AfterRun(m, processing, active)
  BY DEF Fail
<1>2. processing \in [Client -> BOOLEAN]
  BY GwSplit DEF Rest, GwShape
<1>3. active \in [Workspace -> Nat]
  <2>1. gwActive \in [Workspace -> Nat] /\ WsOf[m] \in Workspace
    BY GwSplit, GatewayAssumption DEF Rest, GwShape
  <2>2. Idled(gwActive[WsOf[m]]) \in Nat
    BY <2>1 DEF Idled
  <2> QED BY <2>1, <2>2
<1> HIDE DEF processing, active
<1>4. Rest' /\ UNCHANGED <<gwMade, gwSeen, gwConv>>
  BY <1>1, <1>2, <1>3, GwEnded
<1>5. DataInv' /\ CanonicalKept
  BY <1>1, <1>4, DataStill DEF GwInv
<1> QED BY <1>4, <1>5

\* Conversations are created or deleted elsewhere.
LEMMA GwEdited ==
  ASSUME GwInv, NEW e, EditData(e), GwData(e), Steady(gwData, e),
         \A v \in Ids(e) : IF v \in Ids(gwData) THEN e[v].messages = gwData[v].messages
                           ELSE v \notin gwMade /\ e[v].messages = <<>>
  PROVE  Rest' /\ DataInv' /\ CanonicalKept
<1>1. gwData' = e /\ gwMade' = gwMade \cup Ids(e) /\ UNCHANGED <<gwClients, gwSeen, gwExecutor, gwBuffer, gwText>>
  BY DEF EditData
<1>2. DataInv /\ GatewayTypeOK /\ Rest
  BY GwSplit DEF GwInv
<1>3. UNCHANGED <<gwSeen, gwConv>>
  BY <1>1 DEF gwExecutor
<1>4. DataInv' /\ CanonicalKept
  BY <1>1, <1>2, <1>3, DataEdited
<1>5. gwMade' \subseteq Conv
  BY <1>1, <1>2 DEF Rest, GwShape, GwData
<1>6. Rest'
  BY <1>1, <1>2, <1>5 DEF Rest, GwShape, Unseen, TextKept, gwExecutor, gwClients
<1> QED BY <1>4, <1>6

\* A conversation is created by a user (http-server.js:2356).
LEMMA GwChatMade ==
  ASSUME GwInv, NEW x \in Workspace, CreateChat(x)
  PROVE  Rest' /\ DataInv' /\ CanonicalKept
<1>1. PICK v \in Fresh : EditData(Create(gwData, v, x))
  BY DEF CreateChat
<1>2. GwData(gwData) /\ Ids(gwData) \subseteq gwMade
  BY DEF GwInv, DataInv
<1>3. v \in Conv /\ v \notin gwMade /\ v \notin Ids(gwData)
  BY <1>1, <1>2 DEF Fresh
<1> DEFINE e == Create(gwData, v, x)
<1>4. /\ GwData(e) /\ Ids(e) = Ids(gwData) \cup {v} /\ \A u \in Ids(gwData) : e[u] = gwData[u]
      /\ e[v].messages = <<>>
  BY <1>2, <1>3, GwCreated
<1>5. Steady(gwData, e)
  BY <1>2, <1>3, SteadyCreated
<1>6. EditData(e)
  BY <1>1
<1> HIDE DEF e
<1>7. \A u \in Ids(e) : IF u \in Ids(gwData) THEN e[u].messages = gwData[u].messages
                        ELSE u \notin gwMade /\ e[u].messages = <<>>
  BY <1>3, <1>4
<1> QED BY <1>4, <1>5, <1>6, <1>7, GwEdited

\* A conversation is deleted by a user (http-server.js:2380).
LEMMA GwChatDeleted ==
  ASSUME GwInv, NEW v \in Conv, DeleteChat(v)
  PROVE  Rest' /\ DataInv' /\ CanonicalKept
<1> DEFINE e == Without(gwData, {v})
<1>1. EditData(e) /\ GwData(gwData)
  BY DEF DeleteChat, GwInv, DataInv
<1>2. GwData(e) /\ Ids(e) = Ids(gwData) \ {v} /\ \A u \in Ids(e) : e[u].messages = gwData[u].messages
  BY <1>1, GwLeft
<1>3. Steady(gwData, e)
  BY <1>1, SteadyLeft
<1> HIDE DEF e
<1> QED BY <1>1, <1>2, <1>3, GwEdited

\* Old conversations are pruned (index.js:421).
LEMMA GwChatsPruned ==
  ASSUME GwInv, PruneChats
  PROVE  Rest' /\ DataInv' /\ CanonicalKept
<1>1. PICK aged \in SUBSET Ids(gwData) : \E data \in Pruned(gwData, aged, AgentConv) : EditData(data)
  BY DEF PruneChats
<1>2. PICK e \in Pruned(gwData, aged, AgentConv) : EditData(e)
  BY <1>1
<1>3. PICK S, T : e = Without(Without(gwData, S), T)
  BY <1>2, GwPruned
<1> DEFINE left == Without(gwData, S)
<1>4. GwData(gwData)
  BY DEF GwInv, DataInv
<1>5. GwData(left) /\ Ids(left) = Ids(gwData) \ S /\ \A u \in Ids(left) : left[u].messages = gwData[u].messages
  BY <1>4, GwLeft
<1>6. Steady(gwData, left)
  BY <1>4, SteadyLeft
<1>7. e = Without(left, T)
  BY <1>3
<1> HIDE DEF left
<1>8. GwData(e) /\ Ids(e) = Ids(left) \ T /\ \A u \in Ids(e) : e[u].messages = left[u].messages
  BY <1>5, <1>7, GwLeft
<1>9. Steady(left, e)
  BY <1>5, <1>7, SteadyLeft
<1>10. Steady(gwData, e)
  <2>1. ASSUME NEW x \in Workspace, NEW v \in Ids(e), First(gwData, x, v), gwData[v].messages # <<>>
        PROVE  First(e, x, v)
    <3>1. v \in Ids(left) /\ left[v].messages # <<>>
      BY <1>5, <1>8, <2>1
    <3>2. First(left, x, v)
      BY <1>6, <2>1, <3>1 DEF Steady
    <3> QED BY <1>9, <2>1, <3>1, <3>2 DEF Steady
  <2> QED BY <2>1 DEF Steady
<1>11. \A u \in Ids(e) : u \in Ids(gwData) /\ e[u].messages = gwData[u].messages
  BY <1>5, <1>8
<1> QED BY <1>2, <1>8, <1>10, <1>11, GwEdited

-----------------------------------------------------------------------------
\* Steps that leave the conversations alone.
LEMMA GwQuiet ==
  ASSUME GwInv, UNCHANGED <<gwData, gwMade, gwSeen, gwConv>>
  PROVE  DataInv' /\ CanonicalKept
BY DataStill DEF GwInv

\* Every step keeps the invariant and the canonical conversations.
LEMMA GwStep == GwInv /\ [GatewayNext]_gwVars => GwInv' /\ CanonicalKept
<1> SUFFICES ASSUME GwInv, [GatewayNext]_gwVars PROVE (DataInv' /\ Rest') /\ CanonicalKept
  BY GwSplitNext
<1>1. ASSUME NEW c \in Client, Connect(c) \/ Disconnect(c) PROVE Rest' /\ DataInv' /\ CanonicalKept
  <2>1. Rest'
    BY <1>1, GwSplit, GwConnected DEF Connect, Disconnect
  <2> QED BY <1>1, <2>1, GwQuiet DEF Connect, Disconnect, gwExecutor
<1>2. ASSUME NEW c \in Client, Abort(c) PROVE Rest' /\ DataInv' /\ CanonicalKept
  BY <1>2, GwAborted, GwQuiet DEF Abort
<1>3. ASSUME NEW c \in Client, NEW v \in gwMade, Select(c, v) PROVE Rest' /\ DataInv' /\ CanonicalKept
  BY <1>3, GwSelected, GwQuiet DEF Select, gwExecutor
<1>4. ASSUME NEW c \in Client, NEW m \in Message, Send(c, m) PROVE Rest' /\ DataInv' /\ CanonicalKept
  BY <1>4, GwSent
<1>5. ASSUME NEW m \in Message, Stream(m) PROVE Rest' /\ DataInv' /\ CanonicalKept
  BY <1>5, GwStreamed, GwQuiet DEF Stream, gwExecutor
<1>6. ASSUME NEW m \in Message, Exit(m) PROVE Rest' /\ DataInv' /\ CanonicalKept
  BY <1>6, GwExited, GwQuiet DEF Exit
<1>7. ASSUME NEW v \in Conv, ExpireBuffer(v) PROVE Rest' /\ DataInv' /\ CanonicalKept
  BY <1>7, GwExpired, GwQuiet DEF ExpireBuffer, gwExecutor
<1>8. ASSUME UNCHANGED gwVars PROVE Rest' /\ DataInv' /\ CanonicalKept
  <2>1. UNCHANGED <<gwClients, gwData, gwMade, gwSeen, gwExecutor, gwBuffer, gwText>>
    BY <1>8 DEF gwVars
  <2>2. Rest'
    BY <2>1, GwSplit DEF Rest, GwShape, Unseen, TextKept, gwExecutor, gwClients
  <2> QED BY <2>1, <2>2, GwQuiet DEF gwExecutor
<1> QED BY <1>1, <1>2, <1>3, <1>4, <1>5, <1>6, <1>7, <1>8, GwCompleted, GwFailed, GwChatMade,
           GwChatDeleted, GwChatsPruned DEF GatewayNext

\* The server begins with the conversations between agents only.
LEMMA GwStart == GatewayInit => GwInv
<1> SUFFICES ASSUME GatewayInit PROVE DataInv /\ Rest
  BY GwSplit
<1>1. PICK x \in Workspace : gwData = Loaded(x)
  BY DEF GatewayInit
<1> DEFINE said == [role |-> "user", of |-> NoMessage]
<1>2. gwData = [v \in AgentConv |-> [ws |-> x, messages |-> <<said>>, older |-> {}]]
  BY <1>1 DEF Loaded
<1>3. Ids(gwData) = AgentConv /\ \A v \in AgentConv : gwData[v] = [ws |-> x, messages |-> <<said>>, older |-> {}]
  BY <1>2 DEF Ids
<1>4. <<said>> \in Seq(Said) /\ DOMAIN <<said>> = {1} /\ <<said>>[1] = said
  BY DEF Said
<1>5. GwData(gwData)
  <2>1. ASSUME NEW v \in AgentConv PROVE gwData[v] \in Conversation(AgentConv)
    <3> DEFINE s == <<said>>
    <3>1. gwData[v] = [ws |-> x, messages |-> s, older |-> {}] /\ s \in Seq(Said)
      BY <1>3, <1>4
    <3> HIDE DEF s
    <3> QED BY <3>1 DEF Conversation
  <2>2. UserIds(gwData) = {}
    BY <1>3 DEF UserIds
  <2> QED BY <1>3, <2>1, <2>2, GatewayAssumption DEF GwData
<1>6. \A v \in Ids(gwData) : \A i \in DOMAIN gwData[v].messages : gwData[v].messages[i].of = NoMessage
  BY <1>3, <1>4
<1>7. NoMessage \notin Message
  BY GatewayAssumption
<1>8. MessageOnce
  <2>1. \A m \in Message : [role |-> "user", of |-> m].of = m
    OBVIOUS
  <2> QED BY <1>6, <1>7, <2>1 DEF MessageOnce
<1>9. DataInv
  BY <1>3, <1>5, <1>6, <1>7, <1>8 DEF DataInv, Placed, GatewayInit
<1>10. GwShape
  <2>1. <<>> \in Seq(Message)
    BY EmptySeq
  <2> QED BY <2>1, GatewayAssumption DEF GatewayInit, GwShape, Run, Text
<1>11. Unseen
  <2>1. DOMAIN <<>> = {}
    OBVIOUS
  <2> QED BY <2>1 DEF GatewayInit, Unseen
<1>12. TextKept
  BY DEF GatewayInit, TextKept
<1> QED BY <1>9, <1>10, <1>11, <1>12 DEF Rest

\* What the invariant is for.
LEMMA GwSafe == GwInv => GatewayTypeOK /\ AnswerBesideQuestion /\ MessageOnce /\ TextKept
BY GwBeside DEF GwInv, DataInv, Placed

\* For any clients, messages and conversations, disconnects, aborts and failures: an
\* answer is recorded where its question is, no message is recorded twice, text nobody
\* could receive is kept until it is shown or has expired, and the canonical
\* conversation of a workspace stays the same while it is there
\* (websocket-server.js:358, 458).
THEOREM GwHolds ==
  GatewayInit /\ [][GatewayNext]_gwVars =>
    [](GatewayTypeOK /\ AnswerBesideQuestion /\ MessageOnce /\ TextKept) /\ CanonicalStable
<1>1. GwInv /\ [GatewayNext]_gwVars => GwInv' /\ [CanonicalKept]_gwVars
  BY GwStep
<1> QED BY GwStart, GwSafe, <1>1, PTL DEF CanonicalStable

-------------------------------------------------------------------------------
(***************************************************************************)
(* The stores together.  They share no variable, so a behaviour of all of  *)
(* them is a behaviour of each.                                            *)
(***************************************************************************)

\* The part of registry is left alone by the steps of the others.
LEMMA RegistryApart == Stores => RegistryInit /\ [][RegistryNext]_registryVars
<1>1. SumInit => RegistryInit
  BY DEF SumInit
<1>2. [SumNext]_sumVars => [RegistryNext]_registryVars
  BY DEF SumNext, sumVars
<1> QED BY <1>1, <1>2, PTL DEF Stores

\* The part of context is left alone by the steps of the others.
LEMMA ContextApart == Stores => ContextInit /\ [][ContextNext]_ctxVars
<1>1. SumInit => ContextInit
  BY DEF SumInit
<1>2. [SumNext]_sumVars => [ContextNext]_ctxVars
  BY DEF SumNext, sumVars
<1> QED BY <1>1, <1>2, PTL DEF Stores

\* The part of cron is left alone by the steps of the others.
LEMMA CronApart == Stores => CronInit /\ [][CronNext]_cronVars
<1>1. SumInit => CronInit
  BY DEF SumInit
<1>2. [SumNext]_sumVars => [CronNext]_cronVars
  BY DEF SumNext, sumVars
<1> QED BY <1>1, <1>2, PTL DEF Stores

\* The part of policy is left alone by the steps of the others.
LEMMA PolicyApart == Stores => PolicyInit /\ [][PolicyNext]_policyVars
<1>1. SumInit => PolicyInit
  BY DEF SumInit
<1>2. [SumNext]_sumVars => [PolicyNext]_policyVars
  BY DEF SumNext, sumVars
<1> QED BY <1>1, <1>2, PTL DEF Stores

\* The part of memory is left alone by the steps of the others.
LEMMA MemoryApart == Stores => MemoryInit /\ [][MemoryNext]_memoryVars
<1>1. SumInit => MemoryInit
  BY DEF SumInit
<1>2. [SumNext]_sumVars => [MemoryNext]_memoryVars
  BY DEF SumNext, sumVars
<1> QED BY <1>1, <1>2, PTL DEF Stores

\* The part of session is left alone by the steps of the others.
LEMMA SessionApart == Stores => SessionInit /\ [][SessionNext]_sessVars
<1>1. SumInit => SessionInit
  BY DEF SumInit
<1>2. [SumNext]_sumVars => [SessionNext]_sessVars
  BY DEF SumNext, sumVars
<1> QED BY <1>1, <1>2, PTL DEF Stores

\* The part of compaction is left alone by the steps of the others.
LEMMA CompactionApart == Stores => CompactionInit /\ [][CompactionNext]_cmpVars
<1>1. SumInit => CompactionInit
  BY DEF SumInit
<1>2. [SumNext]_sumVars => [CompactionNext]_cmpVars
  BY DEF SumNext, sumVars
<1> QED BY <1>1, <1>2, PTL DEF Stores

\* The part of skills is left alone by the steps of the others.
LEMMA SkillsApart == Stores => SkillsInit /\ [][SkillsNext]_skillVars
<1>1. SumInit => SkillsInit
  BY DEF SumInit
<1>2. [SumNext]_sumVars => [SkillsNext]_skillVars
  BY DEF SumNext, sumVars
<1> QED BY <1>1, <1>2, PTL DEF Stores

\* The part of resolver is left alone by the steps of the others.
LEMMA ResolverApart == Stores => ResolverInit /\ [][ResolverNext]_resolverVars
<1>1. SumInit => ResolverInit
  BY DEF SumInit
<1>2. [SumNext]_sumVars => [ResolverNext]_resolverVars
  BY DEF SumNext, sumVars
<1> QED BY <1>1, <1>2, PTL DEF Stores

\* The part of gateway is left alone by the steps of the others.
LEMMA GatewayApart == Stores => GatewayInit /\ [][GatewayNext]_gwVars
<1>1. SumInit => GatewayInit
  BY DEF SumInit
<1>2. [SumNext]_sumVars => [GatewayNext]_gwVars
  BY DEF SumNext, sumVars
<1> QED BY <1>1, <1>2, PTL DEF Stores

\* What each store promises of itself, it promises beside the others.
LEMMA ContextHolds ==
  Stores => [](ContextTypeOK /\ CleanIsOnDisk /\ NothingComesBack) /\ EvictionSparesLastWritten
<1>1. CtxInv => ContextTypeOK /\ CleanIsOnDisk /\ NothingComesBack
  BY CtxTyped DEF CtxInv
<1> QED BY <1>1, ContextApart, CtxSafe, EvictionSpares, PTL DEF EvictionSparesLastWritten

\* Jobs and their tasks, for any number of jobs and runs.
LEMMA CronHolds == Stores => [](CronTypeOK /\ CronFileIsJobs /\ TasksAreEnabledJobs) /\ RemovedJobIsOver
<1>1. CronInv => CronTypeOK /\ CronFileIsJobs /\ TasksAreEnabledJobs
  BY CronTyped DEF CronInv
<1> QED BY <1>1, CronApart, CronSafe, RemovedJobs, PTL DEF RemovedJobIsOver

\* The memory of an agent, with any crashes between appends.
LEMMA MemoryHolds == Stores => [](MemoryTypeOK /\ AnswerIsCurrent /\ WrittenIsKnown)
BY MemoryApart, MemSafe, MemTyped, PTL

\* Sessions of the command line tool, with any runs, commands and crashes.
LEMMA SessionHolds == Stores => [](SessionTypeOK /\ OwnContext /\ DeletedIsOver /\ SessionIsSaved)
BY SessionApart, SesSafe, SesTyped, PTL

\* Skills and ratings.
LEMMA SkillsHold ==
  Stores => [](SkillsTypeOK /\ StaleIsDue /\ RegisteredIsKept /\ RatingIsOnFile) /\ RatingKept
BY SkillsApart, SkillsSafe, SkillsTyped, RatingsKept, PTL DEF RatingKept

\* Which provider is called.
LEMMA ResolverHolds == Stores => []ResolverTypeOK /\ LimitedIsSpared
BY ResolverApart, ResolverSafe, LimitedLast, PTL DEF LimitedIsSpared

\* Every variable of every store stays of its type, for any number of agents,
\* workspaces, conversations, messages, jobs, facts, entries and providers, and
\* whatever crashes there are (the constructors and loaders of the files above).
THEOREM StoresTyped == Stores => []StoresTypeOK
<1>1. Stores => []RegistryTypeOK
  BY RegistryApart, RegHolds, PTL
<1>2. Stores => []PolicyTypeOK
  BY PolicyApart, PolHolds, PTL
<1>3. Stores => []CompactionTypeOK
  BY CompactionApart, CmpHolds, PTL
<1>4. Stores => []GatewayTypeOK
  BY GatewayApart, GwHolds, PTL
<1> QED BY <1>1, <1>2, <1>3, <1>4, ContextHolds, CronHolds, MemoryHolds, SessionHolds, SkillsHold,
           ResolverHolds, PTL DEF StoresTypeOK

\* The places that hold one thing agree unless the last write of one failed:
\* workspaces.json with the directories and within itself (workspace-manager.js:338,
\* 413, 811), the files of shared facts, of jobs, of sessions and of ratings with
\* what the program has in memory (shared-context.js:335, cron.js:404,
\* executor.js:559, skill-cache.js:368).  Any write may fail at any time.
THEOREM StoresDoAgree == Stores => []StoresAgree
<1>1. Stores => [](DirectoriesAreRegistered /\ DefaultExists /\ NamesAreUnique)
  BY RegistryApart, RegHolds, PTL
<1> QED BY <1>1, ContextHolds, CronHolds, SessionHolds, SkillsHold, PTL DEF StoresAgree

\* What was removed stays away: a deleted namespace (shared-context.js:229), the
\* session of a deleted conversation (executor.js:515, 595), a job that is not
\* defined (cron.js:291).
THEOREM RemovedStaysOver == Stores => RemovedIsOver
BY ContextHolds, SessionHolds, CronHolds, PTL DEF RemovedIsOver

\* What is kept to be quick says what its source says: the cache and the index of
\* a memory (cognitive.js:1204, 1336), the tasks of the jobs (cron.js:263), the
\* skills of the agents (skill-cache.js), the recap of the tools (compactor.js).
THEOREM DerivedStaysCurrent == Stores => []DerivedIsCurrent
<1>1. Stores => []UsesToldOnce
  BY CompactionApart, CmpHolds, PTL
<1> QED BY <1>1, MemoryHolds, CronHolds, SkillsHold, PTL DEF DerivedIsCurrent

\* An answer lands where its question is: beside it and once, replayable while
\* nobody could receive it (websocket-server.js:458), from a run that resumed its
\* own conversation's context (executor.js:1507) unless the conversation shared a
\* queue with another (executor.js:4096).
THEOREM AnswersArePlaced == Stores => []AnswersFindTheirPlace
<1>1. Stores => [](AnswerBesideQuestion /\ MessageOnce /\ TextKept)
  BY GatewayApart, GwHolds, PTL
<1> QED BY <1>1, SessionHolds, PTL DEF AnswersFindTheirPlace

\* Two adjacent minutes or hours do not add up to more than twice the rate and the
\* excluded do not count (message-policy.js:87), and a compaction is enough for
\* the next run (compactor.js).
THEOREM LimitsDoHold == Stores => []LimitsHold
<1>1. Stores => [](BurstBounded /\ ExcludedNotCounted)
  BY PolicyApart, PolHolds, PTL
<1>2. Stores => []CompactedEnough
  BY CompactionApart, CmpHolds, PTL
<1> QED BY <1>1, <1>2, PTL DEF LimitsHold

\* Housekeeping takes only what it is for: an eviction not what was written last
\* (shared-context.js:405), a sweep no soul of a user and a boot whose writes
\* succeed no agent (index.js:313), a compaction neither the latest nor the marked messages
\* (compactor.js), a refresh no rating, a failover not those that are limited,
\* and the list of agent conversations shows one of each pair.
THEOREM HousekeepingDoesSpare == Stores => HousekeepingSpares
<1>1. Stores => CustomSoulKept /\ BootRegistersAgents
  BY RegistryApart, RegHolds
<1>2. Stores => RecentKept /\ MarkedIsNoted
  BY CompactionApart, CmpSpares
<1>3. Stores => CanonicalStable
  BY GatewayApart, GwHolds
<1> QED BY <1>1, <1>2, <1>3, ContextHolds, SkillsHold, ResolverHolds DEF HousekeepingSpares
===============================================================================
