------------------------------ MODULE Scengen ------------------------------
(***************************************************************************)
(* crypt-admin generate and export: a directory tree becomes a graph of    *)
(* rooms (internal/scengen), the graph may pass through a SQLite store,    *)
(* visitors fill it with enemies and items, and the result replaces a      *)
(* scenario directory on disk and is loaded again as a check.              *)
(*                                                                         *)
(* A directory is the sequence of its ancestors' positions, <<>> being the *)
(* root.  A room is [path, hub]: hub = 0 is the directory's own room, hub  *)
(* = k its k-th corridor.  A raw edge is [at, from, to]: at is its place   *)
(* in the slice, which stays empty when insertHubs replaces the edge.      *)
(***************************************************************************)
EXTENDS Integers, Sequences, FiniteSets, FiniteSetsExt, SequencesExt

CONSTANTS
  Trees,       \* the directory trees: prefix-closed sets of paths
  Tiers,       \* how many enemy and item tiers there are
  MaxSpawns,   \* bound: dice rolls of one visitor that come out favourably
  MaxRooms     \* bound: rooms of a graph whose filling is followed

\* A directory is in a directory, up to the root.
IsTree(t) ==
  /\ t \subseteq Seq(Nat) /\ IsFiniteSet(t)
  /\ <<>> \in t /\ \A p \in t : p # <<>> => Front(p) \in t

ASSUME ScengenAssumption ==
  /\ Tiers \in Nat \ {0} /\ MaxSpawns \in Nat /\ MaxRooms \in Nat
  /\ \A t \in Trees : IsTree(t)

VARIABLES
  stage,     \* where the command is
  tree,      \* the directories below --source
  raw,       \* [nodes, edges, len] of the topology source
  todo,      \* directories insertHubs has still to split
  graph,     \* [nodes, hubs, edges]: hubs are the nodes whose Meta says "hub"
  queue,     \* rooms whose neighbours have no direction yet
  db,        \* the graph in the store, or NoGraph
  content,   \* [enemies, items] of each room
  tmp, out   \* the directories output.tmp and output

vars == <<stage, tree, raw, todo, graph, queue, db, content, tmp, out>>
files == <<tmp, out>>

Room(path) == [path |-> path, hub |-> 0]
Hub(path, k) == [path |-> path, hub |-> k]
Start == Room(<<>>)
IsHub(room) == room.hub > 0
NoGraph == [nodes |-> {}, hubs |-> {}, edges |-> {}]
NoRaw == [nodes |-> {}, edges |-> {}, len |-> 0]
NoContent == [enemies |-> <<>>, items |-> <<>>]

Init ==
  /\ stage = "walk" /\ tree \in Trees
  /\ raw = NoRaw /\ todo = {} /\ graph = NoGraph /\ queue = <<>>
  /\ db = NoGraph /\ content = NoContent
  /\ tmp = "none" /\ out \in {"none", "old"}

-----------------------------------------------------------------------------
(* TreeSource.Generate.                                                    *)

\* filepath.WalkDir visits in lexical order, a directory before what it holds.
Before(p, q) ==
  \/ IsStrictPrefix(p, q)
  \/ \E i \in DOMAIN p \cap DOMAIN q :
       p[i] < q[i] /\ \A j \in 1..(i - 1) : p[j] = q[j]

WalkEdges(t) ==
  LET dirs == t \ {<<>>}
  IN  {[at |-> Cardinality({q \in dirs : Before(q, p)}),
        from |-> Room(Front(p)), to |-> Room(p)] : p \in dirs}

\* Mutant: the way back to the parent is forgotten.
maxChildrenSix == 6

maxChildrenPerNode == 5

ChildrenOf(edges, room) == {e \in edges : e.from = room}

\* The walk, up to the map of children that insertHubs builds.
Walk ==
  /\ stage = "walk" /\ stage' = "hubs"
  /\ raw' = [nodes |-> {Room(p) : p \in tree}, edges |-> WalkEdges(tree),
             len |-> Cardinality(tree \ {<<>>})]
  /\ todo' = {n \in raw'.nodes : Cardinality(ChildrenOf(raw'.edges, n)) > maxChildrenPerNode}
  /\ UNCHANGED <<tree, graph, queue, db, content, files>>

\* IDs are abstract: two directories may share one (pathToID), and a directory
\* may bear the ID of a corridor, which AddNode refuses.
IDClash ==
  /\ \/ stage = "walk" /\ Cardinality(tree) > 1
     \/ stage = "hubs" /\ todo = {} /\ \E n \in raw.nodes : IsHub(n)
  /\ stage' = "failed"
  /\ UNCHANGED <<tree, raw, todo, graph, queue, db, content, files>>

\* Where an edge comes among others, in the order of the slice.
Place(edges, e) == Cardinality({f \in edges : f.at < e.at})

\* The batch of the pos-th child: batches are full, but the first gives up
\* one place for the first corridor.
Batch(pos) == (pos + 1) \div maxChildrenPerNode

\* The ways from a room with so many children to its corridors: the k-th
\* corridor is added before the k-th batch.
Links(room, count, len) ==
  {[at |-> len + k * (maxChildrenPerNode + 1) - 2,
    from |-> Hub(room.path, k - 1), to |-> Hub(room.path, k)] : k \in 1..Batch(count - 1)}

\* Mutant: the batches are cut from 0 but numbered from 1, losing a child.
SplitChainLossy(room, kids, len) ==
  LET Full(e) == Place(kids, e) = 0 \/ Batch(Place(kids, e)) = Batch(Place(kids, e) - 1)
  IN  Links(room, Cardinality(kids), len) \cup
      {[at |-> len + Place(kids, e) + Batch(Place(kids, e)),
        from |-> Hub(room.path, Batch(Place(kids, e))), to |-> e.to] : e \in {f \in kids : Full(f)}}

\* The edges that replace those of a directory with too many children: the
\* first batch stays with its room, each corridor takes one and leads to the
\* next.
SplitChain(room, kids, len) ==
  Links(room, Cardinality(kids), len) \cup
  {[at |-> len + Place(kids, e) + Batch(Place(kids, e)),
    from |-> Hub(room.path, Batch(Place(kids, e))), to |-> e.to] : e \in kids}

\* One pass of insertHubs's loop over the map; Go picks the order.  The new
\* edges follow all edges that are kept.
InsertHubs(room) ==
  LET kids == ChildrenOf(raw.edges, room)
      chain == SplitChain(room, kids, raw.len)
  IN  /\ stage = "hubs" /\ room \in todo
      /\ todo' = todo \ {room}
      /\ raw' = [nodes |-> raw.nodes \cup {e.from : e \in chain},
                 edges |-> (raw.edges \ kids) \cup chain,
                 len |-> raw.len + Cardinality(chain)]
      /\ UNCHANGED <<stage, tree, graph, queue, db, content, files>>

-----------------------------------------------------------------------------
(* assignDirections and Graph.Validate.                                    *)

preferredDirs == <<"north", "east", "south", "west", "up", "down">>

Opposite(dir) ==
  CASE dir = "north" -> "south" [] dir = "south" -> "north"
    [] dir = "east" -> "west"   [] dir = "west" -> "east"
    [] dir = "up" -> "down"     [] dir = "down" -> "up"

\* The exits of a room, each edge seen from both of its ends.
Exits(edges, room) ==
  {[dir |-> e.dir, to |-> e.to] : e \in {f \in edges : f.from = room}} \cup
  {[dir |-> Opposite(e.dir), to |-> e.from] : e \in {f \in edges : f.to = room}}

UsedDirs(edges, room) == {x.dir : x \in Exits(edges, room)}

Degree(edges, room) == Cardinality({e \in edges : room \in {e.from, e.to}})

Neighbours(edges, room) == {x.to : x \in Exits(edges, room)}

\* NewGraph and AddNode for every raw node.
AddNodes ==
  /\ stage = "hubs" /\ todo = {}
  /\ stage' = "assign" /\ queue' = <<Start>>
  /\ graph' = [nodes |-> raw.nodes, hubs |-> {n \in raw.nodes : IsHub(n)}, edges |-> {}]
  /\ UNCHANGED <<tree, raw, todo, db, content, files>>

Visited(edges) == {Start} \cup {e.to : e \in edges}

OtherEnd(e, room) == IF e.from = room THEN e.to ELSE e.from

\* The neighbours in the adjacency list that the search has not met.
Fresh(room) ==
  {e \in raw.edges : room \in {e.from, e.to} /\ OtherEnd(e, room) \notin Visited(graph.edges)}

\* Mutant: only the direction at the far end is looked at.
FreeDirsFarEnd(edges, curr, next) ==
  {i \in DOMAIN preferredDirs : Opposite(preferredDirs[i]) \notin UsedDirs(edges, next)}

FreeDirs(edges, curr, next) ==
  {i \in DOMAIN preferredDirs : /\ preferredDirs[i] \notin UsedDirs(edges, curr)
                                /\ Opposite(preferredDirs[i]) \notin UsedDirs(edges, next)}

\* The next neighbour of the room taken from the queue, which stays at its
\* head until the last; AddEdge finds the same direction slots free.
AssignOne(e) ==
  LET curr == Head(queue)
      next == OtherEnd(e, curr)
      free == FreeDirs(graph.edges, curr, next)
  IN  /\ stage = "assign" /\ queue # <<>>
      /\ e \in Fresh(curr) /\ \A f \in Fresh(curr) : e.at <= f.at
      /\ IF free = {}
         THEN stage' = "nodirection" /\ UNCHANGED <<graph, queue>>
         ELSE /\ graph' = [graph EXCEPT !.edges = graph.edges \cup
                             {[from |-> curr, to |-> next, dir |-> preferredDirs[Min(free)]]}]
              /\ queue' = Append(queue, next) /\ UNCHANGED stage
      /\ UNCHANGED <<tree, raw, todo, db, content, files>>

Dequeue ==
  /\ stage = "assign" /\ queue # <<>> /\ Fresh(Head(queue)) = {}
  /\ queue' = Tail(queue)
  /\ UNCHANGED <<stage, tree, raw, todo, graph, db, content, files>>

\* Ball(edges)[k]: the rooms at most k steps from the start.
Ball(edges) ==
  LET ball[k \in Nat] ==
        IF k = 0 THEN {Start}
        ELSE LET near == ball[k - 1]
             IN  near \cup UNION {Neighbours(edges, n) : n \in near}
  IN  ball

Reached(edges) == Ball(edges)[Cardinality(edges)]

Distance(edges, room) ==
  IF room \in Reached(edges) THEN Min({k \in 0..Cardinality(edges) : room \in Ball(edges)[k]})
  ELSE -1

\* The steps after which no room is new.
MaxDistance(edges) ==
  Min({k \in 0..Cardinality(edges) : Ball(edges)[k] = Reached(edges)})

\* Mutant: a room may have fewer than six exits only.
GraphValidStrict(g) ==
  /\ Start \in g.nodes
  /\ \A e \in g.edges : {e.from, e.to} \subseteq g.nodes
  /\ \A n \in g.nodes : Degree(g.edges, n) < 6
  /\ Reached(g.edges) = g.nodes

\* Graph.Validate.  That an edge's two directions are opposite holds here
\* by the representation.
GraphValid(g) ==
  /\ Start \in g.nodes
  /\ \A e \in g.edges : {e.from, e.to} \subseteq g.nodes
  /\ \A n \in g.nodes : Degree(g.edges, n) <= 6
  /\ Reached(g.edges) = g.nodes

Validate ==
  /\ stage = "assign" /\ queue = <<>>
  /\ stage' = IF GraphValid(graph) THEN "graph" ELSE "invalid"
  /\ UNCHANGED <<tree, raw, todo, graph, queue, db, content, files>>

-----------------------------------------------------------------------------
(* The store.  SaveGraph is one transaction, refused when a row breaks a   *)
(* key of the table edges; of a node it keeps the name and the region.  It *)
(* replaces what the store holds; export never saves the graph it loaded.  *)

KeysUnique(edges) ==
  \A e, f \in edges : e # f =>
     /\ <<e.from, e.dir>> # <<f.from, f.dir>>
     /\ <<e.to, Opposite(e.dir)>> # <<f.to, Opposite(f.dir)>>

SaveGraph ==
  /\ stage = "graph" /\ graph # db /\ Cardinality(graph.nodes) <= MaxRooms
  /\ IF KeysUnique(graph.edges)
     THEN db' = [graph EXCEPT !.hubs = {}] /\ UNCHANGED stage
     ELSE stage' = "invalid" /\ UNCHANGED db
  /\ UNCHANGED <<tree, raw, todo, graph, queue, content, files>>

\* What a later run finds of what an earlier one has completed.
Older(dir) == IF dir = "new" THEN "old" ELSE dir

\* crypt-admin export, on a store that an earlier generate has filled.
LoadGraph ==
  /\ stage \in {"done", "failed", "crashed"} /\ db # NoGraph
  /\ stage' = IF GraphValid(db) THEN "graph" ELSE "invalid"
  /\ graph' = db /\ content' = NoContent
  /\ tmp' = Older(tmp) /\ out' = Older(out)
  /\ UNCHANGED <<tree, raw, todo, queue, db>>

-----------------------------------------------------------------------------
(* The visitors.  IDs are abstract, so "first by ID" is any.               *)

TierIndex(room) ==
  Min({Tiers - 1, (Distance(graph.edges, room) * Tiers)
                  \div (MaxDistance(graph.edges) + 1)})

Jitter(tier) ==
  {tier} \cup (IF tier > 0 THEN {tier - 1} ELSE {})
         \cup (IF tier < Tiers - 1 THEN {tier + 1} ELSE {})

\* Mutant: corridors are rooms like any other.
SpawnRoomsAll == {n \in graph.nodes : Distance(graph.edges, n) > 0}

SpawnRooms == {n \in graph.nodes \ graph.hubs : Distance(graph.edges, n) > 0}

\* EnemyVisitor.Visit with the default spawn rate; a single room has none.
SpawnEnemies ==
  /\ stage = "graph" /\ Cardinality(graph.nodes) <= MaxRooms
  /\ \E S \in {T \in SUBSET SpawnRooms : Cardinality(T) <= MaxSpawns} :
     \E f \in [S -> -1..Tiers] :
        /\ \A n \in S : f[n] \in Jitter(TierIndex(n))
        /\ content' = [content EXCEPT !.enemies = f]
  /\ stage' = "enemies"
  /\ UNCHANGED <<tree, raw, todo, graph, queue, db, files>>

Item(room, kind, tier, starter) ==
  [room |-> room, kind |-> kind, tier |-> tier, starter |-> starter]

\* The rooms that may get the starter weapon, as the singletons {room}.
StarterRooms ==
  LET near == {n \in graph.nodes \ graph.hubs : Distance(graph.edges, n) = 1}
  IN  IF near = {} THEN {{Start}} ELSE {{n} : n \in near}

RestStop(room) == room \in graph.hubs \/ Degree(graph.edges, room) >= 3

\* What the dice may put into the rooms that are no rest stops.  The lowest
\* tier has no armor.
Lottery ==
  LET rooms == {n \in graph.nodes \ {Start} : ~RestStop(n)}
  IN  {Item(n, "weapon", TierIndex(n), FALSE) : n \in rooms} \cup
      {Item(n, "armor", TierIndex(n), FALSE) : n \in {m \in rooms : TierIndex(m) > 0}} \cup
      {Item(n, "potion", TierIndex(n), FALSE) : n \in rooms \cap DOMAIN content.enemies}

\* ItemVisitor.Visit with the default tiers.
PlaceItems ==
  /\ stage = "enemies"
  /\ \E first \in StarterRooms :
     \E drawn \in {T \in SUBSET Lottery : Cardinality(T) <= MaxSpawns} :
        content' = [content EXCEPT !.items =
          {Item(n, "weapon", 0, TRUE) : n \in first} \cup
          {Item(Start, "potion", 0, TRUE)} \cup
          {Item(n, "potion", TierIndex(n), FALSE) :
             n \in {m \in graph.nodes \ {Start} : RestStop(m)}} \cup drawn]
  /\ stage' = "filled"
  /\ UNCHANGED <<tree, raw, todo, graph, queue, db, files>>

-----------------------------------------------------------------------------
(* WriteYAMLDir and the loading of what it wrote.  A directory is absent,  *)
(* "partial", or the whole scenario of this run ("new") or an earlier one. *)

CleanTmp ==
  /\ stage = "filled" /\ stage' = "writing" /\ tmp' = "partial"
  /\ UNCHANGED <<tree, raw, todo, graph, queue, db, content, out>>

WriteTmp ==
  /\ stage = "writing" /\ stage' = "written" /\ tmp' = "new"
  /\ UNCHANGED <<tree, raw, todo, graph, queue, db, content, out>>

\* Mutant: the old output is removed first, then the new one is written.
RemoveOutputEarly ==
  /\ stage \in {"writing", "written", "removing"}
  /\ out' = IF stage = "removing" \/ out = "none" THEN "none" ELSE "partial"
  /\ stage' = IF stage = "removing" THEN "swap" ELSE "removing"
  /\ UNCHANGED <<tree, raw, todo, graph, queue, db, content, tmp>>

\* os.RemoveAll(outputDir), which removes one entry after another.
RemoveOutput ==
  /\ stage \in {"written", "removing"}
  /\ out' = IF stage = "removing" \/ out = "none" THEN "none" ELSE "partial"
  /\ stage' = IF stage = "removing" THEN "swap" ELSE "removing"
  /\ UNCHANGED <<tree, raw, todo, graph, queue, db, content, tmp>>

Rename ==
  /\ stage = "swap" /\ stage' = "swapped"
  /\ out' = tmp /\ tmp' = "none"
  /\ UNCHANGED <<tree, raw, todo, graph, queue, db, content>>

\* An error on the way: the deferred clean-up removes the temporary
\* directory, once it has been created.
IOError ==
  /\ stage \in {"filled", "writing", "written", "removing", "swap"}
  /\ stage' = "failed"
  /\ IF stage = "filled" THEN tmp' \in {tmp, "partial", "none"} ELSE tmp' = "none"
  /\ UNCHANGED <<tree, raw, todo, graph, queue, db, content, out>>

Crash ==
  /\ stage \in {"filled", "writing", "written", "removing", "swap", "swapped"}
  /\ stage' = "crashed"
  /\ UNCHANGED <<tree, raw, todo, graph, queue, db, content, files>>

\* scenario.Validate on the directory that was written: every name is set
\* (DescriptionVisitor), every exit and every enemy exists.
ScenarioValid ==
  /\ Start \in graph.nodes
  /\ \A n \in graph.nodes : \A x \in Exits(graph.edges, n) : x.to \in graph.nodes
  /\ \A n \in DOMAIN content.enemies : content.enemies[n] \in 0..(Tiers - 1)

\* scenario.LoadDir(output) at the end of generate and export.
SelfValidate ==
  /\ stage = "swapped"
  /\ stage' = IF out = "new" /\ ScenarioValid THEN "done" ELSE "invalid"
  /\ UNCHANGED <<tree, raw, todo, graph, queue, db, content, files>>

\* The command is run again, over whatever the last run left on disk.
GenerateAgain ==
  /\ stage \in {"done", "failed", "crashed", "nodirection"}
  /\ stage' = "walk"
  /\ raw' = NoRaw /\ todo' = {} /\ graph' = NoGraph /\ queue' = <<>>
  /\ content' = NoContent
  /\ tmp' = Older(tmp) /\ out' = Older(out)
  /\ UNCHANGED <<tree, db>>

Next ==
  \/ Walk \/ IDClash \/ (\E n \in todo : InsertHubs(n)) \/ AddNodes
  \/ (\E e \in raw.edges : AssignOne(e)) \/ Dequeue \/ Validate
  \/ SaveGraph \/ LoadGraph \/ SpawnEnemies \/ PlaceItems
  \/ CleanTmp \/ WriteTmp \/ RemoveOutput \/ Rename \/ IOError \/ Crash
  \/ SelfValidate \/ GenerateAgain

Spec == Init /\ [][Next]_vars

-----------------------------------------------------------------------------
(* Properties                                                              *)

Subdirs(t, p) == {q \in t : q # <<>> /\ Front(q) = p}

\* What TestTreeSource_HubInsertion asserts of eight directories, said of
\* every tree: "no parent has >maxChildrenPerNode children" once insertHubs
\* is through.  A corridor in the middle of a chain has one more: it takes a
\* full batch and the next corridor.
HubsFit ==
  stage = "assign" =>
     \A n \in raw.nodes : Cardinality(ChildrenOf(raw.edges, n)) <= maxChildrenPerNode

\* Exactly when generation fails for want of directions: when some directory
\* holds more than nine others (four beside its own room, five at the first
\* corridor).  Up to nine, insertHubs and assignDirections always find one.
TooWide(t) == \E p \in t : Cardinality(Subdirs(t, p)) > 9
NineFit ==
  /\ stage = "nodirection" => TooWide(tree)
  /\ stage \in {"graph", "enemies", "filled", "done"} => ~TooWide(tree)

\* insertHubs neither loses nor moves a directory: its room hangs on the
\* room of its parent or on one of that parent's corridors, once.
TreeKept ==
  stage = "assign" => \A p \in tree \ {<<>>} :
     LET into == {e \in raw.edges : e.to = Room(p)}
     IN  Cardinality(into) = 1 /\ \A e \in into : e.from.path = Front(p)

\* Reference definition of the dungeon of a tree: its rooms, the room that
\* each of them hangs on, and their order there.
IsWide(t, p) == Cardinality(Subdirs(t, p)) > maxChildrenPerNode
Corridors(t, p) == IF IsWide(t, p) THEN Batch(Cardinality(Subdirs(t, p)) - 1) ELSE 0
Dungeon(t) == UNION {{Hub(p, k) : k \in 0..Corridors(t, p)} : p \in t}

Earlier(t, p) == {q \in Subdirs(t, Front(p)) : Last(q) < Last(p)}
Host(t, n) ==
  IF IsHub(n) THEN Hub(n.path, n.hub - 1)
  ELSE LET p == Front(n.path)
       IN  IF IsWide(t, p) THEN Hub(p, Batch(Cardinality(Earlier(t, n.path)))) ELSE Room(p)
Ahead(m, n) == ~IsHub(m) /\ (IsHub(n) \/ Last(m.path) < Last(n.path))

\* The directions that a room has besides its way back.
Onward(edges, n) ==
  {i \in DOMAIN preferredDirs :
     ~\E e \in edges : e.to = n /\ preferredDirs[i] = Opposite(e.dir)}

\* The tree alone determines the dungeon: each room's children leave in
\* their order through the first directions that are not its way back.  So
\* neither the map's iteration order in insertHubs nor the passage through
\* the store can be seen in the result.
DirectionsAsPlanned ==
  stage = "graph" =>
     LET rooms == Dungeon(tree) \ {Start}
         Door(n, i) ==
           /\ i \in Onward(graph.edges, Host(tree, n))
           /\ Cardinality({j \in Onward(graph.edges, Host(tree, n)) : j < i}) =
              Cardinality({m \in rooms : Host(tree, m) = Host(tree, n) /\ Ahead(m, n)})
     IN  /\ graph.nodes = Dungeon(tree)
         /\ graph.edges = {[from |-> Host(tree, d[1]), to |-> d[1], dir |-> preferredDirs[d[2]]] :
                             d \in {x \in rooms \X DOMAIN preferredDirs : Door(x[1], x[2])}}

\* Nothing that generate or export does to a tree is refused by their own
\* checks: Graph.Validate after the directions are assigned and after the
\* store, the keys of the table edges, and scenario.Validate on the files.
NeverInvalid == stage # "invalid"

\* Corridors are no combat arenas (EnemyVisitor.Visit), except in a graph read
\* back from the store, which does not keep the mark.
CorridorsEmpty ==
  \A n \in DOMAIN content.enemies : IsHub(n) => graph = db

\* WriteYAMLDir touches the old scenario only when the new one is complete
\* beside it, also when it is started over after a crash or an error.
OldKeptUntilNewIsWhole == [][out = "old" /\ out' # "old" => tmp = "new"]_vars
=============================================================================
