---------------------------- MODULE ResPackerProofs ----------------------------
(***************************************************************************)
(* Every whole model can be opened, every file loads as what was saved or  *)
(* is refused, and a run that ends well has packed everything: for any     *)
(* inputs, any number of runs, and a crash in any step of any of them.     *)
(*                                                                         *)
(* The files that whole models name are sound: there, whole, and the only  *)
(* files but 0 with their contents.  So a scan knows them and removes none *)
(* of them (Scanning), ids are given beside them (Named below old), and    *)
(* what is removed or written is not theirs.  Once the files of a kind are *)
(* written they are what the packer knows of them (Writing), and a new     *)
(* model names these.                                                      *)
(*                                                                         *)
(* What is added to a cache stays there to the end of the run (PackedInv). *)
(*                                                                         *)
(* For the bytes: two sequences behind each other are where their lengths  *)
(* say (Behind), and so is each of many (Flattened).  Words, vertices and  *)
(* meshes are read back from wherever their bytes are (Holds).  The ends of *)
(* the meshes that loadResource finds one after another are those of the   *)
(* file as long as they are within the buffer (EndsPlaced), and the first  *)
(* that is not is found to be beyond it.                                   *)
(***************************************************************************)
EXTENDS ResPacker, SequenceTheorems, WellFoundedInduction, TLAPS

\* The textures and resources that whole models name; no file names a model.
Parts == {"texture", "resource"}
Named(k) ==
    IF k = "texture"
    THEN {files.model[id].texture_ids[i] : id \in WholeModels, i \in 1 .. TextureCount}
            \ {0}
    ELSE {files.model[id].resource_id : id \in {m \in WholeModels : k = "resource"}} \ {0}

scanOf(k) == IF k = "texture" THEN 1 ELSE IF k = "resource" THEN 5 ELSE 6
removeOf(k) == IF k = "texture" THEN 3 ELSE IF k = "resource" THEN 8 ELSE 10
writeOf(k) == IF k = "texture" THEN 4 ELSE IF k = "resource" THEN 9 ELSE 11

known(k) == cache[k].known
fresh(k) == cache[k].fresh
paths(k) == cache[k].paths
\* the files that the constructor has found and kept
old(k) == DOMAIN known(k) \ fresh(k)

IsFunction(f) == f = [x \in DOMAIN f |-> f[x]]

CacheTypeOK(c) ==
    /\ c = [known |-> c.known, fresh |-> c.fresh, paths |-> c.paths,
            remove |-> c.remove, next |-> c.next]
    /\ IsFunction(c.known) /\ DOMAIN c.known \subseteq Ids
    /\ IsFunction(c.paths) /\ DOMAIN c.paths \subseteq Nat
    /\ \A p \in DOMAIN c.paths : c.paths[p] \in DOMAIN c.known
    /\ c.fresh \subseteq DOMAIN c.known
    /\ c.remove \subseteq Ids
    /\ c.next \in Ids

PackerTypeOK ==
    /\ IsFunction(files) /\ DOMAIN files = Kinds
    /\ \A k \in Kinds : IsFunction(files[k]) /\ DOMAIN files[k] \subseteq Ids
    /\ input \in Inputs
    /\ step \in 0 .. 12
    /\ Running => todo \subseteq Visits(Steps[step])
    /\ IsFunction(cache) /\ DOMAIN cache = Kinds
    /\ \A k \in Kinds : CacheTypeOK(cache[k])

\* A file that is named is there and whole, and no other has its content.
Sound(k) ==
    \A t \in Named(k) :
        /\ t \in DOMAIN files[k]
        /\ files[k][t] \notin {<<>>, Torn}
        /\ \A u \in DOMAIN files[k] \ {0} : files[k][u] = files[k][t] => u = t

Scanning(k) ==
    /\ fresh(k) = {} /\ paths(k) = <<>>
    /\ DOMAIN known(k) \cup cache[k].remove = DOMAIN files[k] \ todo
    /\ DOMAIN known(k) \cap cache[k].remove = {}
    /\ Named(k) \cap cache[k].remove = {}

\* What is known of the files is so, and each content is known once.
Remembered(k) ==
    /\ \A a, b \in DOMAIN known(k) : known(k)[a] = known(k)[b] => a = b
    /\ \A id \in old(k) :
        id # 0 /\ id \in DOMAIN files[k] /\ known(k)[id] = files[k][id]
    /\ k \in Parts =>
        \A p \in DOMAIN paths(k) : known(k)[paths(k)[p]] \notin {<<>>, Torn}

\* Until they are removed, the files that are not kept are still there.
Keeping(k) ==
    /\ old(k) \cap cache[k].remove = {}
    /\ DOMAIN files[k] \subseteq old(k) \cup
            (IF step = removeOf(k) THEN todo ELSE cache[k].remove)

Writing(k) ==
    /\ \A id \in DOMAIN files[k] :
        id \in DOMAIN known(k) /\ known(k)[id] = files[k][id]
    /\ \A p \in DOMAIN paths(k) :
        paths(k)[p] \in DOMAIN files[k] \/ (step = writeOf(k) /\ p \in todo)

KindInv(k) ==
    /\ Sound(k)
    /\ step \in 1 .. scanOf(k) - 1 => cache[k] = EmptyCache
    /\ step = scanOf(k) => Scanning(k)
    /\ step \in scanOf(k) .. 11 => Remembered(k)
    /\ step \in scanOf(k) + 1 .. removeOf(k) => Keeping(k)
    /\ step \in scanOf(k) + 1 .. writeOf(k) => Named(k) \subseteq old(k)
    /\ step \in writeOf(k) .. 11 => Writing(k)

\* A new model names what the paths of its textures and its object lead to.
NewModel(m) ==
    /\ m.resource_id = 0
        \/ \E p \in DOMAIN paths("resource") : m.resource_id = paths("resource")[p]
    /\ \A i \in 1 .. TextureCount :
        m.texture_ids[i] = 0
            \/ \E p \in DOMAIN paths("texture") :
                    m.texture_ids[i] = paths("texture")[p]

ModelInv ==
    /\ step \in 1 .. 6 => fresh("model") = {} /\ paths("resource") = <<>>
    /\ step = 7 => DOMAIN paths("resource") \cap todo = {}
    /\ step \in 1 .. 11 => \A id \in fresh("model") : NewModel(known("model")[id])

PackerInv == PackerTypeOK /\ (\A k \in Kinds : KindInv(k)) /\ ModelInv

-----------------------------------------------------------------------------
(* What the operators give.                                                 *)

LEMMA LeastNumber ==
    ASSUME NEW S \in SUBSET Nat, S # {}
    PROVE  \E x \in S : \A y \in S : x <= y
  <1>1. PICK x \in S : \A y \in S : ~ (<<y, x>> \in OpToRel(<, Nat))
    BY WFMin, NatLessThanWellFounded, Zenon
  <1>2. \A y \in S : x <= y
    <2> SUFFICES ASSUME NEW y \in S, y < x PROVE FALSE
      OBVIOUS
    <2>1. <<y, x>> \in OpToRel(<, Nat)
      BY DEF OpToRel
    <2> QED
      BY <1>1, <2>1
  <1> QED
    BY <1>2

LEMMA LeastIsIn ==
    ASSUME NEW S \in SUBSET Nat, S # {}
    PROVE  Min(S) \in S
  BY LeastNumber DEF Min

LEMMA EmptyFacts == DOMAIN <<>> = {} /\ IsFunction(<<>>)
  BY DEF IsFunction

LEMMA EmptyCacheFacts ==
    /\ CacheTypeOK(EmptyCache)
    /\ EmptyCache.known = <<>> /\ EmptyCache.fresh = {}
    /\ EmptyCache.paths = <<>> /\ EmptyCache.remove = {}
  BY EmptyFacts, PackerAssumption DEF EmptyCache, CacheTypeOK, Ids, IsFunction

LEMMA StepsFacts ==
    /\ DOMAIN Steps = 1 .. 11 /\ Len(Steps) = 11
    /\ \A s \in 1 .. 11 :
        /\ Steps[s].does = "scan" <=> s \in {1, 5, 6}
        /\ Steps[s].does = "add" <=> s \in {2, 7}
        /\ Steps[s].does = "remove" <=> s \in {3, 8, 10}
        /\ Steps[s].does = "write" <=> s \in {4, 9, 11}
        /\ Steps[s].kind = "texture" <=> s \in 1 .. 4
        /\ Steps[s].kind = "resource" <=> s \in {5, 8, 9}
        /\ Steps[s].kind = "model" <=> s \in {6, 10, 11}
        /\ Steps[s].kind = "object" <=> s = 7
  BY DEF Steps

-----------------------------------------------------------------------------
(* What becomes of a cache.                                                 *)

LEMMA AddCachedFacts ==
    ASSUME NEW c, CacheTypeOK(c), NEW id \in Ids, NEW content
    PROVE  LET d == AddCached(c, id, content)
           IN  /\ CacheTypeOK(d)
               /\ d.fresh = c.fresh /\ d.paths = c.paths
               /\ \/ /\ id = 0 \/ \E a \in DOMAIN c.known : c.known[a] = content
                     /\ d.known = c.known /\ d.remove = c.remove \cup {id}
                  \/ /\ id # 0 /\ \A a \in DOMAIN c.known : c.known[a] # content
                     /\ DOMAIN d.known = DOMAIN c.known \cup {id}
                     /\ d.known[id] = content
                     /\ \A a \in DOMAIN c.known \ {id} : d.known[a] = c.known[a]
                     /\ d.remove = c.remove
  <1> DEFINE d == AddCached(c, id, content)
  <1>1. CASE id = 0 \/ content \in Range(c.known)
    <2>1. d = [c EXCEPT !.remove = @ \cup {id}]
      BY <1>1 DEF AddCached
    <2> QED
      BY <1>1, <2>1 DEF CacheTypeOK, Range
  <1>2. CASE ~ (id = 0 \/ content \in Range(c.known))
    <2> DEFINE g == Put(c.known, id, content)
    <2>1. d = [c EXCEPT !.known = g]
      BY <1>2 DEF AddCached
    <2>2. /\ IsFunction(g) /\ DOMAIN g = DOMAIN c.known \cup {id}
          /\ g[id] = content /\ \A x \in DOMAIN c.known \ {id} : g[x] = c.known[x]
      BY DEF Put, IsFunction
    <2> HIDE DEF g
    <2>3. d = [known |-> g, fresh |-> c.fresh, paths |-> c.paths,
               remove |-> c.remove, next |-> c.next]
      BY <2>1 DEF CacheTypeOK
    <2>4. CacheTypeOK(d)
      BY <2>2, <2>3 DEF CacheTypeOK
    <2> QED
      BY <1>2, <2>2, <2>3, <2>4 DEF Range
  <1> QED
    BY <1>1, <1>2

LEMMA GivenIdFacts ==
    ASSUME NEW c, CacheTypeOK(c), Untried(c) # {}
    PROVE  GivenId(c) \in Ids /\ GivenId(c) \notin DOMAIN c.known
  <1>1. Untried(c) \in SUBSET Nat
    BY PackerAssumption DEF Untried, CacheTypeOK, Ids
  <1>2. GivenId(c) \in Untried(c)
    BY <1>1, LeastIsIn DEF GivenId
  <1> QED
    BY <1>2, PackerAssumption DEF Untried, CacheTypeOK, Ids

LEMMA AddNewFacts ==
    ASSUME NEW c, CacheTypeOK(c), NEW path \in Nat, NEW content, CanAdd(c, content)
    PROVE  LET d == AddNew(c, path, content)
           IN  /\ CacheTypeOK(d)
               /\ d.remove = c.remove
               /\ DOMAIN d.paths = DOMAIN c.paths \cup {path}
               /\ \A p \in DOMAIN c.paths \ {path} : d.paths[p] = c.paths[p]
               /\ d.known[d.paths[path]] = content
               /\ DOMAIN d.known = DOMAIN c.known \cup {d.paths[path]}
               /\ \A a \in DOMAIN c.known : d.known[a] = c.known[a]
               /\ \/ /\ d.paths[path] \in DOMAIN c.known
                     /\ d.fresh = c.fresh /\ content \in Range(c.known)
                  \/ /\ d.paths[path] \notin DOMAIN c.known
                     /\ d.paths[path] = GivenId(c)
                     /\ \A a \in DOMAIN c.known : c.known[a] # content
                     /\ d.fresh = c.fresh \cup {GivenId(c)}
  <1> DEFINE d == AddNew(c, path, content)
  <1>1. CASE content \in Range(c.known)
    <2> DEFINE id == IdOf(c, content)
               g == Put(c.paths, path, id)
    <2>1. id \in DOMAIN c.known /\ c.known[id] = content
      BY <1>1 DEF Range, IdOf
    <2>2. /\ IsFunction(g) /\ DOMAIN g = DOMAIN c.paths \cup {path}
          /\ g[path] = id /\ \A p \in DOMAIN c.paths \ {path} : g[p] = c.paths[p]
      BY DEF Put, IsFunction
    <2>3. d = [c EXCEPT !.paths = g]
      BY <1>1 DEF AddNew, AddKnown
    <2> HIDE DEF g, id
    <2>4. d = [known |-> c.known, fresh |-> c.fresh, paths |-> g,
               remove |-> c.remove, next |-> c.next]
      BY <2>3 DEF CacheTypeOK
    <2>5. CacheTypeOK(d)
      BY <2>1, <2>2, <2>4 DEF CacheTypeOK
    <2> QED
      BY <1>1, <2>1, <2>2, <2>4, <2>5
  <1>2. CASE content \notin Range(c.known)
    <2> DEFINE id == GivenId(c)
               g == Put(c.known, id, content)
               h == Put(c.paths, path, id)
               n == (id + 1) % (MaxId + 1)
    <2>1. id \in Ids /\ id \notin DOMAIN c.known
      BY <1>2, GivenIdFacts DEF CanAdd
    <2>2. /\ IsFunction(g) /\ DOMAIN g = DOMAIN c.known \cup {id}
          /\ g[id] = content /\ \A x \in DOMAIN c.known \ {id} : g[x] = c.known[x]
      BY DEF Put, IsFunction
    <2>3. /\ IsFunction(h) /\ DOMAIN h = DOMAIN c.paths \cup {path}
          /\ h[path] = id /\ \A p \in DOMAIN c.paths \ {path} : h[p] = c.paths[p]
      BY DEF Put, IsFunction
    <2>4. d = [c EXCEPT !.known = g, !.fresh = @ \cup {id}, !.paths = h, !.next = n]
      BY <1>2 DEF AddNew, AddFresh
    <2>5. n \in Ids
      BY <2>1, PackerAssumption DEF Ids
    <2> HIDE DEF g, h, id, n
    <2>6. d = [known |-> g, fresh |-> c.fresh \cup {id}, paths |-> h,
               remove |-> c.remove, next |-> n]
      BY <2>4 DEF CacheTypeOK
    <2>7. CacheTypeOK(d)
      BY <2>1, <2>2, <2>3, <2>5, <2>6 DEF CacheTypeOK
    <2> QED
      BY <1>2, <2>1, <2>2, <2>3, <2>6, <2>7 DEF Range, id
  <1> QED
    BY <1>1, <1>2

-----------------------------------------------------------------------------
(* The beginning and the end of a run.                                      *)

VisitsTable ==
    /\ Visits(Steps[1]) = DOMAIN files.texture
    /\ Visits(Steps[2]) = DOMAIN input.texture
    /\ Visits(Steps[3]) = cache.texture.remove
    /\ Visits(Steps[4]) = DOMAIN cache.texture.paths
    /\ Visits(Steps[5]) = DOMAIN files.resource
    /\ Visits(Steps[6]) = DOMAIN files.model
    /\ Visits(Steps[7]) = DOMAIN input.object
    /\ Visits(Steps[8]) = cache.resource.remove
    /\ Visits(Steps[9]) = DOMAIN cache.resource.paths
    /\ Visits(Steps[10]) = cache.model.remove
    /\ Visits(Steps[11]) = DOMAIN cache.model.paths

LEMMA VisitsFacts == VisitsTable /\ VisitsTable'
  BY DEF Visits, Steps, VisitsTable

LEMMA OrderOfSteps ==
    ASSUME NEW k \in Kinds
    PROVE  /\ scanOf(k) \in {1, 5, 6} /\ removeOf(k) \in {3, 8, 10}
           /\ scanOf(k) + 1 < removeOf(k) /\ writeOf(k) = removeOf(k) + 1
           /\ Visits(Steps[scanOf(k)]) = DOMAIN files[k]
           /\ Visits(Steps[removeOf(k)]) = cache[k].remove
           /\ Visits(Steps[writeOf(k)]) = DOMAIN cache[k].paths
  BY VisitsFacts DEF VisitsTable, Kinds, scanOf, removeOf, writeOf

LEMMA InitInv == PackerInit => PackerInv
  <1> SUFFICES ASSUME PackerInit PROVE PackerInv
    OBVIOUS
  <1> USE DEF PackerInit
  <1>1. /\ IsFunction(files) /\ DOMAIN files = Kinds
        /\ \A k \in Kinds : IsFunction(files[k]) /\ DOMAIN files[k] \subseteq Ids
        /\ DOMAIN files.model = {}
    <2>1. /\ files = [k \in Kinds |-> [id \in DOMAIN files[k] |-> files[k][id]]]
          /\ \A k \in Kinds : DOMAIN files[k] \subseteq Ids
          /\ DOMAIN files.model = {}
      BY FirstFilesAssumption
    <2>2. \A k \in Kinds : files[k] = [id \in DOMAIN files[k] |-> files[k][id]]
      BY <2>1
    <2>3. DOMAIN files = Kinds
      BY <2>1
    <2> QED
      BY <2>1, <2>2, <2>3 DEF IsFunction
  <1>2. ~ Running
    BY StepsFacts DEF Running
  <1>3. PackerTypeOK
    BY <1>1, <1>2, EmptyCacheFacts DEF PackerTypeOK, IsFunction
  <1>4. ASSUME NEW k \in Kinds PROVE KindInv(k)
    <2>1. Named(k) = {}
      BY <1>1, EmptyFacts DEF Named, WholeModels
    <2> QED
      BY <2>1, OrderOfSteps DEF KindInv, Sound
  <1>5. ModelInv
    BY DEF ModelInv
  <1> QED
    BY <1>3, <1>4, <1>5 DEF PackerInv

LEMMA StartInv == PackerInv /\ Start => PackerInv'
  <1> SUFFICES ASSUME PackerInv, Start PROVE PackerInv'
    OBVIOUS
  <1>1. /\ files' = files /\ input' \in Inputs /\ step' = 1
        /\ cache' = [k \in Kinds |-> EmptyCache]
        /\ todo' = DOMAIN files.texture
    BY VisitsFacts DEF VisitsTable, Start
  <1>2. Visits(Steps[1])' = DOMAIN files'.texture
    BY VisitsFacts DEF VisitsTable
  <1>3. PackerTypeOK'
    BY <1>1, <1>2, EmptyCacheFacts DEF PackerInv, PackerTypeOK, IsFunction
  <1>4. ASSUME NEW k \in Kinds PROVE KindInv(k)'
    <2>1. Named(k)' = Named(k)
      BY <1>1 DEF Named, WholeModels
    <2>2. cache'[k] = EmptyCache
      BY <1>1, OrderOfSteps
    <2>3. Sound(k)'
      BY <1>1, <2>1 DEF PackerInv, KindInv, Sound
    <2>4. step' = scanOf(k) => Scanning(k)'
      BY <1>1, <2>2, EmptyCacheFacts, EmptyFacts
      DEF Scanning, fresh, paths, known, scanOf, Kinds
    <2>5. Remembered(k)'
      BY <2>2, EmptyCacheFacts, EmptyFacts DEF Remembered, old, known, fresh, paths
    <2> QED
      BY <1>1, <2>2, <2>3, <2>4, <2>5, OrderOfSteps DEF KindInv
  <1>5. ModelInv'
    BY <1>1, EmptyCacheFacts DEF ModelInv, fresh, paths, Kinds
  <1> QED
    BY <1>3, <1>4, <1>5 DEF PackerInv

LEMMA DiesInv ==
    ASSUME PackerInv, Dies,
           IsFunction(files'), DOMAIN files' = Kinds,
           \A k \in Kinds : IsFunction(files'[k]) /\ DOMAIN files'[k] \subseteq Ids,
           \A k \in Kinds : Sound(k)'
    PROVE  PackerInv'
  <1>1. step' = 0 /\ input' = input /\ cache' = [k \in Kinds |-> EmptyCache]
    BY DEF Dies
  <1>2. ~ Running'
    BY <1>1, StepsFacts DEF Running
  <1>3. PackerTypeOK'
    BY <1>1, <1>2, EmptyCacheFacts DEF PackerInv, PackerTypeOK, IsFunction
  <1>4. ASSUME NEW k \in Kinds PROVE KindInv(k)'
    BY <1>1, OrderOfSteps DEF KindInv
  <1>5. ModelInv'
    BY <1>1 DEF ModelInv
  <1> QED
    BY <1>3, <1>4, <1>5 DEF PackerInv

\* Nothing was written.
LEMMA ThrowsInv == PackerInv /\ Dies /\ UNCHANGED files => PackerInv'
  <1> SUFFICES ASSUME PackerInv, Dies, files' = files PROVE PackerInv'
    OBVIOUS
  <1>1. ASSUME NEW k \in Kinds PROVE Sound(k)'
    <2>1. Named(k)' = Named(k)
      BY DEF Named, WholeModels
    <2> QED
      BY <2>1 DEF PackerInv, KindInv, Sound
  <1> QED
    BY <1>1, DiesInv DEF PackerInv, PackerTypeOK

\* The file that is next, and its place in the caches.
LEMMA WrittenFacts ==
    ASSUME PackerInv, Doing("write"), todo # {}, NEW content
    PROVE  LET p == Min(todo)
               id == paths(Kind)[p]
           IN  /\ Kind \in Kinds
               /\ step \in {4, 9, 11}
               /\ Kind = "texture" <=> step = 4
               /\ Kind = "resource" <=> step = 9
               /\ Kind = "model" <=> step = 11
               /\ p \in todo /\ p \in DOMAIN paths(Kind)
               /\ id \in DOMAIN known(Kind) /\ id \in Ids
               /\ DOMAIN Written(content) = Kinds /\ IsFunction(Written(content))
               /\ \A k \in Kinds \ {Kind} : Written(content)[k] = files[k]
               /\ IsFunction(Written(content)[Kind])
               /\ DOMAIN Written(content)[Kind]
                    = DOMAIN files[Kind] \cup ({id} \cap fresh(Kind))
               /\ \A x \in DOMAIN Written(content)[Kind] :
                    Written(content)[Kind][x] =
                        IF x = id /\ id \in fresh(Kind) THEN content[id]
                                                        ELSE files[Kind][x]
  <1>1. /\ step \in {4, 9, 11} /\ Running
        /\ Kind \in Kinds
        /\ Kind = "texture" <=> step = 4
        /\ Kind = "resource" <=> step = 9
        /\ Kind = "model" <=> step = 11
    BY StepsFacts DEF Doing, Running, Kind, Kinds
  <1>2. todo \subseteq DOMAIN paths(Kind)
    BY <1>1, VisitsFacts DEF VisitsTable, PackerInv, PackerTypeOK, paths, Kinds
  <1>3. CacheTypeOK(cache[Kind])
    BY <1>1 DEF PackerInv, PackerTypeOK
  <1>4. Min(todo) \in todo
    BY <1>2, <1>3, LeastIsIn DEF CacheTypeOK, paths
  <1>5. paths(Kind)[Min(todo)] \in DOMAIN known(Kind) /\ DOMAIN known(Kind) \subseteq Ids
    BY <1>2, <1>3, <1>4 DEF CacheTypeOK, paths, known
  <1>6. IsFunction(files) /\ DOMAIN files = Kinds
    BY DEF PackerInv, PackerTypeOK
  <1> DEFINE id == paths(Kind)[Min(todo)]
  <1>7. Written(content) = IF id \in fresh(Kind)
                           THEN [files EXCEPT ![Kind] = Put(@, id, content[id])]
                           ELSE files
    BY DEF Written, paths, fresh
  <1>8. /\ DOMAIN Written(content) = Kinds /\ IsFunction(Written(content))
        /\ \A k \in Kinds \ {Kind} : Written(content)[k] = files[k]
        /\ id \notin fresh(Kind) => Written(content)[Kind] = files[Kind]
        /\ id \in fresh(Kind) =>
            Written(content)[Kind] = Put(files[Kind], id, content[id])
    BY <1>1, <1>6, <1>7 DEF IsFunction
  <1>9. /\ IsFunction(Written(content)[Kind])
        /\ DOMAIN Written(content)[Kind]
                = DOMAIN files[Kind] \cup ({id} \cap fresh(Kind))
        /\ \A x \in DOMAIN Written(content)[Kind] :
                Written(content)[Kind][x] =
                    IF x = id /\ id \in fresh(Kind) THEN content[id] ELSE files[Kind][x]
    <2>1. CASE id \notin fresh(Kind)
      BY <2>1, <1>1, <1>8 DEF PackerInv, PackerTypeOK
    <2>2. CASE id \in fresh(Kind)
      <3> DEFINE g == Put(files[Kind], id, content[id])
      <3>1. /\ IsFunction(g) /\ DOMAIN g = DOMAIN files[Kind] \cup {id}
            /\ g[id] = content[id] /\ \A x \in DOMAIN files[Kind] \ {id} : g[x] = files[Kind][x]
        BY DEF IsFunction, Put
      <3>2. Written(content)[Kind] = g
        BY <2>2, <1>8
      <3> HIDE DEF g, id
      <3> QED
        BY <2>2, <3>1, <3>2
    <2> QED
      BY <2>1, <2>2
  <1> QED
    BY <1>1, <1>2, <1>4, <1>5, <1>8, <1>9

LEMMA CrashInv == PackerInv /\ Crash => PackerInv'
  <1> SUFFICES ASSUME PackerInv, Crash PROVE PackerInv'
    OBVIOUS
  <1>1. CASE files' = files
    BY <1>1, ThrowsInv DEF Crash
  <1>2. CASE /\ Doing("write") /\ todo # {}
             /\ files' = Written([id \in Ids |-> Torn])
    <2> DEFINE id == paths(Kind)[Min(todo)]
    <2>1. /\ Kind \in Kinds /\ id \in Ids
          /\ Kind = "texture" <=> step = 4
          /\ Kind = "resource" <=> step = 9
          /\ Kind = "model" <=> step = 11
          /\ DOMAIN files' = Kinds /\ IsFunction(files')
          /\ \A k \in Kinds \ {Kind} : files'[k] = files[k]
          /\ IsFunction(files'[Kind])
          /\ DOMAIN files'[Kind] = DOMAIN files[Kind] \cup ({id} \cap fresh(Kind))
          /\ \A x \in DOMAIN files'[Kind] :
                files'[Kind][x] = IF x = id /\ id \in fresh(Kind) THEN Torn
                                                                 ELSE files[Kind][x]
      <3>1. [x \in Ids |-> Torn][id] = Torn
        BY <1>2, WrittenFacts
      <3> QED
        BY <1>2, <3>1, WrittenFacts
    <2> HIDE DEF id
    <2>2. /\ \A x \in DOMAIN files'[Kind] :
                \/ x \in DOMAIN files[Kind] /\ files'[Kind][x] = files[Kind][x]
                \/ x = id /\ id \in fresh(Kind) /\ files'[Kind][x] = Torn
          /\ \A x \in DOMAIN files[Kind] :
                x \in DOMAIN files'[Kind] /\ (files'[Kind][x] = files[Kind][x] \/
                    (x = id /\ id \in fresh(Kind)))
      BY <2>1
    <2>3. \A k \in Kinds : IsFunction(files'[k]) /\ DOMAIN files'[k] \subseteq Ids
      BY <2>1, <2>2 DEF PackerInv, PackerTypeOK
    <2>4. \A m \in WholeModels' : m \in WholeModels /\ files'.model[m] = files.model[m]
      BY <2>1, <2>2 DEF WholeModels, Kinds
    <2>5. ASSUME NEW k \in Kinds PROVE Sound(k)'
      <3>1. Named(k)' \subseteq Named(k)
        BY <2>4 DEF Named
      <3>2. CASE k = Kind
        <4>1. Named(k) \subseteq old(k)
          BY <3>2, <2>1 DEF PackerInv, KindInv, scanOf, writeOf, Kinds
        <4> QED
          BY <2>2, <3>1, <3>2, <4>1 DEF PackerInv, KindInv, Sound, old
      <3>3. CASE k # Kind
        BY <2>1, <3>1, <3>3, OrderOfSteps DEF PackerInv, KindInv, Sound
      <3> QED
        BY <3>2, <3>3
    <2> QED
      BY <2>1, <2>3, <2>5, DiesInv DEF Crash
  <1> QED
    BY <1>1, <1>2 DEF Crash

-----------------------------------------------------------------------------
(* The steps of a run.                                                      *)

LEMMA AdvanceInv == PackerInv /\ Advance => PackerInv'
  <1> SUFFICES ASSUME PackerInv, Advance PROVE PackerInv'
    OBVIOUS
  <1>1. /\ step \in 1 .. 11 /\ todo = {} /\ step' = step + 1
        /\ todo' = IF step = 11 THEN {} ELSE Visits(Steps[step + 1])
        /\ files' = files /\ input' = input /\ cache' = cache
    BY StepsFacts DEF Advance, Running
  <1>2. \A s \in 1 .. 11 : Visits(Steps[s])' = Visits(Steps[s])
    BY <1>1 DEF Visits, Steps
  <1>3. PackerTypeOK'
    <2>1. Running' => todo' \subseteq Visits(Steps[step])'
      BY <1>1, <1>2, StepsFacts DEF Running
    <2> QED
      BY <1>1, <2>1 DEF PackerInv, PackerTypeOK
  <1>4. ASSUME NEW k \in Kinds PROVE KindInv(k)'
    <2>1. /\ Named(k)' = Named(k) /\ known(k)' = known(k) /\ old(k)' = old(k)
          /\ fresh(k)' = fresh(k) /\ paths(k)' = paths(k)
      BY <1>1 DEF Named, WholeModels, known, fresh, paths, old
    <2>2. /\ scanOf(k)' = scanOf(k) /\ removeOf(k)' = removeOf(k) /\ writeOf(k)' = writeOf(k)
          /\ step' = scanOf(k) => todo' = DOMAIN files[k]
          /\ step' = removeOf(k) => todo' = cache[k].remove
          /\ step' = writeOf(k) => todo' = DOMAIN paths(k)
      BY <1>1, OrderOfSteps DEF paths, scanOf, removeOf, writeOf
    <2>3. KindInv(k)
      BY DEF PackerInv
    <2>4. Sound(k)'
      BY <1>1, <2>1, <2>3 DEF KindInv, Sound
    <2>5. step' \in 1 .. scanOf(k) - 1 => cache'[k] = EmptyCache
      BY <1>1, <2>3, OrderOfSteps DEF KindInv
    <2>6. step' = scanOf(k) => cache[k] = EmptyCache
      BY <1>1, <2>3, OrderOfSteps DEF KindInv
    <2>7. step' = scanOf(k) => Scanning(k)'
      BY <1>1, <2>1, <2>2, <2>6, EmptyCacheFacts, EmptyFacts
      DEF Scanning, known, fresh, paths
    <2>8. step' \in scanOf(k) .. 11 => Remembered(k)'
      <3>1. CASE step' = scanOf(k)
        BY <1>1, <2>1, <2>6, <3>1, EmptyCacheFacts, EmptyFacts
        DEF Remembered, old, known, fresh, paths
      <3>2. CASE step' # scanOf(k)
        BY <1>1, <2>1, <2>3, <3>2, OrderOfSteps DEF KindInv, Remembered
      <3> QED
        BY <3>1, <3>2
    <2>9. step' \in scanOf(k) + 1 .. removeOf(k) => Keeping(k)'
      <3>1. CASE step = scanOf(k)
        BY <1>1, <2>1, <2>2, <2>3, <3>1, OrderOfSteps
        DEF KindInv, Scanning, Keeping, old, known
      <3>2. CASE step # scanOf(k)
        BY <1>1, <2>1, <2>2, <2>3, <3>2, OrderOfSteps DEF KindInv, Keeping
      <3> QED
        BY <3>1, <3>2
    <2>10. step' \in scanOf(k) + 1 .. writeOf(k) => Named(k)' \subseteq old(k)'
      <3>1. CASE step = scanOf(k)
        BY <1>1, <2>1, <2>3, <3>1, OrderOfSteps DEF KindInv, Sound, Scanning, old
      <3>2. CASE step # scanOf(k)
        BY <1>1, <2>1, <2>3, <3>2, OrderOfSteps DEF KindInv
      <3> QED
        BY <3>1, <3>2
    <2>11. step' \in writeOf(k) .. 11 => Writing(k)'
      <3>1. CASE step = removeOf(k)
        BY <1>1, <2>1, <2>2, <2>3, <3>1, OrderOfSteps
        DEF KindInv, Keeping, Remembered, Writing, old
      <3>2. CASE step # removeOf(k)
        BY <1>1, <2>1, <2>2, <2>3, <3>2, OrderOfSteps DEF KindInv, Writing
      <3> QED
        BY <3>1, <3>2
    <2> QED
      BY <2>2, <2>4, <2>5, <2>7, <2>8, <2>9, <2>10, <2>11 DEF KindInv
  <1>5. ModelInv'
    BY <1>1, EmptyFacts DEF PackerInv, ModelInv, NewModel, paths, known, fresh
  <1> QED
    BY <1>3, <1>4, <1>5 DEF PackerInv

\* A kind that the step is not about.
LEMMA OtherKind ==
    ASSUME NEW k \in Kinds, KindInv(k), step' = step,
           files'[k] = files[k], cache'[k] = cache[k],
           Named(k)' \subseteq Named(k),
           todo' = todo \/ step \notin {scanOf(k), removeOf(k), writeOf(k)}
    PROVE  KindInv(k)'
  <1>1. /\ known(k)' = known(k) /\ old(k)' = old(k)
        /\ fresh(k)' = fresh(k) /\ paths(k)' = paths(k)
    BY DEF known, fresh, paths, old
  <1>2. scanOf(k)' = scanOf(k) /\ removeOf(k)' = removeOf(k) /\ writeOf(k)' = writeOf(k)
    BY DEF scanOf, removeOf, writeOf
  <1>3. Sound(k)'
    BY DEF KindInv, Sound
  <1>4. step = scanOf(k) /\ Scanning(k) => Scanning(k)'
    BY <1>1 DEF Scanning
  <1>5. Remembered(k) => Remembered(k)'
    BY <1>1 DEF Remembered
  <1>6. Keeping(k) => Keeping(k)'
    BY <1>1, <1>2 DEF Keeping
  <1>7. Writing(k) => Writing(k)'
    BY <1>1, <1>2 DEF Writing
  <1> QED
    BY <1>1, <1>2, <1>3, <1>4, <1>5, <1>6, <1>7 DEF KindInv

LEMMA ScanInv == PackerInv /\ Scan => PackerInv'
  <1> SUFFICES ASSUME PackerInv, Scan PROVE PackerInv'
    OBVIOUS
  <1>1. PICK id \in todo :
            /\ cache' = [cache EXCEPT ![Kind] = AddCached(@, id, files[Kind][id])]
            /\ todo' = todo \ {id}
            /\ files' = files /\ input' = input /\ step' = step
    BY DEF Scan, Handled
  <1>2. /\ step \in {1, 5, 6} /\ Running
        /\ Kind \in Kinds
        /\ Kind = "texture" <=> step = 1
        /\ Kind = "resource" <=> step = 5
        /\ Kind = "model" <=> step = 6
    BY StepsFacts DEF Scan, Doing, Running, Kind, Kinds
  <1> DEFINE d == AddCached(cache[Kind], id, files[Kind][id])
  <1>3. todo \subseteq DOMAIN files[Kind] /\ id \in Ids /\ CacheTypeOK(cache[Kind])
    BY <1>2, VisitsFacts DEF VisitsTable, PackerInv, PackerTypeOK
  <1>4. /\ DOMAIN cache' = Kinds /\ IsFunction(cache')
        /\ cache'[Kind] = d /\ \A k \in Kinds \ {Kind} : cache'[k] = cache[k]
    BY <1>1, <1>2 DEF PackerInv, PackerTypeOK, IsFunction
  <1>5. /\ CacheTypeOK(d) /\ d.fresh = fresh(Kind) /\ d.paths = paths(Kind)
        /\ \/ /\ id = 0 \/ \E a \in DOMAIN known(Kind) : known(Kind)[a] = files[Kind][id]
              /\ d.known = known(Kind) /\ d.remove = cache[Kind].remove \cup {id}
           \/ /\ id # 0 /\ \A a \in DOMAIN known(Kind) : known(Kind)[a] # files[Kind][id]
              /\ DOMAIN d.known = DOMAIN known(Kind) \cup {id}
              /\ d.known[id] = files[Kind][id]
              /\ \A a \in DOMAIN known(Kind) \ {id} : d.known[a] = known(Kind)[a]
              /\ d.remove = cache[Kind].remove
    BY <1>3, AddCachedFacts DEF known, fresh, paths
  <1> HIDE DEF d
  <1>6. PackerTypeOK'
    <2>1. Visits(Steps[step])' = Visits(Steps[step])
      BY <1>1, <1>2, VisitsFacts DEF VisitsTable
    <2> QED
      BY <1>1, <1>2, <1>4, <1>5, <2>1 DEF PackerInv, PackerTypeOK
  <1>7. ASSUME NEW k \in Kinds PROVE KindInv(k)'
    <2>1. Named(k)' = Named(k)
      BY <1>1 DEF Named, WholeModels
    <2>2. CASE k # Kind
      <3>1. step \notin {scanOf(k), removeOf(k), writeOf(k)}
        BY <1>2, <2>2 DEF Kinds, scanOf, removeOf, writeOf
      <3> QED
        BY <1>1, <1>4, <2>1, <2>2, <3>1, OtherKind, OrderOfSteps DEF PackerInv
    <2>3. CASE k = Kind
      <3>1. step = scanOf(k)
        BY <1>2, <2>3 DEF Kinds, scanOf
      <3>2. Sound(k) /\ Scanning(k) /\ Remembered(k)
        BY <3>1, OrderOfSteps DEF PackerInv, KindInv
      <3>3. /\ known(k)' = d.known /\ fresh(k)' = {} /\ paths(k)' = <<>>
            /\ fresh(k) = {} /\ cache'[k] = d
            /\ old(k)' = DOMAIN d.known /\ old(k) = DOMAIN known(k)
        BY <1>4, <1>5, <2>3, <3>2 DEF known, fresh, paths, old, Scanning
      <3>4. id \in DOMAIN files[k] /\ id \notin DOMAIN known(k) \cup cache[k].remove
        BY <1>3, <2>3, <3>2 DEF Scanning
      <3>5. Sound(k)'
        BY <1>1, <2>1, <3>2 DEF Sound
      <3>6. Scanning(k)'
        <4>1. CASE d.remove = cache[k].remove \cup {id} /\ d.known = known(k) /\
                   (id = 0 \/ \E a \in DOMAIN known(k) : known(k)[a] = files[k][id])
          <5>1. id \notin Named(k)
            <6>1. CASE id = 0
              BY <6>1 DEF Named
            <6>2. CASE \E a \in DOMAIN known(k) : known(k)[a] = files[k][id]
              <7>1. PICK a \in DOMAIN known(k) : known(k)[a] = files[k][id]
                BY <6>2
              <7>2. a # 0 /\ a \in DOMAIN files[k] /\ files[k][a] = files[k][id]
                BY <7>1, <3>2, <3>3 DEF Remembered
              <7> QED
                BY <7>2, <3>2, <3>4 DEF Sound
            <6> QED
              BY <4>1, <6>1, <6>2
          <5> QED
            BY <1>1, <2>1, <3>2, <3>3, <3>4, <4>1, <5>1 DEF Scanning
        <4>2. CASE d.remove = cache[k].remove /\ DOMAIN d.known = DOMAIN known(k) \cup {id}
          BY <1>1, <2>1, <3>2, <3>3, <3>4, <4>2 DEF Scanning
        <4> QED
          BY <1>5, <2>3, <4>1, <4>2
      <3>7. Remembered(k)'
        <4>1. CASE d.known = known(k)
          BY <1>1, <3>2, <3>3, <4>1, EmptyFacts DEF Remembered
        <4>2. CASE /\ id # 0 /\ \A a \in DOMAIN known(k) : known(k)[a] # files[k][id]
                   /\ DOMAIN d.known = DOMAIN known(k) \cup {id}
                   /\ d.known[id] = files[k][id]
                   /\ \A a \in DOMAIN known(k) \ {id} : d.known[a] = known(k)[a]
          BY <1>1, <3>2, <3>3, <3>4, <4>2, EmptyFacts DEF Remembered
        <4> QED
          BY <1>5, <2>3, <4>1, <4>2
      <3> QED
        BY <1>1, <3>1, <3>5, <3>6, <3>7, OrderOfSteps DEF KindInv, scanOf, removeOf, writeOf
    <2> QED
      BY <2>2, <2>3
  <1>8. ModelInv'
    <2>1. fresh("model") = {} /\ paths("resource") = <<>>
      BY <1>2 DEF PackerInv, ModelInv
    <2>2. fresh("model")' = {} /\ paths("resource")' = <<>>
      BY <1>2, <1>4, <1>5, <2>1 DEF fresh, paths, Kinds
    <2> QED
      BY <1>1, <1>2, <2>2 DEF ModelInv
  <1> QED
    BY <1>6, <1>7, <1>8 DEF PackerInv

\* A kind that is given what the input has.
LEMMA AddedKind ==
    ASSUME NEW k \in Kinds, KindInv(k), CacheTypeOK(cache[k]),
           step \in scanOf(k) + 1 .. removeOf(k) - 1, step' = step, files' = files,
           NEW path \in Nat, NEW content, k \in Parts => content \notin {<<>>, Torn},
           CanAdd(cache[k], content), cache'[k] = AddNew(cache[k], path, content)
    PROVE  KindInv(k)'
  <1> DEFINE id == cache'[k].paths[path]
  <1>1. /\ cache'[k].remove = cache[k].remove
        /\ DOMAIN paths(k)' = DOMAIN paths(k) \cup {path}
        /\ \A p \in DOMAIN paths(k) \ {path} : paths(k)'[p] = paths(k)[p]
        /\ paths(k)'[path] = id
        /\ DOMAIN known(k)' = DOMAIN known(k) \cup {id}
        /\ known(k)'[id] = content
        /\ \A a \in DOMAIN known(k) : known(k)'[a] = known(k)[a]
        /\ \/ id \in DOMAIN known(k) /\ fresh(k)' = fresh(k)
           \/ /\ id \notin DOMAIN known(k)
              /\ \A a \in DOMAIN known(k) : known(k)[a] # content
              /\ fresh(k)' = fresh(k) \cup {id}
    <2> DEFINE c == cache[k]
               d == AddNew(c, path, content)
    <2>1. /\ d.remove = c.remove
          /\ DOMAIN d.paths = DOMAIN c.paths \cup {path}
          /\ \A p \in DOMAIN c.paths \ {path} : d.paths[p] = c.paths[p]
          /\ d.known[d.paths[path]] = content
          /\ DOMAIN d.known = DOMAIN c.known \cup {d.paths[path]}
          /\ \A a \in DOMAIN c.known : d.known[a] = c.known[a]
          /\ \/ /\ d.paths[path] \in DOMAIN c.known
                /\ d.fresh = c.fresh /\ content \in Range(c.known)
             \/ /\ d.paths[path] \notin DOMAIN c.known
                /\ d.paths[path] = GivenId(c)
                /\ \A a \in DOMAIN c.known : c.known[a] # content
                /\ d.fresh = c.fresh \cup {GivenId(c)}
      BY AddNewFacts
    <2>2. cache'[k] = d
      OBVIOUS
    <2> HIDE DEF d
    <2> QED
      BY <2>1, <2>2 DEF known, fresh, paths
  <1> HIDE DEF id
  <1>2. /\ fresh(k) \subseteq DOMAIN known(k)
        /\ \A p \in DOMAIN paths(k) : paths(k)[p] \in DOMAIN known(k)
    BY DEF CacheTypeOK, known, fresh, paths
  <1>3. old(k)' = old(k)
    BY <1>1, <1>2 DEF old
  <1>4. Named(k)' = Named(k)
    BY DEF Named, WholeModels
  <1>5. Sound(k) /\ Remembered(k) /\ Keeping(k) /\ Named(k) \subseteq old(k)
    BY OrderOfSteps DEF KindInv
  <1>6. Sound(k)'
    BY <1>4, <1>5 DEF Sound
  <1>7. Remembered(k)'
    <2>1. \A a, b \in DOMAIN known(k)' : known(k)'[a] = known(k)'[b] => a = b
      BY <1>1, <1>5 DEF Remembered
    <2>2. \A a \in old(k)' : a # 0 /\ a \in DOMAIN files'[k] /\ known(k)'[a] = files'[k][a]
      BY <1>1, <1>3, <1>5 DEF Remembered, old
    <2>3. k \in Parts =>
            \A p \in DOMAIN paths(k)' : known(k)'[paths(k)'[p]] \notin {<<>>, Torn}
      BY <1>1, <1>2, <1>5 DEF Remembered
    <2> QED
      BY <2>1, <2>2, <2>3 DEF Remembered
  <1>8. Keeping(k)'
    BY <1>1, <1>3, <1>5, OrderOfSteps DEF Keeping, removeOf
  <1> QED
    BY <1>3, <1>4, <1>5, <1>6, <1>7, <1>8, OrderOfSteps DEF KindInv, scanOf, removeOf, writeOf

LEMMA AddTextureInv == PackerInv /\ AddTexture => PackerInv'
  <1> SUFFICES ASSUME PackerInv, AddTexture PROVE PackerInv'
    OBVIOUS
  <1>1. step = 2 /\ Running
    BY StepsFacts DEF AddTexture, Doing, Running, Kind
  <1>2. PICK path \in todo :
            LET picture == input.texture[path]
            IN  \/ /\ CanAdd(cache.texture, picture)
                   /\ cache' = [cache EXCEPT !.texture = AddNew(@, path, picture)]
                   /\ Handled(path)
                \/ Dies
    BY DEF AddTexture
  <1>3. files' = files
    BY DEF AddTexture
  <1>4. CASE Dies
    BY <1>3, <1>4, ThrowsInv
  <1> DEFINE picture == input.texture[path]
  <1>5. CASE /\ CanAdd(cache.texture, picture)
             /\ cache' = [cache EXCEPT !.texture = AddNew(@, path, picture)]
             /\ Handled(path)
    <2>1. input' = input /\ step' = step /\ todo' = todo \ {path}
      BY <1>5 DEF Handled
    <2>2. path \in DOMAIN input.texture /\ path \in Nat /\ picture \notin {<<>>, Torn}
      BY <1>1, VisitsFacts, InputsAssumption
      DEF VisitsTable, PackerInv, PackerTypeOK, Range
    <2>3. CacheTypeOK(cache["texture"])
      BY DEF PackerInv, PackerTypeOK, Kinds
    <2> DEFINE d == AddNew(cache["texture"], path, picture)
    <2> HIDE DEF picture
    <2>4. CacheTypeOK(d)
      BY <1>5, <2>2, <2>3, AddNewFacts
    <2>5. /\ DOMAIN cache' = Kinds /\ IsFunction(cache') /\ cache'["texture"] = d
          /\ cache'["resource"] = cache["resource"] /\ cache'["model"] = cache["model"]
      BY <1>5 DEF PackerInv, PackerTypeOK, IsFunction, Kinds
    <2> HIDE DEF d
    <2>6. PackerTypeOK'
      <3>1. Visits(Steps[step])' = Visits(Steps[step])
        BY <1>1, <2>1, VisitsFacts DEF VisitsTable
      <3>2. \A k \in Kinds : CacheTypeOK(cache'[k])
        BY <2>4, <2>5 DEF PackerInv, PackerTypeOK, Kinds
      <3> QED
        BY <1>1, <1>3, <2>1, <2>5, <3>1, <3>2 DEF PackerInv, PackerTypeOK
    <2>7. KindInv("texture")'
      BY <1>1, <1>3, <1>5, <2>1, <2>2, <2>3, <2>5, AddedKind
      DEF PackerInv, Kinds, scanOf, removeOf, d
    <2>8. ASSUME NEW k \in Kinds, k # "texture" PROVE KindInv(k)'
      <3>1. Named(k)' = Named(k)
        BY <1>3 DEF Named, WholeModels
      <3>2. step \notin {scanOf(k), removeOf(k), writeOf(k)} /\ cache'[k] = cache[k]
        BY <1>1, <2>5, <2>8 DEF Kinds, scanOf, removeOf, writeOf
      <3> QED
        BY <1>3, <2>1, <3>1, <3>2, OtherKind DEF PackerInv
    <2>9. ModelInv'
      BY <1>1, <2>1, <2>5 DEF PackerInv, ModelInv, fresh, paths
    <2> QED
      BY <2>6, <2>7, <2>8, <2>9 DEF PackerInv
  <1> QED
    BY <1>2, <1>4, <1>5

LEMMA AddObjectInv == PackerInv /\ AddObject => PackerInv'
  <1> SUFFICES ASSUME PackerInv, AddObject PROVE PackerInv'
    OBVIOUS
  <1>1. step = 7 /\ Running
    BY StepsFacts DEF AddObject, Doing, Running, Kind
  <1>2. PICK path \in todo :
            LET object == input.object[path]
                resource == ResourceOf(object)
                model == ModelOf(object, ResourceIdGiven(resource))
            IN  \/ /\ Packable(object)
                   /\ cache' = [cache EXCEPT !.resource = AddNew(@, path, resource),
                                             !.model = AddNew(@, path, model)]
                   /\ Handled(path)
                \/ Dies
    BY DEF AddObject
  <1>3. files' = files
    BY DEF AddObject
  <1>4. CASE Dies
    BY <1>3, <1>4, ThrowsInv
  <1> DEFINE object == input.object[path]
             resource == ResourceOf(object)
             model == ModelOf(object, ResourceIdGiven(resource))
             cr == cache["resource"]
             cm == cache["model"]
             r == AddNew(cr, path, resource)
             m == AddNew(cm, path, model)
  <1>5. CASE /\ Packable(object)
             /\ cache' = [cache EXCEPT !.resource = AddNew(@, path, resource),
                                       !.model = AddNew(@, path, model)]
             /\ Handled(path)
    <2>1. input' = input /\ step' = step /\ todo' = todo \ {path}
      BY <1>5 DEF Handled
    <2>2. path \in DOMAIN input.object /\ path \in Nat
      BY <1>1, VisitsFacts, InputsAssumption DEF VisitsTable, PackerInv, PackerTypeOK
    <2>3. Readable(object) /\ CanAdd(cr, resource) /\ CanAdd(cm, model)
      BY <1>5 DEF Packable
    <2>4. resource \notin {<<>>, Torn}
      <3>1. resource # Torn
        BY <2>2, <2>3, InputsAssumption DEF PackerInv, PackerTypeOK, Range
      <3>2. "meshes" \in DOMAIN resource
        BY DEF ResourceOf
      <3> QED
        BY <3>1, <3>2, EmptyFacts
    <2>5. CacheTypeOK(cr) /\ CacheTypeOK(cm)
      BY DEF PackerInv, PackerTypeOK, Kinds
    <2>6. /\ DOMAIN cache' = Kinds /\ IsFunction(cache')
          /\ cache'["resource"] = r /\ cache'["model"] = m
          /\ cache'["texture"] = cache["texture"]
      BY <1>5 DEF PackerInv, PackerTypeOK, IsFunction, Kinds
    <2>7. \A i \in 1 .. TextureCount :
            model.texture_ids[i] = 0 \/ \E p \in DOMAIN paths("texture") :
                                            model.texture_ids[i] = paths("texture")[p]
      BY DEF ModelOf, TextureId, paths
    <2>8. model.resource_id = ResourceIdGiven(resource)
      BY DEF ModelOf
    <2>9. ResourceIdGiven(resource) = IF resource \in Range(cr.known) THEN 0 ELSE GivenId(cr)
      BY DEF ResourceIdGiven
    <2> HIDE DEF model, resource, object
    <2>10. /\ CacheTypeOK(r)
           /\ DOMAIN r.paths = DOMAIN cr.paths \cup {path}
           /\ \A p \in DOMAIN cr.paths \ {path} : r.paths[p] = cr.paths[p]
           /\ \/ resource \in Range(cr.known)
              \/ r.paths[path] = GivenId(cr)
      <3>1. /\ CacheTypeOK(r)
            /\ DOMAIN r.paths = DOMAIN cr.paths \cup {path}
            /\ \A p \in DOMAIN cr.paths \ {path} : r.paths[p] = cr.paths[p]
        BY <2>2, <2>3, <2>5, AddNewFacts
      <3>2. resource \in Range(cr.known) \/ r.paths[path] = GivenId(cr)
        BY <2>2, <2>3, <2>5, AddNewFacts
      <3> QED
        BY <3>1, <3>2
    <2>11. /\ CacheTypeOK(m)
           /\ m.known[m.paths[path]] = model
           /\ \A a \in DOMAIN cm.known : m.known[a] = cm.known[a]
           /\ m.fresh \subseteq cm.fresh \cup {m.paths[path]}
      <3>1. /\ CacheTypeOK(m)
            /\ m.known[m.paths[path]] = model
            /\ \A a \in DOMAIN cm.known : m.known[a] = cm.known[a]
        BY <2>2, <2>3, <2>5, AddNewFacts
      <3>2. m.fresh = cm.fresh \/ (m.paths[path] = GivenId(cm)
                                    /\ m.fresh = cm.fresh \cup {GivenId(cm)})
        BY <2>2, <2>3, <2>5, AddNewFacts
      <3> QED
        BY <3>1, <3>2
    <2> HIDE DEF r, m
    <2>12. PackerTypeOK'
      <3>1. Visits(Steps[step])' = Visits(Steps[step])
        BY <1>1, <2>1, VisitsFacts DEF VisitsTable
      <3>2. \A k \in Kinds : CacheTypeOK(cache'[k])
        BY <2>6, <2>10, <2>11 DEF PackerInv, PackerTypeOK, Kinds
      <3> QED
        BY <1>1, <1>3, <2>1, <2>6, <3>1, <3>2 DEF PackerInv, PackerTypeOK
    <2>13. KindInv("resource")'
      BY <1>1, <1>3, <2>1, <2>2, <2>3, <2>4, <2>5, <2>6, AddedKind
      DEF PackerInv, Kinds, scanOf, removeOf, r
    <2>14. KindInv("model")'
      BY <1>1, <1>3, <2>1, <2>2, <2>3, <2>5, <2>6, AddedKind
      DEF PackerInv, Kinds, Parts, scanOf, removeOf, m
    <2>15. KindInv("texture")'
      <3>1. Named("texture")' = Named("texture")
        BY <1>3 DEF Named, WholeModels
      <3> QED
        BY <1>1, <1>3, <2>1, <2>6, <3>1, OtherKind
        DEF PackerInv, Kinds, scanOf, removeOf, writeOf
    <2>16. ModelInv'
      <3>1. DOMAIN paths("resource") \cap todo = {}
        BY <1>1 DEF PackerInv, ModelInv
      <3>2. /\ DOMAIN paths("resource")' = DOMAIN paths("resource") \cup {path}
            /\ \A p \in DOMAIN paths("resource") : paths("resource")'[p] = paths("resource")[p]
            /\ \/ resource \in Range(cr.known)
               \/ paths("resource")'[path] = GivenId(cr)
            /\ paths("texture")' = paths("texture")
        BY <2>6, <2>10, <3>1 DEF paths
      <3> DEFINE Leads(n) ==
            /\ n.resource_id = 0
                \/ \E p \in DOMAIN paths("resource")' :
                        n.resource_id = paths("resource")'[p]
            /\ \A i \in 1 .. TextureCount :
                n.texture_ids[i] = 0
                    \/ \E p \in DOMAIN paths("texture")' :
                            n.texture_ids[i] = paths("texture")'[p]
      <3>3. \A n : NewModel(n) => Leads(n)
        BY <3>2 DEF NewModel
      <3>4. Leads(model)
        BY <2>7, <2>8, <2>9, <3>2
      <3>5. (\A a \in fresh("model") : NewModel(known("model")[a]))'
        <4>1. ASSUME NEW a \in m.fresh PROVE Leads(m.known[a])
          <5>1. CASE a = m.paths[path]
            BY <2>11, <3>4, <5>1
          <5>2. CASE a # m.paths[path]
            <6>1. a \in fresh("model") /\ m.known[a] = known("model")[a]
              BY <2>5, <2>11, <5>2 DEF fresh, known, CacheTypeOK
            <6>2. NewModel(known("model")[a])
              BY <1>1, <6>1 DEF PackerInv, ModelInv
            <6> QED
              BY <3>3, <6>1, <6>2
          <5> QED
            BY <5>1, <5>2
        <4> QED
          BY <2>6, <4>1 DEF fresh, known, NewModel
      <3>6. DOMAIN paths("resource")' \cap todo' = {}
        BY <2>1, <3>1, <3>2
      <3> QED
        BY <1>1, <2>1, <3>5, <3>6 DEF ModelInv
    <2> QED
      BY <2>12, <2>13, <2>14, <2>15, <2>16 DEF PackerInv, Kinds
  <1> QED
    BY <1>2, <1>4, <1>5

LEMMA RemoveFileInv == PackerInv /\ RemoveFile => PackerInv'
  <1> SUFFICES ASSUME PackerInv, RemoveFile PROVE PackerInv'
    OBVIOUS
  <1> DEFINE id == Min(todo)
             g == Restrict(files[Kind], DOMAIN files[Kind] \ {id})
  <1>1. /\ step \in {3, 8, 10} /\ Running
        /\ Kind \in Kinds
        /\ Kind = "texture" <=> step = 3
        /\ Kind = "resource" <=> step = 8
        /\ Kind = "model" <=> step = 10
    BY StepsFacts DEF RemoveFile, Doing, Running, Kind, Kinds
  <1>2. /\ files' = [files EXCEPT ![Kind] = g]
        /\ todo' = todo \ {id} /\ todo # {}
        /\ cache' = cache /\ input' = input /\ step' = step
    BY DEF RemoveFile, Handled
  <1>3. todo \subseteq cache[Kind].remove /\ CacheTypeOK(cache[Kind])
    BY <1>1, VisitsFacts DEF VisitsTable, PackerInv, PackerTypeOK
  <1>4. id \in todo
    BY <1>2, <1>3, LeastIsIn, PackerAssumption DEF CacheTypeOK, Ids
  <1> HIDE DEF id
  <1>5. /\ IsFunction(g) /\ DOMAIN g = DOMAIN files[Kind] \ {id}
        /\ \A x \in DOMAIN g : g[x] = files[Kind][x]
    BY DEF IsFunction, Restrict
  <1> HIDE DEF g
  <1>6. /\ DOMAIN files' = Kinds /\ IsFunction(files') /\ files'[Kind] = g
        /\ \A k \in Kinds \ {Kind} : files'[k] = files[k]
    BY <1>1, <1>2 DEF PackerInv, PackerTypeOK, IsFunction
  <1>7. PackerTypeOK'
    <2>1. Visits(Steps[step])' = Visits(Steps[step])
      BY <1>1, <1>2, VisitsFacts DEF VisitsTable
    <2>2. \A k \in Kinds : IsFunction(files'[k]) /\ DOMAIN files'[k] \subseteq Ids
      BY <1>1, <1>5, <1>6 DEF PackerInv, PackerTypeOK
    <2> QED
      BY <1>1, <1>2, <1>6, <2>1, <2>2 DEF PackerInv, PackerTypeOK
  <1>8. ASSUME NEW k \in Kinds PROVE KindInv(k)'
    <2>1. Named(k)' \subseteq Named(k)
      <3>1. \A m \in WholeModels' : m \in WholeModels /\ files'.model[m] = files.model[m]
        BY <1>1, <1>5, <1>6 DEF WholeModels, Kinds
      <3> QED
        BY <3>1 DEF Named
    <2>2. CASE k # Kind
      <3>1. step \notin {scanOf(k), removeOf(k), writeOf(k)}
        BY <1>1, <2>2 DEF Kinds, scanOf, removeOf, writeOf
      <3> QED
        BY <1>2, <1>6, <2>1, <2>2, <3>1, OtherKind, OrderOfSteps DEF PackerInv
    <2>3. CASE k = Kind
      <3>1. step = removeOf(k)
        BY <1>1, <2>3 DEF Kinds, removeOf
      <3>2. Sound(k) /\ Remembered(k) /\ Keeping(k) /\ Named(k) \subseteq old(k)
        BY <3>1, OrderOfSteps DEF PackerInv, KindInv
      <3>3. id \notin old(k)
        BY <1>3, <1>4, <2>3, <3>2 DEF Keeping
      <3>4. /\ known(k)' = known(k) /\ old(k)' = old(k)
            /\ fresh(k)' = fresh(k) /\ paths(k)' = paths(k)
        BY <1>2 DEF known, fresh, paths, old
      <3>5. files'[k] = g
        BY <1>6, <2>3
      <3>6. Sound(k)'
        BY <1>5, <2>1, <2>3, <3>2, <3>3, <3>5 DEF Sound
      <3>7. Remembered(k)'
        BY <1>5, <2>3, <3>2, <3>3, <3>4, <3>5 DEF Remembered
      <3>8. Keeping(k)'
        BY <1>2, <1>5, <2>3, <3>1, <3>2, <3>3, <3>4, <3>5 DEF Keeping, removeOf
      <3> QED
        BY <1>2, <2>1, <3>1, <3>2, <3>4, <3>6, <3>7, <3>8, OrderOfSteps
        DEF KindInv, scanOf, removeOf, writeOf
    <2> QED
      BY <2>2, <2>3
  <1>9. ModelInv'
    BY <1>1, <1>2 DEF PackerInv, ModelInv, NewModel, fresh, known, paths
  <1> QED
    BY <1>7, <1>8, <1>9 DEF PackerInv

LEMMA WriteFileInv == PackerInv /\ WriteFile => PackerInv'
  <1> SUFFICES ASSUME PackerInv, WriteFile PROVE PackerInv'
    OBVIOUS
  <1> DEFINE p == Min(todo)
             id == paths(Kind)[p]
  <1>1. /\ files' = Written(known(Kind)) /\ todo' = todo \ {p}
        /\ cache' = cache /\ input' = input /\ step' = step /\ Running
    BY DEF WriteFile, Handled, Doing, known
  <1>2. /\ Kind \in Kinds /\ step \in {4, 9, 11}
        /\ Kind = "texture" <=> step = 4
        /\ Kind = "resource" <=> step = 9
        /\ Kind = "model" <=> step = 11
        /\ p \in todo /\ p \in DOMAIN paths(Kind)
        /\ id \in DOMAIN known(Kind) /\ id \in Ids
        /\ DOMAIN files' = Kinds /\ IsFunction(files')
        /\ \A k \in Kinds \ {Kind} : files'[k] = files[k]
        /\ IsFunction(files'[Kind])
        /\ DOMAIN files'[Kind] = DOMAIN files[Kind] \cup ({id} \cap fresh(Kind))
        /\ \A x \in DOMAIN files'[Kind] :
              files'[Kind][x] = IF x = id /\ id \in fresh(Kind) THEN known(Kind)[id]
                                                               ELSE files[Kind][x]
    <2> DEFINE F == Written(known(Kind))
    <2>1. Doing("write") /\ todo # {}
      BY DEF WriteFile
    <2>2. /\ Kind \in Kinds /\ step \in {4, 9, 11}
          /\ Kind = "texture" <=> step = 4
          /\ Kind = "resource" <=> step = 9
          /\ Kind = "model" <=> step = 11
          /\ p \in todo /\ p \in DOMAIN paths(Kind)
          /\ id \in DOMAIN known(Kind) /\ id \in Ids
          /\ DOMAIN F = Kinds /\ IsFunction(F)
          /\ \A k \in Kinds \ {Kind} : F[k] = files[k]
          /\ IsFunction(F[Kind])
          /\ DOMAIN F[Kind] = DOMAIN files[Kind] \cup ({id} \cap fresh(Kind))
          /\ \A x \in DOMAIN F[Kind] :
                F[Kind][x] = IF x = id /\ id \in fresh(Kind) THEN known(Kind)[id]
                                                            ELSE files[Kind][x]
      BY <2>1, WrittenFacts
    <2>3. files' = F
      BY <1>1
    <2> HIDE DEF F, id, p
    <2> QED
      BY <2>2, <2>3
  <1> HIDE DEF id, p
  <1>3. PackerTypeOK'
    <2>1. Visits(Steps[step])' = Visits(Steps[step])
      BY <1>1, <1>2, VisitsFacts DEF VisitsTable
    <2>2. \A k \in Kinds : IsFunction(files'[k]) /\ DOMAIN files'[k] \subseteq Ids
      BY <1>2 DEF PackerInv, PackerTypeOK
    <2> QED
      BY <1>1, <1>2, <2>1, <2>2 DEF PackerInv, PackerTypeOK
  <1>4. ASSUME NEW k \in Kinds PROVE KindInv(k)'
    <2>1. /\ known(k)' = known(k) /\ old(k)' = old(k)
          /\ fresh(k)' = fresh(k) /\ paths(k)' = paths(k)
      BY <1>1 DEF known, fresh, paths, old
    <2>2. ASSUME Kind # "model" PROVE Named(k)' = Named(k)
      <3>1. files'.model = files.model
        BY <1>2, <2>2 DEF Kinds
      <3>2. WholeModels' = WholeModels
        BY <3>1 DEF WholeModels
      <3> QED
        BY <3>1, <3>2 DEF Named
    <2>3. CASE k = Kind
      <3>1. step = writeOf(k) /\ Named(k)' = Named(k)
        <4>1. k = "model" => Named(k) = {} /\ Named(k)' = {}
          BY DEF Named
        <4> QED
          BY <1>2, <2>2, <2>3, <4>1 DEF Kinds, writeOf
      <3>2. Sound(k) /\ Remembered(k) /\ Writing(k) /\ Named(k) \subseteq old(k)
        BY <3>1, OrderOfSteps DEF PackerInv, KindInv
      <3>3. \A x \in DOMAIN files'[k] : x \in DOMAIN known(k) /\ known(k)[x] = files'[k][x]
        BY <1>2, <2>3, <3>2 DEF Writing
      <3>4. \A x \in DOMAIN files[k] : x \in DOMAIN files'[k] /\ files'[k][x] = files[k][x]
        BY <1>2, <2>3, <3>2, <3>3 DEF Writing
      <3>5. id \in DOMAIN files'[k]
        BY <1>2, <2>3, <3>2, <3>4 DEF Remembered, old
      <3>6. Sound(k)'
        BY <3>1, <3>2, <3>3, <3>4 DEF Sound, Remembered
      <3>7. Remembered(k)'
        BY <2>1, <3>2, <3>4 DEF Remembered
      <3>8. Writing(k)'
        <4>1. \A q \in DOMAIN paths(k) :
                paths(k)[q] \in DOMAIN files'[k] \/ (step = writeOf(k) /\ q \in todo')
          BY <1>1, <2>3, <3>1, <3>2, <3>4, <3>5 DEF Writing, id
        <4> QED
          BY <1>1, <2>1, <3>3, <4>1 DEF Writing, writeOf
      <3> QED
        BY <1>1, <2>1, <3>1, <3>2, <3>6, <3>7, <3>8, OrderOfSteps
        DEF KindInv, scanOf, removeOf, writeOf
    <2>4. CASE k # Kind /\ Kind # "model"
      <3>1. step \notin {scanOf(k), removeOf(k), writeOf(k)}
        BY <1>2, <2>4 DEF Kinds, scanOf, removeOf, writeOf
      <3> QED
        BY <1>1, <1>2, <2>2, <2>4, <3>1, OtherKind, OrderOfSteps DEF PackerInv
    <2>5. CASE k # Kind /\ Kind = "model"
      <3>1. step = 11 /\ files'[k] = files[k] /\ step # writeOf(k)
        BY <1>2, <2>5, OrderOfSteps DEF Kinds, writeOf
      <3>2. Sound(k) /\ Remembered(k) /\ Writing(k)
        BY <3>1, OrderOfSteps DEF PackerInv, KindInv
      <3>3. \A t \in Named(k)' : t \in Named(k) \/ \E q \in DOMAIN paths(k) : t = paths(k)[q]
        <4>1. ASSUME NEW m \in WholeModels'
              PROVE  \/ m \in WholeModels /\ files'.model[m] = files.model[m]
                     \/ NewModel(files'.model[m])
          <5>1. CASE m = id /\ id \in fresh("model")
            BY <1>2, <2>5, <3>1, <5>1 DEF PackerInv, ModelInv, WholeModels
          <5>2. CASE ~ (m = id /\ id \in fresh("model"))
            BY <1>2, <2>5, <5>2 DEF WholeModels
          <5> QED
            BY <5>1, <5>2
        <4>2. CASE k = "texture"
          BY <4>1, <4>2 DEF Named, NewModel
        <4>3. CASE k = "resource"
          BY <4>1, <4>3 DEF Named, NewModel
        <4> QED
          BY <2>5, <4>2, <4>3 DEF Kinds
      <3>4. Sound(k)'
        <4>1. k \in Parts
          BY <2>5 DEF Parts, Kinds
        <4> QED
          BY <3>1, <3>2, <3>3, <4>1 DEF Sound, Remembered, Writing
      <3>5. Remembered(k)'
        BY <2>1, <3>1, <3>2 DEF Remembered
      <3>6. Writing(k)'
        BY <1>1, <2>1, <3>1, <3>2 DEF Writing, writeOf
      <3> QED
        BY <1>1, <3>1, <3>4, <3>5, <3>6, OrderOfSteps DEF KindInv, scanOf, removeOf, writeOf
    <2> QED
      BY <2>3, <2>4, <2>5
  <1>5. ModelInv'
    BY <1>1, <1>2 DEF PackerInv, ModelInv, NewModel, fresh, known, paths
  <1> QED
    BY <1>3, <1>4, <1>5 DEF PackerInv

-----------------------------------------------------------------------------

LEMMA PackerInvKept == PackerInv /\ [PackerNext]_packerVars => PackerInv'
  <1> SUFFICES ASSUME PackerInv, [PackerNext]_packerVars PROVE PackerInv'
    OBVIOUS
  <1>1. CASE UNCHANGED packerVars
    <2>1. /\ files' = files /\ input' = input /\ step' = step /\ todo' = todo
          /\ cache' = cache
      BY <1>1 DEF packerVars
    <2>2. Visits(Steps[step])' = Visits(Steps[step])
      BY <2>1 DEF Visits, Steps
    <2>3. PackerTypeOK'
      BY <2>1, <2>2 DEF PackerInv, PackerTypeOK, Running, Steps
    <2>4. ASSUME NEW k \in Kinds PROVE KindInv(k)'
      <3>1. Named(k)' = Named(k)
        BY <2>1 DEF Named, WholeModels
      <3> QED
        BY <2>1, <3>1, OtherKind DEF PackerInv
    <2>5. ModelInv'
      BY <2>1 DEF PackerInv, ModelInv, NewModel, fresh, known, paths
    <2> QED
      BY <2>3, <2>4, <2>5 DEF PackerInv
  <1>2. CASE PackerNext
    BY <1>2, StartInv, CrashInv, AdvanceInv, ScanInv, AddTextureInv, AddObjectInv,
        RemoveFileInv, WriteFileInv DEF PackerNext, PackerStep
  <1> QED
    BY <1>1, <1>2

LEMMA PackerInvOpens == PackerInv => ModelsOpen
  <1> SUFFICES ASSUME PackerInv, NEW m \in WholeModels
               PROVE  /\ files.model[m].resource_id # 0 =>
                            Opened("resource", files.model[m].resource_id) \notin {<<>>, Torn}
                      /\ \A i \in 1 .. TextureCount :
                            files.model[m].texture_ids[i] # 0 =>
                                Opened("texture", files.model[m].texture_ids[i])
                                    \notin {<<>>, Torn}
    BY DEF ModelsOpen
  <1>1. \A k \in Kinds : \A t \in Named(k) : Opened(k, t) \notin {<<>>, Torn}
    BY DEF PackerInv, KindInv, Sound, Opened
  <1>2. ASSUME files.model[m].resource_id # 0
        PROVE  files.model[m].resource_id \in Named("resource")
    BY <1>2 DEF Named
  <1>3. ASSUME NEW i \in 1 .. TextureCount, files.model[m].texture_ids[i] # 0
        PROVE  files.model[m].texture_ids[i] \in Named("texture")
    BY <1>3 DEF Named
  <1> QED
    BY <1>1, <1>2, <1>3 DEF Kinds

-----------------------------------------------------------------------------
(* What a model shows.                                                      *)

\* What whole models name is not touched, and no model is replaced.
NamedKept ==
    /\ \A k \in Parts : \A t \in Named(k) :
        t \in DOMAIN files'[k] /\ files'[k][t] = files[k][t]
    /\ \A m \in WholeModels \cap WholeModels' : files'.model[m] = files.model[m]

\* What a step removes or writes is not named.
LEMMA StepKeepsNamed == PackerInv /\ [PackerNext]_packerVars => NamedKept
  <1> SUFFICES ASSUME PackerInv, [PackerNext]_packerVars PROVE NamedKept
    OBVIOUS
  <1>1. ASSUME files' = files PROVE NamedKept
    <2>1. \A k \in Kinds : Sound(k)
      BY DEF PackerInv, KindInv
    <2> QED
      BY <1>1, <2>1 DEF NamedKept, Sound, Parts, Kinds
  <1>2. ASSUME RemoveFile PROVE NamedKept
    <2> DEFINE id == Min(todo)
               g == Restrict(files[Kind], DOMAIN files[Kind] \ {id})
    <2>1. /\ step \in {3, 8, 10} /\ Running
          /\ Kind \in Kinds
          /\ step = removeOf(Kind)
      BY <1>2, StepsFacts DEF RemoveFile, Doing, Running, Kind, Kinds, removeOf
    <2>2. files' = [files EXCEPT ![Kind] = g] /\ todo # {}
      BY <1>2 DEF RemoveFile
    <2>3. todo \subseteq cache[Kind].remove /\ CacheTypeOK(cache[Kind])
      BY <2>1, OrderOfSteps DEF PackerInv, PackerTypeOK
    <2>4. id \in todo
      BY <2>2, <2>3, LeastIsIn, PackerAssumption DEF CacheTypeOK, Ids
    <2> HIDE DEF id
    <2>5. DOMAIN g = DOMAIN files[Kind] \ {id} /\ \A x \in DOMAIN g : g[x] = files[Kind][x]
      BY DEF Restrict
    <2> HIDE DEF g
    <2>6. files'[Kind] = g /\ \A k \in Kinds \ {Kind} : files'[k] = files[k]
      BY <2>1, <2>2 DEF PackerInv, PackerTypeOK
    <2>7. Keeping(Kind) /\ Named(Kind) \subseteq old(Kind)
      BY <2>1, OrderOfSteps DEF PackerInv, KindInv
    <2>8. \A k \in Kinds : Sound(k)
      BY DEF PackerInv, KindInv
    <2>9. \A k \in Parts : \A t \in Named(k) :
            t \in DOMAIN files'[k] /\ files'[k][t] = files[k][t]
      BY <2>3, <2>4, <2>5, <2>6, <2>7, <2>8 DEF Keeping, Sound, Parts, Kinds
    <2>10. \A m \in WholeModels \cap WholeModels' : files'.model[m] = files.model[m]
      BY <2>5, <2>6 DEF WholeModels, Kinds
    <2> QED
      BY <2>9, <2>10 DEF NamedKept
  <1>3. ASSUME NEW content, Doing("write"), todo # {}, files' = Written(content),
               \A a \in Ids : content[a] # Torn /\ a \in DOMAIN known(Kind)
                                => content[a] = known(Kind)[a]
        PROVE  NamedKept
    <2> DEFINE id == paths(Kind)[Min(todo)]
               F == Written(content)
    <2>1. /\ Kind \in Kinds
          /\ Kind = "texture" <=> step = 4
          /\ Kind = "resource" <=> step = 9
          /\ Kind = "model" <=> step = 11
          /\ id \in DOMAIN known(Kind) /\ id \in Ids
          /\ \A k \in Kinds \ {Kind} : F[k] = files[k]
          /\ DOMAIN F[Kind] = DOMAIN files[Kind] \cup ({id} \cap fresh(Kind))
          /\ \A x \in DOMAIN F[Kind] :
                F[Kind][x] = IF x = id /\ id \in fresh(Kind) THEN content[id]
                                                            ELSE files[Kind][x]
      BY <1>3, WrittenFacts
    <2>2. files' = F
      BY <1>3
    <2> HIDE DEF id, F
    <2>3. step = writeOf(Kind)
      BY <2>1 DEF Kinds, writeOf
    <2>4. Sound(Kind) /\ Writing(Kind) /\ Named(Kind) \subseteq old(Kind)
      BY <2>1, <2>3, OrderOfSteps DEF PackerInv, KindInv
    <2>5. \A k \in Kinds : Sound(k)
      BY DEF PackerInv, KindInv
    <2>6. \A k \in Parts : \A t \in Named(k) :
            t \in DOMAIN files'[k] /\ files'[k][t] = files[k][t]
      BY <2>1, <2>2, <2>4, <2>5 DEF Sound, old, Parts, Kinds
    <2>7. \A m \in WholeModels \cap WholeModels' : files'.model[m] = files.model[m]
      <3>1. CASE Kind = "model"
        BY <1>3, <2>1, <2>2, <2>4, <3>1 DEF WholeModels, Writing
      <3>2. CASE Kind # "model"
        BY <2>1, <2>2, <3>2 DEF Kinds
      <3> QED
        BY <3>1, <3>2
    <2> QED
      BY <2>6, <2>7 DEF NamedKept
  <1>4. ASSUME WriteFile PROVE NamedKept
    BY <1>3, <1>4 DEF WriteFile, known
  <1>5. ASSUME Crash, files' # files PROVE NamedKept
    <2>1. Doing("write") /\ todo # {} /\ files' = Written([id \in Ids |-> Torn])
      BY <1>5 DEF Crash
    <2> QED
      BY <1>3, <2>1
  <1> QED
    BY <1>1, <1>2, <1>4, <1>5
    DEF PackerNext, PackerStep, packerVars, Start, Advance, Scan, AddTexture, AddObject

\* No resource was given the id 0, as happens when 65535 was given in the same run.
IdsLast == 0 \notin cache.resource.fresh

\* The resource 0 that a model may have stays the empty one.
ZeroIsEmpty == WholeModels # {} => 0 \notin DOMAIN files.resource

LEMMA ZeroIsEmptyKept ==
    PackerInv /\ IdsLast /\ ZeroIsEmpty /\ [PackerNext]_packerVars => ZeroIsEmpty'
  <1> SUFFICES ASSUME PackerInv, IdsLast, ZeroIsEmpty, [PackerNext]_packerVars
               PROVE  ZeroIsEmpty'
    OBVIOUS
  <1>1. ASSUME WholeModels' \subseteq WholeModels,
               DOMAIN files'.resource \subseteq DOMAIN files.resource \cup fresh("resource")
        PROVE  ZeroIsEmpty'
    BY <1>1 DEF ZeroIsEmpty, IdsLast, fresh
  <1>2. ASSUME files' = files PROVE ZeroIsEmpty'
    BY <1>1, <1>2 DEF WholeModels
  <1>3. ASSUME RemoveFile PROVE ZeroIsEmpty'
    <2> DEFINE g == Restrict(files[Kind], DOMAIN files[Kind] \ {Min(todo)})
    <2>1. Kind \in Kinds /\ files' = [files EXCEPT ![Kind] = g]
      BY <1>3, StepsFacts DEF RemoveFile, Doing, Running, Kind, Kinds
    <2>2. DOMAIN g \subseteq DOMAIN files[Kind] /\ \A x \in DOMAIN g : g[x] = files[Kind][x]
      BY DEF Restrict
    <2> HIDE DEF g
    <2>3. files'[Kind] = g /\ \A k \in Kinds \ {Kind} : files'[k] = files[k]
      BY <2>1 DEF PackerInv, PackerTypeOK
    <2>4. WholeModels' \subseteq WholeModels
      BY <2>1, <2>2, <2>3 DEF WholeModels, Kinds
    <2> QED
      BY <1>1, <2>1, <2>2, <2>3, <2>4 DEF Kinds
  <1>4. ASSUME NEW content, Doing("write"), todo # {}, files' = Written(content)
        PROVE  ZeroIsEmpty'
    <2> DEFINE id == paths(Kind)[Min(todo)]
               F == Written(content)
    <2>1. /\ Kind \in Kinds
          /\ Kind = "model" <=> step = 11
          /\ \A k \in Kinds \ {Kind} : F[k] = files[k]
          /\ DOMAIN F[Kind] = DOMAIN files[Kind] \cup ({id} \cap fresh(Kind))
      BY <1>4, WrittenFacts
    <2>2. files' = F
      BY <1>4
    <2> HIDE DEF id, F
    <2>3. CASE Kind = "model"
      <3>1. Writing("resource") /\ Remembered("resource")
        BY <2>1, <2>3 DEF PackerInv, KindInv, Kinds, writeOf, scanOf
      <3>2. files'.resource = files.resource
        BY <2>1, <2>2, <2>3 DEF Kinds
      <3> QED
        BY <3>1, <3>2 DEF Writing, Remembered, old, IdsLast, ZeroIsEmpty, fresh
    <2>4. CASE Kind # "model"
      <3>1. WholeModels' = WholeModels
        BY <2>1, <2>2, <2>4 DEF WholeModels, Kinds
      <3>2. DOMAIN files'.resource \subseteq DOMAIN files.resource \cup fresh("resource")
        BY <2>1, <2>2, <2>4 DEF Kinds
      <3> QED
        BY <1>1, <3>1, <3>2
    <2> QED
      BY <2>3, <2>4
  <1>5. ASSUME WriteFile PROVE ZeroIsEmpty'
    BY <1>4, <1>5 DEF WriteFile
  <1>6. ASSUME Crash, files' # files PROVE ZeroIsEmpty'
    <2>1. Doing("write") /\ todo # {} /\ files' = Written([id \in Ids |-> Torn])
      BY <1>6 DEF Crash
    <2> QED
      BY <1>4, <2>1
  <1> QED
    BY <1>2, <1>3, <1>5, <1>6
    DEF PackerNext, PackerStep, packerVars, Start, Advance, Scan, AddTexture, AddObject

LEMMA ShownKept ==
    ASSUME PackerInv, ZeroIsEmpty, ZeroIsEmpty', NamedKept,
           NEW m \in WholeModels \cap WholeModels'
    PROVE  /\ files'.model[m] = files.model[m]
           /\ Shown(files.model[m])' = Shown(files.model[m])
  <1> DEFINE model == files.model[m]
             OpenedNext(k, id) == IF id \in DOMAIN files'[k] THEN files'[k][id] ELSE <<>>
  <1>1. files'.model[m] = model
    BY DEF NamedKept
  <1>2. ASSUME NEW k \in Parts, NEW t \in Named(k)
        PROVE  OpenedNext(k, t) = Opened(k, t)
    <2>1. t \in DOMAIN files[k]
      BY <1>2 DEF PackerInv, KindInv, Sound, Parts, Kinds
    <2> QED
      BY <1>2, <2>1 DEF Opened, NamedKept
  <1>3. OpenedNext("resource", model.resource_id) = Opened("resource", model.resource_id)
    <2>1. CASE model.resource_id = 0
      BY <2>1 DEF ZeroIsEmpty, Opened
    <2>2. CASE model.resource_id # 0
      <3>1. model.resource_id \in Named("resource")
        BY <2>2 DEF Named
      <3> QED
        BY <1>2, <3>1 DEF Parts
    <2> QED
      BY <2>1, <2>2
  <1>4. ASSUME NEW i \in 1 .. TextureCount, model.texture_ids[i] # 0
        PROVE  OpenedNext("texture", model.texture_ids[i])
                    = Opened("texture", model.texture_ids[i])
    <2>1. model.texture_ids[i] \in Named("texture")
      BY <1>4 DEF Named
    <2> QED
      BY <1>2, <2>1 DEF Parts
  <1>5. Shown(files.model[m])' =
            [resource |-> OpenedNext("resource", model.resource_id),
             textures |-> [i \in 1 .. TextureCount |->
                                IF model.texture_ids[i] = 0 THEN <<>>
                                ELSE OpenedNext("texture", model.texture_ids[i])]]
    BY <1>1 DEF Shown, Opened
  <1> HIDE DEF OpenedNext
  <1> QED
    BY <1>1, <1>3, <1>4, <1>5 DEF Shown

LEMMA NoModelAtFirst == PackerInit => ZeroIsEmpty
  BY FirstFilesAssumption DEF PackerInit, ZeroIsEmpty, WholeModels

-----------------------------------------------------------------------------
(* What a run that ends has packed.                                         *)

\* A path of the input leads to its content.
TexturesAdded ==
    \A p \in DOMAIN input.texture :
        \/ step = 2 /\ p \in todo
        \/ /\ p \in DOMAIN paths("texture")
           /\ known("texture")[paths("texture")[p]] = input.texture[p]

ObjectAdded(p) ==
    LET object == input.object[p]
        id == paths("resource")[p]
    IN  /\ p \in DOMAIN paths("resource") /\ p \in DOMAIN paths("model")
        /\ Readable(object)
        /\ known("resource")[id] = ResourceOf(object)
        /\ known("model")[paths("model")[p]]
                \in {ModelOf(object, 0), ModelOf(object, id)}

ObjectsAdded ==
    \A p \in DOMAIN input.object : (step = 7 /\ p \in todo) \/ ObjectAdded(p)

PackedInv ==
    /\ step \in 2 .. 12 => TexturesAdded
    /\ step \in 7 .. 12 => ObjectsAdded
    /\ step = 12 => \A k \in Kinds : Remembered(k) /\ Writing(k)

LEMMA ModelOfStays ==
    ASSUME cache'["texture"] = cache["texture"]
    PROVE  \A o, id : ModelOf(o, id)' = ModelOf(o, id)
  BY DEF ModelOf, TextureId

LEMMA ObjectStays ==
    ASSUME cache' = cache, input' = input, NEW p, ObjectAdded(p)
    PROVE  ObjectAdded(p)'
  <1>1. \A o, id : ModelOf(o, id)' = ModelOf(o, id)
    BY ModelOfStays
  <1> QED
    BY <1>1 DEF ObjectAdded, known, paths

\* Once the paths of both kinds stay, so does what they lead to.
LEMMA AddedStays ==
    ASSUME PackedInv, step \in 1 .. 11, step' = step, input' = input,
           step \notin {2, 7}, step # 1 => cache'["texture"] = cache["texture"],
           step \in 8 .. 11 => cache' = cache
    PROVE  PackedInv'
  <1>1. ASSUME step \in 2 .. 11 PROVE TexturesAdded'
    BY <1>1 DEF PackedInv, TexturesAdded, known, paths
  <1>2. ASSUME step \in 7 .. 11 PROVE ObjectsAdded'
    <2>1. cache' = cache
      BY <1>2
    <2>2. ASSUME NEW p \in DOMAIN input.object PROVE ObjectAdded(p)'
      BY <1>2, <2>1, <2>2, ObjectStays DEF PackedInv, ObjectsAdded
    <2> QED
      BY <2>2 DEF ObjectsAdded
  <1> QED
    BY <1>1, <1>2 DEF PackedInv

LEMMA AdvancePacked == PackerInv /\ PackedInv /\ Advance => PackedInv'
  <1> SUFFICES ASSUME PackerInv, PackedInv, Advance PROVE PackedInv'
    OBVIOUS
  <1>1. /\ step \in 1 .. 11 /\ todo = {} /\ step' = step + 1
        /\ todo' = IF step = 11 THEN {} ELSE Visits(Steps[step + 1])
        /\ files' = files /\ input' = input /\ cache' = cache
    BY StepsFacts DEF Advance, Running
  <1>2. step = 1 => todo' = DOMAIN input.texture
    BY <1>1, VisitsFacts DEF VisitsTable
  <1>3. step = 6 => todo' = DOMAIN input.object
    BY <1>1, VisitsFacts DEF VisitsTable
  <1>4. TexturesAdded'
    BY <1>1, <1>2 DEF PackedInv, TexturesAdded, known, paths
  <1>5. ASSUME step \in 6 .. 11 PROVE ObjectsAdded'
    <2>1. CASE step = 6
      BY <1>1, <1>3, <2>1 DEF ObjectsAdded
    <2>2. CASE step # 6
      <3>1. ASSUME NEW p \in DOMAIN input.object PROVE ObjectAdded(p)'
        BY <1>1, <1>5, <2>2, <3>1, ObjectStays DEF PackedInv, ObjectsAdded
      <3> QED
        BY <1>1, <3>1 DEF ObjectsAdded
    <2> QED
      BY <2>1, <2>2
  <1>6. ASSUME step = 11, NEW k \in Kinds PROVE Remembered(k)' /\ Writing(k)'
    <2>1. Remembered(k) /\ Writing(k)
      BY <1>6, OrderOfSteps DEF PackerInv, KindInv
    <2>2. known(k)' = known(k) /\ old(k)' = old(k) /\ paths(k)' = paths(k)
      BY <1>1 DEF known, fresh, paths, old
    <2> QED
      BY <1>1, <2>1, <2>2 DEF Remembered, Writing
  <1> QED
    BY <1>1, <1>4, <1>5, <1>6 DEF PackedInv

LEMMA AddTexturePacked == PackerInv /\ PackedInv /\ AddTexture => PackedInv'
  <1> SUFFICES ASSUME PackerInv, PackedInv, AddTexture PROVE PackedInv'
    OBVIOUS
  <1>1. step = 2
    BY StepsFacts DEF AddTexture, Doing, Running, Kind
  <1>2. PICK path \in todo :
            LET picture == input.texture[path]
            IN  \/ /\ CanAdd(cache.texture, picture)
                   /\ cache' = [cache EXCEPT !.texture = AddNew(@, path, picture)]
                   /\ Handled(path)
                \/ Dies
    BY DEF AddTexture
  <1>3. CASE Dies
    BY <1>3 DEF Dies, PackedInv
  <1> DEFINE picture == input.texture[path]
             c == cache["texture"]
             d == AddNew(c, path, picture)
  <1>4. CASE /\ CanAdd(cache.texture, picture)
             /\ cache' = [cache EXCEPT !.texture = AddNew(@, path, picture)]
             /\ Handled(path)
    <2>1. input' = input /\ step' = step /\ todo' = todo \ {path}
      BY <1>4 DEF Handled
    <2>2. path \in Nat
      BY <1>1, VisitsFacts, InputsAssumption, StepsFacts
      DEF VisitsTable, PackerInv, PackerTypeOK, Running
    <2>3. CacheTypeOK(c)
      BY DEF PackerInv, PackerTypeOK, Kinds
    <2>4. /\ DOMAIN d.paths = DOMAIN c.paths \cup {path}
          /\ \A p \in DOMAIN c.paths \ {path} : d.paths[p] = c.paths[p]
          /\ d.known[d.paths[path]] = picture
          /\ \A a \in DOMAIN c.known : d.known[a] = c.known[a]
      BY <1>4, <2>2, <2>3, AddNewFacts
    <2>5. cache'["texture"] = d
      BY <1>4 DEF PackerInv, PackerTypeOK, Kinds
    <2>6. \A p \in DOMAIN c.paths : c.paths[p] \in DOMAIN c.known
      BY <2>3 DEF CacheTypeOK
    <2> HIDE DEF d
    <2>7. TexturesAdded'
      BY <1>1, <2>1, <2>4, <2>5, <2>6 DEF PackedInv, TexturesAdded, known, paths
    <2> QED
      BY <1>1, <2>1, <2>7 DEF PackedInv
  <1> QED
    BY <1>2, <1>3, <1>4

\* The object's path leads to its resource and to a model that names it, or names
\* none because the resource was known before.
LEMMA AddObjectPacked == PackerInv /\ PackedInv /\ AddObject => PackedInv'
  <1> SUFFICES ASSUME PackerInv, PackedInv, AddObject PROVE PackedInv'
    OBVIOUS
  <1>1. step = 7
    BY StepsFacts DEF AddObject, Doing, Running, Kind
  <1>2. PICK path \in todo :
            LET object == input.object[path]
                resource == ResourceOf(object)
                model == ModelOf(object, ResourceIdGiven(resource))
            IN  \/ /\ Packable(object)
                   /\ cache' = [cache EXCEPT !.resource = AddNew(@, path, resource),
                                             !.model = AddNew(@, path, model)]
                   /\ Handled(path)
                \/ Dies
    BY DEF AddObject
  <1>3. CASE Dies
    BY <1>3 DEF Dies, PackedInv
  <1> DEFINE object == input.object[path]
             resource == ResourceOf(object)
             model == ModelOf(object, ResourceIdGiven(resource))
             cr == cache["resource"]
             cm == cache["model"]
             r == AddNew(cr, path, resource)
             m == AddNew(cm, path, model)
  <1>4. CASE /\ Packable(object)
             /\ cache' = [cache EXCEPT !.resource = AddNew(@, path, resource),
                                       !.model = AddNew(@, path, model)]
             /\ Handled(path)
    <2>1. input' = input /\ step' = step /\ todo' = todo \ {path}
      BY <1>4 DEF Handled
    <2>2. path \in DOMAIN input.object /\ path \in Nat
      BY <1>1, VisitsFacts, InputsAssumption, StepsFacts
      DEF VisitsTable, PackerInv, PackerTypeOK, Running
    <2>3. Readable(object) /\ CanAdd(cr, resource) /\ CanAdd(cm, model)
      BY <1>4 DEF Packable
    <2>4. CacheTypeOK(cr) /\ CacheTypeOK(cm)
      BY DEF PackerInv, PackerTypeOK, Kinds
    <2>5. /\ cache'["resource"] = r /\ cache'["model"] = m
          /\ cache'["texture"] = cache["texture"]
      BY <1>4 DEF PackerInv, PackerTypeOK, Kinds
    <2>6. model \in {ModelOf(object, 0), ModelOf(object, GivenId(cr))}
          /\ (resource \in Range(cr.known) => model = ModelOf(object, 0))
      BY DEF ResourceIdGiven
    <2> HIDE DEF model, resource, object
    <2>7. /\ DOMAIN r.paths = DOMAIN cr.paths \cup {path}
          /\ \A p \in DOMAIN cr.paths \ {path} : r.paths[p] = cr.paths[p]
          /\ r.known[r.paths[path]] = resource
          /\ \A a \in DOMAIN cr.known : r.known[a] = cr.known[a]
          /\ resource \in Range(cr.known) \/ r.paths[path] = GivenId(cr)
      <3>1. /\ DOMAIN r.paths = DOMAIN cr.paths \cup {path}
            /\ \A p \in DOMAIN cr.paths \ {path} : r.paths[p] = cr.paths[p]
            /\ r.known[r.paths[path]] = resource
            /\ \A a \in DOMAIN cr.known : r.known[a] = cr.known[a]
        BY <2>2, <2>3, <2>4, AddNewFacts
      <3>2. resource \in Range(cr.known) \/ r.paths[path] = GivenId(cr)
        BY <2>2, <2>3, <2>4, AddNewFacts
      <3> QED
        BY <3>1, <3>2
    <2>8. /\ DOMAIN m.paths = DOMAIN cm.paths \cup {path}
          /\ \A p \in DOMAIN cm.paths \ {path} : m.paths[p] = cm.paths[p]
          /\ m.known[m.paths[path]] = model
          /\ \A a \in DOMAIN cm.known : m.known[a] = cm.known[a]
      BY <2>2, <2>3, <2>4, AddNewFacts
    <2> HIDE DEF r, m
    <2>9. /\ \A p \in DOMAIN cr.paths : cr.paths[p] \in DOMAIN cr.known
          /\ \A p \in DOMAIN cm.paths : cm.paths[p] \in DOMAIN cm.known
      BY <2>4 DEF CacheTypeOK
    <2>10. \A o, id : ModelOf(o, id)' = ModelOf(o, id)
      BY <2>5, ModelOfStays
    <2>11. model \in {ModelOf(object, 0), ModelOf(object, r.paths[path])}
      BY <2>6, <2>7
    <2>12. ObjectAdded(path)'
      <3>1. input'.object[path] = object /\ resource = ResourceOf(object)
        BY <2>1 DEF object, resource
      <3> QED
        BY <2>1, <2>3, <2>5, <2>7, <2>8, <2>10, <2>11, <3>1
        DEF ObjectAdded, known, paths
    <2>13. ASSUME NEW p \in DOMAIN input.object, p # path, ObjectAdded(p)
           PROVE  ObjectAdded(p)'
      BY <2>1, <2>5, <2>7, <2>8, <2>9, <2>10, <2>13 DEF ObjectAdded, known, paths
    <2>14. ObjectsAdded'
      BY <1>1, <2>1, <2>12, <2>13 DEF PackedInv, ObjectsAdded
    <2>15. TexturesAdded'
      BY <1>1, <2>1, <2>5 DEF PackedInv, TexturesAdded, known, paths
    <2> QED
      BY <1>1, <2>1, <2>14, <2>15 DEF PackedInv
  <1> QED
    BY <1>2, <1>3, <1>4

LEMMA PackedKept == PackerInv /\ PackedInv /\ [PackerNext]_packerVars => PackedInv'
  <1> SUFFICES ASSUME PackerInv, PackedInv, [PackerNext]_packerVars PROVE PackedInv'
    OBVIOUS
  <1>1. CASE UNCHANGED packerVars
    <2>1. /\ files' = files /\ input' = input /\ step' = step /\ todo' = todo
          /\ cache' = cache
      BY <1>1 DEF packerVars
    <2>2. TexturesAdded => TexturesAdded'
      BY <2>1 DEF TexturesAdded, known, paths
    <2>3. \A p : ObjectAdded(p) => ObjectAdded(p)'
      BY <2>1, ObjectStays
    <2>4. \A k \in Kinds : Remembered(k) /\ Writing(k) => Remembered(k)' /\ Writing(k)'
      BY <2>1 DEF Remembered, Writing, known, fresh, paths, old, writeOf
    <2> QED
      BY <2>1, <2>2, <2>3, <2>4 DEF PackedInv, ObjectsAdded
  <1>2. CASE Start
    BY <1>2 DEF Start, PackedInv
  <1>3. CASE Crash
    BY <1>3 DEF Crash, Dies, PackedInv
  <1>4. CASE Scan
    <2>1. step \in {1, 5, 6} /\ (Kind = "texture" <=> step = 1) /\ Kind \in Kinds
      BY <1>4, StepsFacts DEF Scan, Doing, Running, Kind, Kinds
    <2>2. /\ step' = step /\ input' = input
          /\ \E c : cache' = [cache EXCEPT ![Kind] = c]
      BY <1>4 DEF Scan, Handled
    <2>3. step # 1 => cache'["texture"] = cache["texture"]
      BY <2>1, <2>2 DEF PackerInv, PackerTypeOK, IsFunction, Kinds
    <2> QED
      BY <2>1, <2>2, <2>3, AddedStays
  <1>5. CASE RemoveFile \/ WriteFile
    <2>1. step \in {3, 8, 10, 4, 9, 11}
      BY <1>5, StepsFacts DEF RemoveFile, WriteFile, Doing, Running
    <2>2. step' = step /\ input' = input /\ cache' = cache
      BY <1>5 DEF RemoveFile, WriteFile, Handled
    <2> QED
      BY <2>1, <2>2, AddedStays
  <1> QED
    BY <1>1, <1>2, <1>3, <1>4, <1>5, AdvancePacked, AddTexturePacked, AddObjectPacked
    DEF PackerNext, PackerStep

\* Where the textures of a material are: its place is found (relative_texture_id).
LEMMA RelativeFacts ==
    ASSUME NEW object, object.uses \in Seq(Int), Readable(object),
           NEW m \in Range(object.uses)
    PROVE  /\ Relative(object, m) + 1 \in 1 .. TextureCount
           /\ Relative(object, m) + 1 \in DOMAIN object.uses
           /\ object.uses[Relative(object, m) + 1] = m
  <1> DEFINE i == CHOOSE i \in DOMAIN object.uses : object.uses[i] = m
  <1>1. i \in DOMAIN object.uses /\ object.uses[i] = m
    BY DEF Range
  <1>2. Relative(object, m) = i - 1
    BY DEF Relative
  <1> HIDE DEF i
  <1>3. DOMAIN object.uses = 1 .. Len(object.uses) /\ Len(object.uses) \in Nat
    OBVIOUS
  <1>4. Len(object.uses) <= TextureCount
    BY DEF Readable
  <1>5. i \in 1 .. TextureCount
    BY <1>1, <1>3, <1>4, FormatAssumption
  <1>6. Relative(object, m) + 1 = i
    BY <1>2, <1>5
  <1> QED
    BY <1>1, <1>5, <1>6

LEMMA PackedInvPacks == PackerInv /\ PackedInv => EverythingPacked
  <1> SUFFICES ASSUME PackerInv, PackedInv, Done
               PROVE  TexturesPacked /\ ModelsPacked /\ NoDuplicates
    BY DEF EverythingPacked
  <1>1. step = 12 /\ TexturesAdded /\ ObjectsAdded
    BY StepsFacts DEF Done, PackedInv
  <1>2. ASSUME NEW k \in Kinds
        PROVE  /\ \A id \in DOMAIN files[k] :
                    id \in DOMAIN known(k) /\ known(k)[id] = files[k][id]
               /\ \A p \in DOMAIN paths(k) :
                    /\ paths(k)[p] \in DOMAIN files[k]
                    /\ Opened(k, paths(k)[p]) = known(k)[paths(k)[p]]
               /\ \A a, b \in DOMAIN known(k) : known(k)[a] = known(k)[b] => a = b
    BY <1>1, OrderOfSteps DEF PackedInv, Remembered, Writing, Opened
  <1>3. NoDuplicates
    BY <1>2 DEF NoDuplicates
  <1>4. ASSUME NEW path \in DOMAIN input.texture
        PROVE  Opened("texture", TextureId(path)) = input.texture[path]
    BY <1>1, <1>2 DEF TexturesAdded, TextureId, paths, Kinds
  <1>5. TexturesPacked
    BY <1>4 DEF TexturesPacked
  <1>6. ASSUME NEW path \in DOMAIN input.object
        PROVE  LET object == input.object[path]
                   model == Opened("model", cache.model.paths[path])
               IN  /\ \A m \in Range(object.uses) :
                        LET texture == model.texture_ids[Relative(object, m) + 1]
                        IN  object.names[m] \in DOMAIN input.texture =>
                                Opened("texture", texture) = input.texture[object.names[m]]
                   /\ ResourceOf(object) \in Range(files.resource)
                   /\ model.resource_id # 0 =>
                            Opened("resource", model.resource_id) = ResourceOf(object)
    <2> DEFINE object == input.object[path]
               model == Opened("model", cache.model.paths[path])
               id == paths("resource")[path]
    <2>1. ObjectAdded(path)
      BY <1>1 DEF ObjectsAdded
    <2>2. model \in {ModelOf(object, 0), ModelOf(object, id)}
      BY <1>2, <2>1 DEF ObjectAdded, paths, Kinds
    <2>3. /\ id \in DOMAIN files["resource"]
          /\ Opened("resource", id) = ResourceOf(object)
      BY <1>2, <2>1 DEF ObjectAdded, Kinds
    <2>4. model.resource_id \in {0, id}
      BY <2>2 DEF ModelOf
    <2>5. ResourceOf(object) \in Range(files.resource)
      BY <2>3 DEF Range, Opened
    <2>6. ASSUME NEW m \in Range(object.uses), object.names[m] \in DOMAIN input.texture
          PROVE  Opened("texture", model.texture_ids[Relative(object, m) + 1])
                    = input.texture[object.names[m]]
      <3>1. Readable(object) /\ object.uses \in Seq(Int)
        BY <2>1, InputsAssumption DEF ObjectAdded, PackerInv, PackerTypeOK, Range
      <3>2. /\ Relative(object, m) + 1 \in 1 .. TextureCount
            /\ Relative(object, m) + 1 \in DOMAIN object.uses
            /\ object.uses[Relative(object, m) + 1] = m
        BY <2>6, <3>1, RelativeFacts
      <3>3. model.texture_ids = ModelOf(object, 0).texture_ids
        <4>1. ModelOf(object, id).texture_ids = ModelOf(object, 0).texture_ids
          BY DEF ModelOf
        <4> HIDE DEF model, object, id
        <4> QED
          BY <2>2, <4>1
      <3>4. ModelOf(object, 0).texture_ids[Relative(object, m) + 1]
                = TextureId(object.names[m])
        BY <3>2 DEF ModelOf
      <3> QED
        BY <1>4, <2>6, <3>3, <3>4
    <2> QED
      BY <2>3, <2>4, <2>5, <2>6
  <1>7. ModelsPacked
    BY <1>6 DEF ModelsPacked
  <1> QED
    BY <1>3, <1>5, <1>7

-----------------------------------------------------------------------------
(* Bytes: parts that are put behind each other, and where each of them is.  *)

\* Chain(f, n, first, next): f begins with first and goes on with what next[i]
\* makes of the value before.
Chain(f, n, first, next) ==
    f[0] = first /\ \A i \in 1 .. n : f[i] = next[i][f[i - 1]]

LEMMA ChainExists ==
    ASSUME NEW n \in Nat, NEW V, NEW first \in V, NEW next \in [1 .. n -> [V -> V]]
    PROVE  \E f \in [0 .. n -> V] : Chain(f, n, first, next)
  <1> DEFINE Upto(k) == \E f \in [0 .. n -> V] :
                f[0] = first /\ \A i \in 1 .. n : i <= k => f[i] = next[i][f[i - 1]]
  <1>1. Upto(0)
    <2> DEFINE f == [i \in 0 .. n |-> first]
    <2>1. f \in [0 .. n -> V] /\ f[0] = first
      OBVIOUS
    <2>2. \A i \in 1 .. n : ~ (i <= 0)
      OBVIOUS
    <2> HIDE DEF f
    <2> QED
      BY <2>1, <2>2
  <1>2. ASSUME NEW k \in Nat, Upto(k) PROVE Upto(k + 1)
    <2>1. PICK f \in [0 .. n -> V] :
            f[0] = first /\ \A i \in 1 .. n : i <= k => f[i] = next[i][f[i - 1]]
      BY <1>2
    <2> DEFINE g == [i \in 0 .. n |-> IF i = k + 1 THEN next[i][f[i - 1]] ELSE f[i]]
    <2>2. \A i \in 1 .. n : i - 1 \in 0 .. n /\ next[i][f[i - 1]] \in V
      OBVIOUS
    <2>3. g \in [0 .. n -> V]
      BY <2>2
    <2>4. g[0] = first
      BY <2>1
    <2>5. ASSUME NEW i \in 1 .. n, i <= k + 1 PROVE g[i] = next[i][g[i - 1]]
      <3>1. i - 1 \in 0 .. n /\ i - 1 # k + 1 /\ i \in 0 .. n
        BY <2>5
      <3>2. g[i - 1] = f[i - 1]
        BY <3>1
      <3>3. i # k + 1 => i <= k
        BY <2>5
      <3> QED
        BY <2>1, <3>1, <3>2, <3>3
    <2> QED
      BY <2>3, <2>4, <2>5
  <1> HIDE DEF Upto
  <1>3. Upto(n)
    <2> SUFFICES ASSUME ~ Upto(n) PROVE FALSE
      OBVIOUS
    <2>1. PICK k \in {j \in Nat : ~ Upto(j)} : \A j \in {i \in Nat : ~ Upto(i)} : k <= j
      <3>1. {j \in Nat : ~ Upto(j)} \in SUBSET Nat /\ {j \in Nat : ~ Upto(j)} # {}
        OBVIOUS
      <3> QED
        BY <3>1, LeastNumber
    <2>2. k # 0 /\ k - 1 \in Nat
      BY <1>1, <2>1
    <2>3. Upto(k - 1)
      BY <2>1, <2>2
    <2>4. Upto((k - 1) + 1)
      BY <1>2, <2>2, <2>3
    <2> QED
      BY <2>1, <2>2, <2>4
  <1> QED
    BY <1>3 DEF Upto, Chain

\* What holds at first and is kept by each step holds to the end.
LEMMA ChainOf ==
    ASSUME NEW n \in Nat, NEW Good \in SUBSET (0 .. n), 0 \in Good,
           \A i \in 1 .. n : i - 1 \in Good => i \in Good
    PROVE  Good = 0 .. n
  <1> SUFFICES ASSUME NEW b \in 0 .. n, b \notin Good PROVE FALSE
    OBVIOUS
  <1> DEFINE Bad == (0 .. n) \ Good
  <1>1. Bad \in SUBSET Nat /\ Bad # {}
    OBVIOUS
  <1>2. PICK i \in Bad : \A j \in Bad : i <= j
    BY <1>1, LeastNumber
  <1>3. i \in 1 .. n /\ i - 1 \in 0 .. n /\ ~ (i <= i - 1)
    BY <1>2
  <1> QED
    BY <1>2, <1>3

\* Where parts are that are put behind each other: off[i] is where the first i end.
Offsets(s, n, off) ==
    /\ off \in [0 .. n -> Nat] /\ off[0] = 0
    /\ \A i \in 1 .. n : off[i] = off[i - 1] + Len(s[i])

LEMMA OffsetsExist ==
    ASSUME NEW P, NEW n \in Nat, NEW s \in [1 .. n -> Seq(P)]
    PROVE  \E off : Offsets(s, n, off)
  <1> DEFINE next == [i \in 1 .. n |-> [l \in Nat |-> l + Len(s[i])]]
  <1>1. \A i \in 1 .. n : Len(s[i]) \in Nat
    BY LenProperties
  <1>2. next \in [1 .. n -> [Nat -> Nat]]
    BY <1>1
  <1>3. \A i \in 1 .. n, l \in Nat : next[i][l] = l + Len(s[i])
    OBVIOUS
  <1> HIDE DEF next
  <1>4. PICK off \in [0 .. n -> Nat] : Chain(off, n, 0, next)
    BY <1>2, ChainExists
  <1>5. \A i \in 1 .. n : off[i] = next[i][off[i - 1]] /\ off[i - 1] \in Nat
    BY <1>4 DEF Chain
  <1>6. off[0] = 0
    BY <1>4 DEF Chain
  <1>7. \A i \in 1 .. n : off[i] = off[i - 1] + Len(s[i])
    BY <1>3, <1>5
  <1>8. off \in [0 .. n -> Nat]
    BY <1>4
  <1> QED
    BY <1>6, <1>7, <1>8 DEF Offsets

\* All but the first n parts end after these, and a part is where it should be.
LEMMA OffsetsGrow ==
    ASSUME NEW P, NEW n \in Nat, NEW s \in [1 .. n -> Seq(P)], NEW off, Offsets(s, n, off)
    PROVE  \A i \in 0 .. n : off[i] <= off[n]
  <1> DEFINE Good == {k \in 0 .. n : \A i \in 0 .. k : off[i] <= off[k]}
  <1>1. off \in [0 .. n -> Nat] /\ off[0] = 0
    BY DEF Offsets
  <1>2. 0 \in Good
    BY <1>1
  <1>3. ASSUME NEW k \in 1 .. n, k - 1 \in Good PROVE k \in Good
    <2>1. k - 1 \in 0 .. n /\ off[k - 1] \in Nat /\ Len(s[k]) \in Nat
      BY <1>1, LenProperties
    <2>2. off[k] = off[k - 1] + Len(s[k])
      BY DEF Offsets
    <2>3. \A i \in 0 .. k : i = k \/ i \in 0 .. k - 1
      OBVIOUS
    <2>4. off[k - 1] <= off[k] /\ off[k] \in Nat
      BY <2>1, <2>2
    <2> QED
      BY <1>1, <1>3, <2>1, <2>3, <2>4
  <1> HIDE DEF Good
  <1>4. Good = 0 .. n
    BY <1>2, <1>3, ChainOf DEF Good
  <1>5. n \in Good
    BY <1>4
  <1> QED
    BY <1>5 DEF Good

\* What is where in two sequences behind each other.
Behind(P, a, b) ==
    /\ a \o b \in Seq(P)
    /\ Len(a \o b) = Len(a) + Len(b) /\ Len(a) \in Nat /\ Len(b) \in Nat
    /\ \A j \in 1 .. Len(a) : (a \o b)[j] = a[j]
    /\ \A j \in 1 .. Len(b) : (a \o b)[Len(a) + j] = b[j]

LEMMA ConcatAt ==
    ASSUME NEW P, NEW a \in Seq(P), NEW b \in Seq(P)
    PROVE  Behind(P, a, b)
  <1>1. Len(a) \in Nat /\ Len(b) \in Nat
    BY LenProperties
  <1>2. /\ a \o b \in Seq(P) /\ Len(a \o b) = Len(a) + Len(b)
        /\ \A i \in 1 .. Len(a) + Len(b) :
                (a \o b)[i] = IF i <= Len(a) THEN a[i] ELSE b[i - Len(a)]
    BY ConcatProperties
  <1>3. ASSUME NEW j \in 1 .. Len(a) PROVE (a \o b)[j] = a[j]
    <2>1. j \in 1 .. Len(a) + Len(b) /\ j <= Len(a)
      BY <1>1
    <2> QED
      BY <1>2, <2>1
  <1>4. ASSUME NEW j \in 1 .. Len(b) PROVE (a \o b)[Len(a) + j] = b[j]
    <2>1. /\ Len(a) + j \in 1 .. Len(a) + Len(b) /\ ~ (Len(a) + j <= Len(a))
          /\ (Len(a) + j) - Len(a) = j
      BY <1>1
    <2> QED
      BY <1>2, <2>1
  <1> QED
    BY <1>1, <1>2, <1>3, <1>4 DEF Behind

\* FlattenSeq puts its parts behind each other.
Flattened(P, s, n, off) ==
    /\ FlattenSeq(s) \in Seq(P)
    /\ Len(FlattenSeq(s)) = off[n]
    /\ \A i \in 1 .. n : \A j \in 1 .. Len(s[i]) :
            FlattenSeq(s)[off[i - 1] + j] = s[i][j]

LEMMA FlattenAt ==
    ASSUME NEW P, NEW n \in Nat, NEW s \in [1 .. n -> Seq(P)], NEW off, Offsets(s, n, off)
    PROVE  Flattened(P, s, n, off)
  <1>0. /\ off \in [0 .. n -> Nat] /\ off[0] = 0
        /\ \A i \in 1 .. n : off[i] = off[i - 1] + Len(s[i])
    BY DEF Offsets
  <1>1. Len(s) = n
    OBVIOUS
  <1>2. CASE n = 0
    <2>1. s = << >> /\ s \in Seq(P)
      BY <1>2
    <2>2. FlattenSeq(s) = s
      BY <1>1, <1>2 DEF FlattenSeq
    <2> QED
      BY <1>0, <1>1, <1>2, <2>1, <2>2 DEF Flattened
  <1>3. CASE n # 0
    <2> DEFINE flatten == CHOOSE f : f = [i \in 1 .. Len(s) |->
                                IF i = 1 THEN s[i] ELSE f[i - 1] \o s[i]]
               next == [i \in 1 .. n |-> [v \in Seq(P) |-> v \o s[i]]]
    <2>1. FlattenSeq(s) = flatten[n]
      BY <1>1, <1>3 DEF FlattenSeq
    <2>2. next \in [1 .. n -> [Seq(P) -> Seq(P)]]
      BY ConcatProperties
    <2>3. \A i \in 1 .. n : \A v \in Seq(P) : next[i][v] = v \o s[i]
      OBVIOUS
    <2> HIDE DEF next
    <2>4. << >> \in Seq(P)
      OBVIOUS
    <2>5. PICK f \in [0 .. n -> Seq(P)] : Chain(f, n, << >>, next)
      BY <2>2, <2>4, ChainExists
    <2>6. ASSUME NEW i \in 1 .. n
          PROVE  f[i] = IF i = 1 THEN s[i] ELSE f[i - 1] \o s[i]
      <3>1. i - 1 \in 0 .. n /\ f[i - 1] \in Seq(P)
        OBVIOUS
      <3>2. f[i] = f[i - 1] \o s[i]
        BY <2>3, <2>5, <3>1 DEF Chain
      <3>3. i = 1 => f[i - 1] = << >>
        BY <2>5 DEF Chain
      <3>4. << >> \o s[i] = s[i]
        BY ConcatEmptySeq
      <3> QED
        BY <3>2, <3>3, <3>4
    <2> DEFINE g == [i \in 1 .. Len(s) |-> f[i]]
    <2>7. g = [i \in 1 .. Len(s) |-> IF i = 1 THEN s[i] ELSE g[i - 1] \o s[i]]
      <3>1. \A i \in 1 .. Len(s) : i # 1 => g[i - 1] = f[i - 1]
        BY <1>1
      <3>2. \A i \in 1 .. Len(s) : g[i] = IF i = 1 THEN s[i] ELSE g[i - 1] \o s[i]
        BY <1>1, <2>6, <3>1
      <3>3. g = [i \in 1 .. Len(s) |-> g[i]]
        OBVIOUS
      <3> HIDE DEF g
      <3> QED
        BY <3>2, <3>3, Zenon
    <2> HIDE DEF g
    <2>8. flatten = [i \in 1 .. Len(s) |-> IF i = 1 THEN s[i] ELSE flatten[i - 1] \o s[i]]
      BY <2>7
    <2>9. \A i \in 1 .. n : flatten[i] = IF i = 1 THEN s[i] ELSE flatten[i - 1] \o s[i]
      BY <1>1, <2>8
    <2> HIDE DEF flatten
    <2> DEFINE Placed(k) ==
            /\ flatten[k] \in Seq(P)
            /\ Len(flatten[k]) = off[k]
            /\ \A i \in 1 .. k : \A j \in 1 .. Len(s[i]) :
                    flatten[k][off[i - 1] + j] = s[i][j]
               Good == {k \in 0 .. n : k = 0 \/ Placed(k)}
    <2>10. 0 \in Good
      OBVIOUS
    <2>13. ASSUME NEW k \in 0 .. n, Placed(k) PROVE k \in Good
      <3> HIDE DEF Placed
      <3> QED
        BY <2>13
    <2>14. ASSUME NEW k \in Good, k # 0 PROVE Placed(k)
      <3> HIDE DEF Placed
      <3> QED
        BY <2>14
    <2>11. ASSUME NEW k \in 1 .. n, k - 1 \in Good PROVE k \in Good
      <3>1. s[k] \in Seq(P) /\ Len(s[k]) \in Nat
        BY LenProperties
      <3>2. k - 1 \in 0 .. n /\ off[k - 1] \in Nat /\ off[k] = off[k - 1] + Len(s[k])
        BY <1>0
      <3>3. CASE k = 1
        <4>1. flatten[1] = s[1] /\ off[0] = 0 /\ off[1] = Len(s[1])
          BY <1>0, <2>9, <3>1, <3>2, <3>3
        <4>2. \A j \in 1 .. Len(s[1]) : off[0] + j = j
          BY <4>1
        <4> QED
          BY <3>1, <3>3, <4>1, <4>2
      <3>4. CASE k # 1
        <4>1. Placed(k - 1) /\ k - 1 \in 1 .. n
          BY <2>11, <3>4
        <4> DEFINE before == flatten[k - 1]
        <4>2. flatten[k] = before \o s[k]
          BY <2>9, <3>4
        <4>3. before \in Seq(P) /\ Len(before) = off[k - 1]
          BY <4>1
        <4> HIDE DEF before
        <4>4. /\ before \o s[k] \in Seq(P) /\ Len(before \o s[k]) = off[k]
              /\ \A j \in 1 .. off[k - 1] : (before \o s[k])[j] = before[j]
              /\ \A j \in 1 .. Len(s[k]) : (before \o s[k])[off[k - 1] + j] = s[k][j]
          <5>1. Behind(P, before, s[k])
            BY <3>1, <4>3, ConcatAt
          <5> QED
            BY <3>2, <4>3, <5>1 DEF Behind
        <4>5. ASSUME NEW i \in 1 .. k, NEW j \in 1 .. Len(s[i])
              PROVE  flatten[k][off[i - 1] + j] = s[i][j]
          <5>1. CASE i = k
            <6>1. j \in 1 .. Len(s[k])
              BY <5>1
            <6>2. flatten[k][off[k - 1] + j] = s[k][j]
              BY <4>2, <4>4, <6>1
            <6> QED
              BY <5>1, <6>2
          <5>2. CASE i # k
            <6>1. i \in 1 .. k - 1 /\ i - 1 \in 0 .. n /\ i \in 0 .. n /\ i \in 1 .. n
              BY <5>2
            <6>2. /\ off[i] <= off[k - 1] /\ off[i] \in Nat /\ off[i - 1] \in Nat
                  /\ off[i] = off[i - 1] + Len(s[i]) /\ Len(s[i]) \in Nat
              <7>1. k - 1 \in Nat /\ k - 1 <= n
                OBVIOUS
              <7> DEFINE t == [m \in 1 .. k - 1 |-> s[m]]
                         o == [m \in 0 .. k - 1 |-> off[m]]
              <7>2. t \in [1 .. k - 1 -> Seq(P)]
                BY <7>1
              <7>3. Offsets(t, k - 1, o)
                <8>1. /\ o \in [0 .. k - 1 -> Nat] /\ o[0] = 0
                      /\ \A m \in 0 .. k - 1 : o[m] = off[m]
                      /\ \A m \in 1 .. k - 1 : t[m] = s[m]
                  <9>1. 0 \in 0 .. k - 1 /\ \A m \in 0 .. k - 1 : m \in 0 .. n
                    BY <7>1
                  <9> QED
                    BY <1>0, <9>1
                <8>2. \A m \in 1 .. k - 1 : m - 1 \in 0 .. k - 1 /\ m \in 0 .. k - 1
                                                /\ m \in 1 .. n
                  BY <7>1
                <8> HIDE DEF o, t
                <8> QED
                  BY <1>0, <8>1, <8>2 DEF Offsets
              <7>4. \A m \in 0 .. k - 1 : o[m] <= o[k - 1]
                BY <7>1, <7>2, <7>3, OffsetsGrow
              <7>5. i \in 0 .. k - 1 /\ k - 1 \in 0 .. k - 1
                BY <6>1
              <7>6. off[i] <= off[k - 1]
                BY <7>4, <7>5
              <7>7. Len(s[i]) \in Nat
                BY <6>1, LenProperties
              <7> QED
                BY <1>0, <6>1, <7>6, <7>7
            <6>3. off[i - 1] + j \in 1 .. off[k - 1]
              <7>1. \A a, l, c \in Nat : \A m \in 1 .. l : a + l <= c => a + m \in 1 .. c
                OBVIOUS
              <7> QED
                BY <3>2, <6>2, <7>1
            <6>4. flatten[k][off[i - 1] + j] = before[off[i - 1] + j]
              BY <4>2, <4>4, <6>3
            <6>5. before[off[i - 1] + j] = s[i][j]
              BY <4>1, <6>1 DEF before
            <6> QED
              BY <6>4, <6>5
          <5> QED
            BY <5>1, <5>2
        <4>6. Placed(k)
          BY <4>2, <4>4, <4>5
        <4> QED
          <5>1. k \in 0 .. n
            OBVIOUS
          <5> HIDE DEF Placed, Good
          <5> QED
            BY <2>13, <4>6, <5>1
      <3> QED
        BY <3>3, <3>4
    <2> HIDE DEF Good
    <2>12. Good = 0 .. n
      BY <2>10, <2>11, ChainOf DEF Good
    <2>15. Placed(n)
      BY <1>3, <2>12, <2>14
    <2> QED
      BY <2>1, <2>15 DEF Flattened
  <1> QED
    BY <1>2, <1>3

-----------------------------------------------------------------------------
(* Bytes.                                                                   *)

Byte == 0 .. ByteSize - 1
Word == 0 .. WordSize - 1

LEMMA Divided ==
    ASSUME NEW b \in Nat \ {0}, NEW w \in Nat
    PROVE  /\ w % b \in 0 .. b - 1 /\ w \div b \in Nat
           /\ w = b * (w \div b) + (w % b)
  <1>1. w % b \in 0 .. b - 1
    OBVIOUS
  <1>2. w \div b \in Nat
    OBVIOUS
  <1>3. w = b * (w \div b) + (w % b)
    OBVIOUS
  <1> QED
    BY <1>1, <1>2, <1>3

LEMMA SmallMod ==
    ASSUME NEW b \in Nat \ {0}, NEW w \in 0 .. b - 1
    PROVE  w % b = w
  OBVIOUS

LEMMA Digits ==
    ASSUME NEW b \in Nat \ {0}, NEW w \in 0 .. b * b - 1
    PROVE  /\ w % b \in 0 .. b - 1 /\ w \div b \in 0 .. b - 1
           /\ (w \div b) % b = w \div b
           /\ w = (w \div b) * b + (w % b)
  <1> DEFINE q == w \div b
             r == w % b
  <1>1. w \in Nat /\ w < b * b
    OBVIOUS
  <1>2. r \in 0 .. b - 1 /\ q \in Nat /\ w = b * q + r
    BY <1>1, Divided
  <1> HIDE DEF q, r
  <1>3. q < b
    <2> SUFFICES ASSUME b <= q PROVE FALSE
      BY <1>2
    <2>1. b * b <= b * q
      BY <1>2
    <2> QED
      BY <1>1, <1>2, <2>1
  <1>4. q \in 0 .. b - 1
    BY <1>2, <1>3
  <1>5. q % b = q
    BY <1>4, SmallMod
  <1>6. q * b = b * q
    BY <1>2
  <1> QED
    <2>1. /\ r \in 0 .. b - 1 /\ q \in 0 .. b - 1 /\ q % b = q
          /\ w = q * b + r
      BY <1>2, <1>4, <1>5, <1>6
    <2> QED
      BY <2>1 DEF q, r

LEMMA Sizes ==
    /\ ByteSize \in Nat \ {0} /\ WordSize \in Nat \ {0}
    /\ WordSize = ByteSize * ByteSize
    /\ ByteSize <= WordSize
    /\ WordSize % 2 = 0 /\ 2 * (WordSize \div 2) = WordSize
  <1>1. ByteSize \in Nat /\ ByteSize > 1 /\ ByteSize % 2 = 0
    BY FormatAssumption
  <1>2. PICK h \in Nat : ByteSize = 2 * h
    <2>1. ByteSize = 2 * (ByteSize \div 2) /\ ByteSize \div 2 \in Nat
      BY <1>1
    <2> QED
      BY <2>1
  <1>3. WordSize = 2 * (h * ByteSize) /\ h * ByteSize \in Nat
    BY <1>1, <1>2 DEF WordSize
  <1>4. WordSize \in Nat \ {0} /\ ByteSize <= WordSize
    BY <1>1 DEF WordSize
  <1> QED
    BY <1>1, <1>3, <1>4 DEF WordSize

LEMMA WordBytesFacts ==
    ASSUME NEW w \in Word
    PROVE  /\ WordBytes(w) \in Seq(Byte) /\ Len(WordBytes(w)) = 2
           /\ WordBytes(w)[1] \in Byte /\ WordBytes(w)[2] \in Byte
           /\ (WordBytes(w)[2] * ByteSize + WordBytes(w)[1]) % WordSize = w
  <1>1. w \in 0 .. ByteSize * ByteSize - 1
    BY DEF Word, WordSize
  <1>2. /\ w % ByteSize \in Byte /\ w \div ByteSize \in Byte
        /\ (w \div ByteSize) % ByteSize = w \div ByteSize
        /\ w = (w \div ByteSize) * ByteSize + (w % ByteSize)
    BY <1>1, Sizes, Digits DEF Byte
  <1>3. w % WordSize = w
    BY Sizes, SmallMod DEF Word
  <1> DEFINE low == w % ByteSize
             high == w \div ByteSize
  <1>4. WordBytes(w) = <<low, high>>
    BY <1>2 DEF WordBytes
  <1>5. low \in Byte /\ high \in Byte /\ w = high * ByteSize + low
    BY <1>2
  <1> HIDE DEF low, high
  <1> QED
    BY <1>3, <1>4, <1>5

\* The bytes of t are in the buffer from the place index on.
Holds(buffer, index, t) ==
    \A j \in 1 .. Len(t) : buffer[index + j] = t[j]

LEMMA WordIsRead ==
    ASSUME NEW w \in Word, NEW buffer, NEW index \in Nat,
           Holds(buffer, index, WordBytes(w))
    PROVE  WordAt(buffer, index) = w
  <1>1. buffer[index + 1] = WordBytes(w)[1] /\ buffer[index + 2] = WordBytes(w)[2]
    BY WordBytesFacts DEF Holds
  <1>2. (index + 1) + 1 = index + 2
    OBVIOUS
  <1> QED
    BY <1>1, <1>2, WordBytesFacts DEF WordAt, ByteAt


\* Of two sequences that are behind each other, each is where it should be.
LEMMA HoldsBoth ==
    ASSUME NEW P, NEW a \in Seq(P), NEW b \in Seq(P), NEW buffer, NEW index \in Nat,
           Holds(buffer, index, a \o b)
    PROVE  Holds(buffer, index, a) /\ Holds(buffer, index + Len(a), b)
  <1>1. Behind(P, a, b)
    BY ConcatAt
  <1>2. /\ Len(a \o b) = Len(a) + Len(b) /\ Len(a) \in Nat /\ Len(b) \in Nat
        /\ \A j \in 1 .. Len(a) : (a \o b)[j] = a[j]
        /\ \A j \in 1 .. Len(b) : (a \o b)[Len(a) + j] = b[j]
    BY <1>1 DEF Behind
  <1>3. ASSUME NEW j \in 1 .. Len(a) PROVE buffer[index + j] = a[j]
    <2>1. j \in 1 .. Len(a \o b)
      BY <1>2
    <2> QED
      BY <1>2, <2>1 DEF Holds
  <1>4. ASSUME NEW j \in 1 .. Len(b) PROVE buffer[(index + Len(a)) + j] = b[j]
    <2>1. /\ Len(a) + j \in 1 .. Len(a \o b)
          /\ (index + Len(a)) + j = index + (Len(a) + j)
      BY <1>2
    <2> QED
      BY <1>2, <2>1 DEF Holds
  <1> QED
    BY <1>3, <1>4 DEF Holds

\* Bytes behind each other are as many as they are together.
Bytes(s, n) == s \in Seq(Byte) /\ Len(s) = n

LEMMA BytesBehind ==
    ASSUME NEW a, NEW b, NEW la, NEW lb, Bytes(a, la), Bytes(b, lb)
    PROVE  Bytes(a \o b, la + lb)
  <1>1. a \in Seq(Byte) /\ b \in Seq(Byte) /\ Len(a) = la /\ Len(b) = lb
    BY DEF Bytes
  <1>2. Behind(Byte, a, b)
    BY <1>1, ConcatAt
  <1> QED
    BY <1>1, <1>2 DEF Behind, Bytes

DoubleWord == 0 .. WordSize * WordSize - 1

LEMMA DoubleWordFacts ==
    ASSUME NEW d \in DoubleWord
    PROVE  /\ DoubleWordBytes(d) \in Seq(Byte) /\ Len(DoubleWordBytes(d)) = 4
           /\ \A buffer : \A index \in Nat :
                Holds(buffer, index, DoubleWordBytes(d)) => DoubleWordAt(buffer, index) = d
  <1> DEFINE low == d % WordSize
             high == d \div WordSize
  <1>1. low \in Word /\ high \in Word /\ d = high * WordSize + low
    BY Sizes, Digits DEF DoubleWord, Word
  <1>2. DoubleWordBytes(d) = WordBytes(low) \o WordBytes(high)
    BY DEF DoubleWordBytes
  <1> HIDE DEF low, high
  <1>3. /\ WordBytes(low) \in Seq(Byte) /\ Len(WordBytes(low)) = 2
        /\ WordBytes(high) \in Seq(Byte) /\ Len(WordBytes(high)) = 2
    BY <1>1, WordBytesFacts
  <1>4. DoubleWordBytes(d) \in Seq(Byte) /\ Len(DoubleWordBytes(d)) = 4
    <2>1. Bytes(WordBytes(low) \o WordBytes(high), 2 + 2)
      <3>1. Bytes(WordBytes(low), 2) /\ Bytes(WordBytes(high), 2)
        BY <1>3 DEF Bytes
      <3> QED
        BY <3>1, BytesBehind
    <2> QED
      BY <1>2, <2>1 DEF Bytes
  <1>5. ASSUME NEW buffer, NEW index \in Nat, Holds(buffer, index, DoubleWordBytes(d))
        PROVE  DoubleWordAt(buffer, index) = d
    <2>1. /\ Holds(buffer, index, WordBytes(low))
          /\ Holds(buffer, index + Len(WordBytes(low)), WordBytes(high))
      BY <1>2, <1>3, <1>5, HoldsBoth
    <2>2. Holds(buffer, index + 2, WordBytes(high)) /\ index + 2 \in Nat
      BY <1>3, <2>1
    <2>3. WordAt(buffer, index) = low /\ WordAt(buffer, index + 2) = high
      BY <1>1, <2>1, <2>2, WordIsRead
    <2> QED
      BY <1>1, <2>3 DEF DoubleWordAt
  <1> QED
    BY <1>4, <1>5

LEMMA SignedFacts ==
    ASSUME NEW u \in -(WordSize \div 2) .. WordSize \div 2 - 1
    PROVE  Unsigned(u) \in Word /\ Signed(Unsigned(u)) = u
  <1> DEFINE h == WordSize \div 2
             b == WordSize
             r == u % b
             q == u \div b
  <1>1. b \in Nat \ {0} /\ 2 * h = b /\ h \in Nat
    BY Sizes
  <1>2. u \in Int /\ -h <= u /\ u < h
    BY <1>1
  <1>3. r \in 0 .. b - 1 /\ q \in Int
    BY <1>1, <1>2
  <1>4. u = b * q + r
    BY <1>1, <1>2
  <1> HIDE DEF h, b, r, q
  <1>5. q < 1
    <2> SUFFICES ASSUME 1 <= q PROVE FALSE
      BY <1>3
    <2>1. b <= b * q
      BY <1>1, <1>3
    <2> QED
      BY <1>1, <1>2, <1>3, <1>4, <2>1
  <1>6. -2 < q
    <2> SUFFICES ASSUME q <= -2 PROVE FALSE
      BY <1>3
    <2>1. b * q <= -2 * b
      BY <1>1, <1>3
    <2> QED
      BY <1>1, <1>2, <1>3, <1>4, <2>1
  <1>7. q = 0 \/ q = -1
    BY <1>3, <1>5, <1>6
  <1>8. (IF r < h THEN r ELSE r - b) = u
    BY <1>1, <1>2, <1>3, <1>4, <1>7
  <1> QED
    BY <1>3, <1>8 DEF Unsigned, Signed, Word, h, b, r

LEMMA VertexFacts ==
    ASSUME NEW v \in Vertex
    PROVE  /\ VertexBytes(v) \in Seq(Byte) /\ Len(VertexBytes(v)) = VertexLength
           /\ \A buffer : \A index \in Nat :
                Holds(buffer, index, VertexBytes(v)) => VertexAt(buffer, index) = v
  <1> DEFINE x == DoubleWordBytes(v.x)
             y == DoubleWordBytes(v.y)
             z == DoubleWordBytes(v.z)
             s == WordBytes(Unsigned(v.u))
             t == WordBytes(Unsigned(v.v))
             xy == x \o y
             xyz == xy \o z
             xyzs == xyz \o s
  <1>1. /\ v.x \in DoubleWord /\ v.y \in DoubleWord /\ v.z \in DoubleWord
        /\ v.u \in -(WordSize \div 2) .. WordSize \div 2 - 1
        /\ v.v \in -(WordSize \div 2) .. WordSize \div 2 - 1
        /\ v = [x |-> v.x, y |-> v.y, z |-> v.z, u |-> v.u, v |-> v.v]
    BY DEF Vertex, DoubleWord
  <1>2. /\ Unsigned(v.u) \in Word /\ Signed(Unsigned(v.u)) = v.u
        /\ Unsigned(v.v) \in Word /\ Signed(Unsigned(v.v)) = v.v
    BY <1>1, SignedFacts
  <1>3. /\ x \in Seq(Byte) /\ y \in Seq(Byte) /\ z \in Seq(Byte)
        /\ Len(x) = 4 /\ Len(y) = 4 /\ Len(z) = 4
    BY <1>1, DoubleWordFacts
  <1>4. s \in Seq(Byte) /\ t \in Seq(Byte) /\ Len(s) = 2 /\ Len(t) = 2
    BY <1>2, WordBytesFacts
  <1>5. VertexBytes(v) = xyzs \o t
    BY DEF VertexBytes
  <1>6. ASSUME NEW buffer, NEW index \in Nat
        PROVE  /\ Holds(buffer, index, x) => DoubleWordAt(buffer, index) = v.x
               /\ Holds(buffer, index + 4, y) => DoubleWordAt(buffer, index + 4) = v.y
               /\ Holds(buffer, index + 8, z) => DoubleWordAt(buffer, index + 8) = v.z
               /\ Holds(buffer, index + 12, s) => Signed(WordAt(buffer, index + 12)) = v.u
               /\ Holds(buffer, index + 14, t) => Signed(WordAt(buffer, index + 14)) = v.v
    <2>1. {index + 4, index + 8, index + 12, index + 14} \subseteq Nat
      OBVIOUS
    <2>2. /\ Holds(buffer, index, x) => DoubleWordAt(buffer, index) = v.x
          /\ Holds(buffer, index + 4, y) => DoubleWordAt(buffer, index + 4) = v.y
          /\ Holds(buffer, index + 8, z) => DoubleWordAt(buffer, index + 8) = v.z
      BY <1>1, <2>1, DoubleWordFacts
    <2>3. /\ Holds(buffer, index + 12, s) => WordAt(buffer, index + 12) = Unsigned(v.u)
          /\ Holds(buffer, index + 14, t) => WordAt(buffer, index + 14) = Unsigned(v.v)
      BY <1>2, <2>1, WordIsRead
    <2> QED
      BY <1>2, <2>2, <2>3
  <1> HIDE DEF x, y, z, s, t
  <1>7. Bytes(xy, 4 + 4)
    <2>1. Bytes(x, 4) /\ Bytes(y, 4)
      BY <1>3 DEF Bytes
    <2> QED
      BY <2>1, BytesBehind DEF xy
  <1> HIDE DEF xy
  <1>8. Bytes(xyz, (4 + 4) + 4)
    <2>1. Bytes(z, 4)
      BY <1>3 DEF Bytes
    <2> QED
      BY <1>7, <2>1, BytesBehind DEF xyz
  <1> HIDE DEF xyz
  <1>9. Bytes(xyzs, ((4 + 4) + 4) + 2)
    <2>1. Bytes(s, 2)
      BY <1>4 DEF Bytes
    <2> QED
      BY <1>8, <2>1, BytesBehind DEF xyzs
  <1> HIDE DEF xyzs
  <1>10. Bytes(xyzs \o t, (((4 + 4) + 4) + 2) + 2)
    <2>1. Bytes(t, 2)
      BY <1>4 DEF Bytes
    <2> QED
      BY <1>9, <2>1, BytesBehind
  <1>12. /\ xy \in Seq(Byte) /\ Len(xy) = 8 /\ xyz \in Seq(Byte) /\ Len(xyz) = 12
         /\ xyzs \in Seq(Byte) /\ Len(xyzs) = 14
         /\ xyzs \o t \in Seq(Byte) /\ Len(xyzs \o t) = 16
    BY <1>7, <1>8, <1>9, <1>10 DEF Bytes
  <1>11. ASSUME NEW buffer, NEW index \in Nat, Holds(buffer, index, VertexBytes(v))
         PROVE  VertexAt(buffer, index) = v
    <2>1. Holds(buffer, index, xyzs) /\ Holds(buffer, index + 14, t)
      BY <1>4, <1>5, <1>11, <1>12, HoldsBoth
    <2>2. Holds(buffer, index, xyz) /\ Holds(buffer, index + 12, s)
      BY <1>4, <1>12, <2>1, HoldsBoth DEF xyzs
    <2>3. Holds(buffer, index, xy) /\ Holds(buffer, index + 8, z)
      BY <1>3, <1>12, <2>2, HoldsBoth DEF xyz
    <2>4. Holds(buffer, index, x) /\ Holds(buffer, index + 4, y)
      BY <1>3, <2>3, HoldsBoth DEF xy
    <2> QED
      BY <1>1, <1>6, <2>1, <2>2, <2>3, <2>4 DEF VertexAt
  <1> QED
    BY <1>5, <1>11, <1>12 DEF VertexLength

-----------------------------------------------------------------------------
(* A mesh.                                                                  *)

VertexCount(mesh) == Len(mesh.vertices) % WordSize
CountedMesh(mesh) == [mesh EXCEPT !.vertices = SubSeq(@, 1, Len(@) % WordSize)]

\* The bytes of a mesh are as many as its count of vertices says, its second and
\* third byte are that count, and all of them load as its first vertices.
MeshFits(mesh) ==
    /\ VertexCount(mesh) \in Word
    /\ MeshLength(VertexCount(mesh)) \in Nat
    /\ MeshLength(VertexCount(mesh)) >= MeshHeader
    /\ Bytes(MeshBytes(mesh), MeshLength(VertexCount(mesh)))
    /\ \A buffer : \A index \in Nat :
        /\ (/\ buffer[index + 2] = MeshBytes(mesh)[2]
            /\ buffer[index + 3] = MeshBytes(mesh)[3])
                => WordAt(buffer, index + 1) = VertexCount(mesh)
        /\ Holds(buffer, index, MeshBytes(mesh))
                => MeshAt(buffer, index) = CountedMesh(mesh)

\* The vertices of a mesh, each VertexLength bytes.
VerticesAt(buffer, index, vertices, count) ==
    \A i \in 1 .. count : VertexAt(buffer, index + (i - 1) * VertexLength) = vertices[i]

LEMMA VerticesLoad ==
    ASSUME NEW vertices \in Seq(Vertex), NEW count \in Nat, count <= Len(vertices),
           NEW body, body = FlattenSeq([i \in 1 .. count |-> VertexBytes(vertices[i])])
    PROVE  /\ Bytes(body, count * VertexLength)
           /\ \A buffer : \A index \in Nat :
                Holds(buffer, index, body) => VerticesAt(buffer, index, vertices, count)
  <1> DEFINE s == [i \in 1 .. count |-> VertexBytes(vertices[i])]
             off == [i \in 0 .. count |-> i * VertexLength]
  <1>1. \A i \in 1 .. count : vertices[i] \in Vertex
    BY ElementOfSeq
  <1>2. \A i \in 1 .. count : s[i] = VertexBytes(vertices[i])
    OBVIOUS
  <1>3. s \in [1 .. count -> Seq(Byte)]
    BY <1>1, VertexFacts
  <1>4. \A i \in 1 .. count : Len(s[i]) = VertexLength
    BY <1>1, <1>2, VertexFacts
  <1>5. \A i \in 0 .. count : off[i] = i * 16 /\ off[i] \in Nat
    BY DEF VertexLength
  <1>6. off \in [0 .. count -> Nat]
    BY <1>5
  <1>7. body = FlattenSeq(s)
    OBVIOUS
  <1> HIDE DEF s, off
  <1>8. Offsets(s, count, off)
    <2>1. ASSUME NEW i \in 1 .. count PROVE off[i] = off[i - 1] + Len(s[i])
      <3>1. i \in 0 .. count /\ i - 1 \in 0 .. count
        OBVIOUS
      <3>2. off[i] = i * 16 /\ off[i - 1] = (i - 1) * 16 /\ Len(s[i]) = 16
        BY <1>4, <1>5, <3>1 DEF VertexLength
      <3> QED
        BY <3>2
    <2>2. off[0] = 0
      BY <1>5
    <2> QED
      BY <1>6, <2>1, <2>2 DEF Offsets
  <1>9. Flattened(Byte, s, count, off)
    BY <1>3, <1>8, FlattenAt
  <1>10. /\ body \in Seq(Byte) /\ Len(body) = count * VertexLength
         /\ \A i \in 1 .. count : \A j \in 1 .. Len(s[i]) : body[off[i - 1] + j] = s[i][j]
    <2>1. /\ body \in Seq(Byte) /\ Len(body) = off[count]
          /\ \A i \in 1 .. count : \A j \in 1 .. Len(s[i]) : body[off[i - 1] + j] = s[i][j]
      BY <1>7, <1>9 DEF Flattened
    <2>2. off[count] = count * 16
      <3>1. count \in 0 .. count
        OBVIOUS
      <3> QED
        BY <1>5, <3>1
    <2>3. Len(body) = count * VertexLength
      BY <2>1, <2>2 DEF VertexLength
    <2> QED
      BY <2>1, <2>3
  <1>11. ASSUME NEW buffer, NEW index \in Nat, Holds(buffer, index, body),
                NEW i \in 1 .. count
         PROVE  VertexAt(buffer, index + (i - 1) * VertexLength) = vertices[i]
    <2> DEFINE place == (i - 1) * 16
    <2>1. place \in Nat /\ index + place \in Nat /\ off[i - 1] = place
      BY <1>5
    <2>2. ASSUME NEW j \in 1 .. Len(s[i]) PROVE buffer[(index + place) + j] = s[i][j]
      <3>1. j \in 1 .. 16
        BY <1>4 DEF VertexLength
      <3>2. place + j \in 1 .. Len(body) /\ (index + place) + j = index + (place + j)
        BY <1>10, <2>1, <3>1 DEF VertexLength
      <3>3. buffer[index + (place + j)] = body[place + j]
        BY <1>11, <3>2 DEF Holds
      <3>4. body[place + j] = s[i][j]
        BY <1>10, <2>1
      <3> QED
        BY <3>2, <3>3, <3>4
    <2> HIDE DEF place
    <2>3. Holds(buffer, index + place, VertexBytes(vertices[i]))
      BY <1>2, <2>2 DEF Holds
    <2>4. VertexAt(buffer, index + place) = vertices[i]
      BY <1>1, <2>1, <2>3, VertexFacts
    <2> QED
      BY <2>4 DEF place, VertexLength
  <1>12. Bytes(body, count * VertexLength)
    BY <1>10 DEF Bytes
  <1>13. ASSUME NEW buffer, NEW index \in Nat, Holds(buffer, index, body)
         PROVE  VerticesAt(buffer, index, vertices, count)
    BY <1>11, <1>13 DEF VerticesAt
  <1> QED
    BY <1>12, <1>13

LEMMA MeshFacts ==
    ASSUME NEW mesh \in Mesh
    PROVE  MeshFits(mesh)
  <1> DEFINE count == VertexCount(mesh)
             vertices == mesh.vertices
             first == <<mesh.relative_texture_id>>
             size == WordBytes(count)
             header == first \o size
             body == FlattenSeq([i \in 1 .. count |-> VertexBytes(vertices[i])])
  <1>1. /\ vertices \in Seq(Vertex) /\ mesh.relative_texture_id \in Byte
        /\ mesh = [relative_texture_id |-> mesh.relative_texture_id, vertices |-> vertices]
    BY DEF Mesh, Byte
  <1>2. Len(vertices) \in Nat
    BY <1>1, LenProperties
  <1>3. count \in Word /\ count \in Nat /\ count <= Len(vertices)
    <2>1. WordSize \in Nat \ {0}
      BY Sizes
    <2>2. \A b \in Nat \ {0} : \A l \in Nat : l % b \in 0 .. b - 1 /\ l % b <= l
      OBVIOUS
    <2>3. Len(vertices) % WordSize \in 0 .. WordSize - 1
          /\ Len(vertices) % WordSize <= Len(vertices)
      BY <1>2, <2>1, <2>2
    <2>4. count = Len(vertices) % WordSize
      BY DEF VertexCount
    <2> HIDE DEF count
    <2>5. count \in 0 .. WordSize - 1 /\ count <= Len(vertices)
      BY <2>3, <2>4
    <2> QED
      BY <2>1, <2>5 DEF Word
  <1>4. MeshBytes(mesh) = header \o body
    BY DEF MeshBytes, VertexCount
  <1>5. /\ Bytes(body, count * VertexLength)
        /\ \A buffer : \A index \in Nat :
             Holds(buffer, index, body) => VerticesAt(buffer, index, vertices, count)
    BY <1>1, <1>3, VerticesLoad
  <1> HIDE DEF count, body
  <1>6. Bytes(first, 1) /\ first[1] = mesh.relative_texture_id
    BY <1>1 DEF Bytes
  <1>7. Bytes(size, 2)
    BY <1>3, WordBytesFacts DEF Bytes
  <1> HIDE DEF first, size
  <1>8. Bytes(header, 1 + 2)
    BY <1>6, <1>7, BytesBehind
  <1>9. Bytes(header \o body, (1 + 2) + count * VertexLength)
    <2> HIDE DEF header
    <2> QED
      BY <1>5, <1>8, BytesBehind
  <1>10. /\ header \in Seq(Byte) /\ Len(header) = 3 /\ body \in Seq(Byte)
         /\ first \in Seq(Byte) /\ Len(first) = 1 /\ size \in Seq(Byte) /\ Len(size) = 2
    BY <1>5, <1>6, <1>7, <1>8 DEF Bytes
  <1>11. /\ Behind(Byte, header, body) /\ Behind(Byte, first, size)
    BY <1>10, ConcatAt
  <1>12. /\ MeshBytes(mesh)[2] = size[1] /\ MeshBytes(mesh)[3] = size[2]
    <2>1. header[1 + 1] = size[1] /\ header[1 + 2] = size[2]
      BY <1>10, <1>11 DEF Behind
    <2> HIDE DEF header
    <2>2. (header \o body)[2] = header[2] /\ (header \o body)[3] = header[3]
      BY <1>10, <1>11 DEF Behind
    <2> QED
      BY <1>4, <2>1, <2>2
  <1>13. ASSUME NEW buffer, NEW index \in Nat,
                buffer[index + 2] = MeshBytes(mesh)[2],
                buffer[index + 3] = MeshBytes(mesh)[3]
         PROVE  WordAt(buffer, index + 1) = count
    <2>1. Holds(buffer, index + 1, size)
      <3>1. ASSUME NEW j \in 1 .. Len(size) PROVE buffer[(index + 1) + j] = size[j]
        <4>1. j = 1 \/ j = 2
          BY <1>10
        <4>2. (index + 1) + 1 = index + 2 /\ (index + 1) + 2 = index + 3
          OBVIOUS
        <4> QED
          BY <1>12, <1>13, <4>1, <4>2
      <3> QED
        BY <3>1 DEF Holds
    <2> QED
      BY <1>3, <2>1, WordIsRead DEF size
  <1>14. ASSUME NEW buffer, NEW index \in Nat, Holds(buffer, index, MeshBytes(mesh))
         PROVE  MeshAt(buffer, index) = CountedMesh(mesh)
    <2>1. Holds(buffer, index, header) /\ Holds(buffer, index + 3, body)
      <3> HIDE DEF header
      <3> QED
        BY <1>4, <1>10, <1>14, HoldsBoth
    <2>2. Holds(buffer, index, first) /\ Holds(buffer, index + 1, size)
      BY <1>10, <2>1, HoldsBoth
    <2>3. buffer[index + 1] = mesh.relative_texture_id
      BY <1>6, <1>10, <2>2 DEF Holds
    <2>4. WordAt(buffer, index + 1) = count
      BY <1>3, <2>2, WordIsRead DEF size
    <2>5. VerticesAt(buffer, index + 3, vertices, count)
      BY <1>5, <2>1
    <2>6. ASSUME NEW i \in 1 .. count
          PROVE  VertexAt(buffer, index + MeshLength(i - 1)) = vertices[i]
      <3>1. index + MeshLength(i - 1) = (index + 3) + (i - 1) * VertexLength
        BY <1>3 DEF MeshLength, MeshHeader, VertexLength
      <3> QED
        BY <2>5, <3>1 DEF VerticesAt
    <2>7. [i \in 1 .. count |-> VertexAt(buffer, index + MeshLength(i - 1))]
            = SubSeq(vertices, 1, count)
      <3>1. SubSeq(vertices, 1, count) = [i \in 1 .. count |-> vertices[i]]
        <4>1. /\ SubSeq(vertices, 1, count) \in Seq(Vertex)
              /\ Len(SubSeq(vertices, 1, count)) = count
              /\ \A i \in 1 .. count : SubSeq(vertices, 1, count)[i] = vertices[i]
          BY <1>1, <1>2, <1>3, SubSeqProperties
        <4>2. SubSeq(vertices, 1, count)
                = [i \in 1 .. count |-> SubSeq(vertices, 1, count)[i]]
          BY <4>1
        <4> HIDE DEF vertices
        <4> QED
          BY <4>1, <4>2
      <3> QED
        BY <2>6, <3>1
    <2>8. CountedMesh(mesh) = [relative_texture_id |-> mesh.relative_texture_id,
                               vertices |-> SubSeq(vertices, 1, count)]
      <3> DEFINE kept == SubSeq(vertices, 1, count)
      <3>1. CountedMesh(mesh) = [mesh EXCEPT !.vertices = kept]
        BY DEF CountedMesh, count, VertexCount
      <3>2. [mesh EXCEPT !.vertices = kept]
                = [relative_texture_id |-> mesh.relative_texture_id, vertices |-> kept]
        <4> HIDE DEF kept
        <4> QED
          BY <1>1
      <3> QED
        BY <3>1, <3>2
    <2> QED
      BY <2>3, <2>4, <2>7, <2>8 DEF MeshAt, ByteAt
  <1>15. MeshLength(count) = (1 + 2) + count * VertexLength
    BY DEF MeshLength, MeshHeader
  <1>16. MeshLength(count) \in Nat /\ MeshLength(count) >= MeshHeader
    BY <1>3 DEF MeshLength, MeshHeader, VertexLength
  <1> QED
    BY <1>3, <1>4, <1>9, <1>13, <1>14, <1>15, <1>16 DEF MeshFits, count

-----------------------------------------------------------------------------
(* A resource.                                                              *)

\* The first bytes of a file, or all of them.
Part(buffer, file, length) ==
    /\ buffer \in Seq(Byte) /\ Len(buffer) = length
    /\ \A j \in 1 .. length : buffer[j] = file[j]

LEMMA PartOf ==
    ASSUME NEW file \in Seq(Byte), NEW length \in 0 .. Len(file)
    PROVE  Part(SubSeq(file, 1, length), file, length)
  <1>1. Len(file) \in Nat
    BY LenProperties
  <1>2. \A i \in 1 .. length : file[i] \in Byte
    <2>1. \A i \in 1 .. length : i \in 1 .. Len(file)
      BY <1>1
    <2> QED
      BY <2>1, ElementOfSeq
  <1>3. length \in Int /\ (IF 1 <= length THEN length - 1 + 1 ELSE 0) = length
    BY <1>1
  <1>4. /\ SubSeq(file, 1, length) \in Seq(Byte)
        /\ Len(SubSeq(file, 1, length)) = (IF 1 <= length THEN length - 1 + 1 ELSE 0)
        /\ \A i \in 1 .. length - 1 + 1 : SubSeq(file, 1, length)[i] = file[1 + i - 1]
    BY <1>2, <1>3, SubSeqProperties
  <1>5. \A i \in 1 .. length : i \in 1 .. length - 1 + 1 /\ 1 + i - 1 = i
    BY <1>3
  <1> QED
    BY <1>3, <1>4, <1>5 DEF Part

\* The header of a file of a resource of so many meshes.
Header(file, count) ==
    /\ file[1] = LetterG /\ file[2] = LetterK /\ file[3] = LetterR /\ file[4] = 0
    /\ file[5] = count

\* The file of a resource: its meshes are where off says, behind the header.
Layout(file, meshes, n, off) ==
    /\ n \in Nat /\ Header(file, n) /\ file \in Seq(Byte)
    /\ off \in [0 .. n -> Nat] /\ off[0] = 0
    /\ Len(file) = ResourceHeader + off[n]
    /\ \A i \in 0 .. n : off[i] <= off[n]
    /\ \A i \in 1 .. n :
        /\ MeshFits(meshes[i])
        /\ off[i] = off[i - 1] + MeshLength(VertexCount(meshes[i]))
        /\ Holds(file, ResourceHeader + off[i - 1], MeshBytes(meshes[i]))

LEMMA ResourceLayout ==
    ASSUME NEW resource \in Resource
    PROVE  /\ Len(resource.meshes) \in Nat
           /\ \E off : Layout(ResourceBytes(resource), resource.meshes,
                              Len(resource.meshes), off)
  <1> DEFINE meshes == resource.meshes
             n == Len(meshes)
             s == [i \in 1 .. n |-> MeshBytes(meshes[i])]
             header == <<LetterG, LetterK, LetterR, 0, n>>
             body == FlattenSeq(s)
  <1>1. meshes \in Seq(Mesh) /\ n \in Byte /\ n \in Nat
    <2>1. meshes \in Seq(Mesh) /\ n < ByteSize
      BY DEF Resource
    <2>2. n \in Nat
      BY <2>1, LenProperties
    <2> HIDE DEF n, meshes
    <2> QED
      BY <2>1, <2>2, Sizes DEF Byte
  <1>2. n % ByteSize = n
    BY <1>1, Sizes, SmallMod DEF Byte
  <1>3. ResourceBytes(resource) = header \o body
    BY <1>2 DEF ResourceBytes
  <1>4. \A i \in 1 .. n : meshes[i] \in Mesh
    BY <1>1, ElementOfSeq
  <1>5. \A i \in 1 .. n : MeshFits(meshes[i])
    BY <1>4, MeshFacts
  <1>6. \A i \in 1 .. n : s[i] = MeshBytes(meshes[i])
    OBVIOUS
  <1>7. ASSUME NEW i \in 1 .. n
        PROVE  MeshBytes(meshes[i]) \in Seq(Byte)
               /\ Len(MeshBytes(meshes[i])) = MeshLength(VertexCount(meshes[i]))
    BY <1>5 DEF MeshFits, Bytes
  <1>8. s \in [1 .. n -> Seq(Byte)]
    BY <1>7
  <1> HIDE DEF s
  <1>9. PICK off : Offsets(s, n, off)
    BY <1>1, <1>8, OffsetsExist
  <1>10. Flattened(Byte, s, n, off)
    BY <1>1, <1>8, <1>9, FlattenAt
  <1>11. \A i \in 0 .. n : off[i] <= off[n]
    BY <1>1, <1>8, <1>9, OffsetsGrow
  <1>12. /\ off \in [0 .. n -> Nat] /\ off[0] = 0
         /\ \A i \in 1 .. n : off[i] = off[i - 1] + Len(s[i])
    BY <1>9 DEF Offsets
  <1>13. /\ body \in Seq(Byte) /\ Len(body) = off[n]
         /\ \A i \in 1 .. n : \A j \in 1 .. Len(s[i]) : body[off[i - 1] + j] = s[i][j]
    BY <1>10 DEF Flattened
  <1> HIDE DEF body
  <1>14. header \in Seq(Byte) /\ Len(header) = 5 /\ Header(header, n)
    <2>1. {LetterG, LetterK, LetterR, 0} \subseteq Byte
      BY FormatAssumption, Sizes DEF Byte
    <2> HIDE DEF n
    <2> QED
      BY <1>1, <2>1 DEF Header
  <1> HIDE DEF header
  <1>15. Behind(Byte, header, body)
    BY <1>13, <1>14, ConcatAt
  <1> DEFINE file == header \o body
  <1>16. /\ file \in Seq(Byte) /\ Len(file) = ResourceHeader + off[n]
         /\ \A j \in 1 .. 5 : file[j] = header[j]
         /\ \A j \in 1 .. Len(body) : file[5 + j] = body[j]
    BY <1>13, <1>14, <1>15 DEF Behind, ResourceHeader
  <1> HIDE DEF file
  <1>17. Header(file, n)
    BY <1>14, <1>16 DEF Header
  <1>18. ASSUME NEW i \in 1 .. n
         PROVE  Holds(file, ResourceHeader + off[i - 1], MeshBytes(meshes[i]))
    <2>1. /\ i - 1 \in 0 .. n /\ i \in 0 .. n /\ off[i - 1] \in Nat /\ off[i] \in Nat
          /\ off[i] <= Len(body) /\ Len(body) \in Nat
      <3>1. i - 1 \in 0 .. n /\ i \in 0 .. n /\ n \in 0 .. n
        BY <1>1
      <3> QED
        BY <1>11, <1>12, <1>13, <3>1
    <2>2. Len(s[i]) \in Nat /\ off[i] = off[i - 1] + Len(s[i])
      BY <1>8, <1>12, LenProperties
    <2>3. ASSUME NEW j \in 1 .. Len(s[i])
          PROVE  file[(ResourceHeader + off[i - 1]) + j] = s[i][j]
      <3>1. \A a, l, b, c \in Nat : \A m \in 1 .. l :
                c = a + l /\ c <= b => a + m \in 1 .. b /\ (5 + a) + m = 5 + (a + m)
        OBVIOUS
      <3>2. /\ off[i - 1] + j \in 1 .. Len(body)
            /\ (5 + off[i - 1]) + j = 5 + (off[i - 1] + j)
        BY <2>1, <2>2, <3>1
      <3> QED
        BY <1>13, <1>16, <3>2 DEF ResourceHeader
    <2> QED
      BY <1>6, <2>3 DEF Holds
  <1>19. \A i \in 1 .. n : off[i] = off[i - 1] + MeshLength(VertexCount(meshes[i]))
    BY <1>6, <1>7, <1>12
  <1>20. Layout(file, meshes, n, off)
    <2> HIDE DEF n, meshes
    <2> QED
      BY <1>1, <1>5, <1>11, <1>12, <1>16, <1>17, <1>18, <1>19 DEF Layout
  <1> QED
    BY <1>1, <1>3, <1>20 DEF file

\* Where the meshes of a buffer end.
Ends(buffer, n) ==
    CHOOSE ends : ends = [i \in 0 .. n |-> IF i = 0 THEN ResourceHeader
                                           ELSE MeshEnd(buffer, ends[i - 1])]

EndsRight(buffer, n, ends) ==
    /\ ends \in [0 .. n -> Nat] /\ ends[0] = ResourceHeader
    /\ \A i \in 1 .. n : ends[i] = MeshEnd(buffer, ends[i - 1])

LEMMA EndsFacts ==
    ASSUME NEW buffer \in Seq(Byte), NEW n \in Nat
    PROVE  EndsRight(buffer, n, Ends(buffer, n))
  <1>1. Len(buffer) \in Nat
    BY LenProperties
  <1>2. \A index \in Nat : MeshEnd(buffer, index) \in Nat
    <2> SUFFICES ASSUME NEW index \in Nat PROVE MeshEnd(buffer, index) \in Nat
      OBVIOUS
    <2>1. CASE index + MeshHeader > Len(buffer)
      BY <1>1, <2>1 DEF MeshEnd
    <2>2. CASE ~ (index + MeshHeader > Len(buffer))
      <3>1. /\ index + 2 \in 1 .. Len(buffer) /\ index + 3 \in 1 .. Len(buffer)
            /\ (index + 1) + 1 = index + 2 /\ ((index + 1) + 1) + 1 = index + 3
        BY <1>1, <2>2 DEF MeshHeader
      <3>2. buffer[index + 2] \in Byte /\ buffer[index + 3] \in Byte
        BY <3>1, ElementOfSeq
      <3> DEFINE w == buffer[index + 3] * ByteSize + buffer[index + 2]
      <3>3. w \in Nat
        BY <3>2, Sizes DEF Byte
      <3> HIDE DEF w
      <3>4. w % WordSize \in Nat
        BY <3>3, Sizes, Divided
      <3>5. WordAt(buffer, index + 1) = w % WordSize
        BY <3>1 DEF WordAt, ByteAt, w
      <3>6. MeshEnd(buffer, index) = index + MeshLength(w % WordSize)
        BY <2>2, <3>5 DEF MeshEnd
      <3> QED
        BY <3>4, <3>6 DEF MeshLength, MeshHeader, VertexLength
    <2> QED
      BY <2>1, <2>2
  <1> DEFINE next == [i \in 1 .. n |-> [v \in Nat |-> MeshEnd(buffer, v)]]
  <1>3. next \in [1 .. n -> [Nat -> Nat]]
    BY <1>2
  <1>4. \A i \in 1 .. n : \A v \in Nat : next[i][v] = MeshEnd(buffer, v)
    OBVIOUS
  <1> HIDE DEF next
  <1>5. ResourceHeader \in Nat
    BY DEF ResourceHeader
  <1>6. PICK f \in [0 .. n -> Nat] : Chain(f, n, ResourceHeader, next)
    BY <1>3, <1>5, ChainExists
  <1>7. f[0] = ResourceHeader
    BY <1>6 DEF Chain
  <1>8. \A i \in 1 .. n : i - 1 \in 0 .. n /\ f[i - 1] \in Nat
    OBVIOUS
  <1>9. \A i \in 1 .. n : f[i] = MeshEnd(buffer, f[i - 1])
    BY <1>4, <1>6, <1>8 DEF Chain
  <1>10. f = [i \in 0 .. n |-> IF i = 0 THEN ResourceHeader ELSE MeshEnd(buffer, f[i - 1])]
    <2>1. \A i \in 0 .. n : i # 0 => i \in 1 .. n
      OBVIOUS
    <2>2. \A i \in 0 .. n :
            f[i] = IF i = 0 THEN ResourceHeader ELSE MeshEnd(buffer, f[i - 1])
      BY <1>7, <1>9, <2>1
    <2>3. f = [i \in 0 .. n |-> f[i]]
      OBVIOUS
    <2> QED
      BY <2>2, <2>3, Zenon
  <1> DEFINE ends == Ends(buffer, n)
  <1>11. ends = [i \in 0 .. n |-> IF i = 0 THEN ResourceHeader
                                  ELSE MeshEnd(buffer, ends[i - 1])]
    BY <1>10 DEF Ends
  <1> HIDE DEF ends
  <1>12. /\ ends[0] = ResourceHeader
         /\ \A i \in 1 .. n : ends[i] = MeshEnd(buffer, ends[i - 1])
    BY <1>11
  <1> DEFINE Good == {k \in 0 .. n : ends[k] \in Nat}
  <1>13. 0 \in Good
    BY <1>5, <1>12
  <1>14. ASSUME NEW i \in 1 .. n, i - 1 \in Good PROVE i \in Good
    <2>1. i \in 0 .. n /\ ends[i - 1] \in Nat
      BY <1>14
    <2>2. ends[i] \in Nat
      BY <1>2, <1>12, <2>1
    <2> QED
      BY <2>1, <2>2
  <1> HIDE DEF Good
  <1>15. Good = 0 .. n
    BY <1>13, <1>14, ChainOf DEF Good
  <1>16. \A i \in 0 .. n : ends[i] \in Nat
    BY <1>15 DEF Good
  <1>17. ends \in [0 .. n -> Nat]
    BY <1>11, <1>16
  <1> QED
    BY <1>12, <1>17 DEF EndsRight, ends

\* What loadResource makes of a buffer that begins as a resource of n meshes.
LEMMA LoadIs ==
    ASSUME NEW buffer \in Seq(Byte), NEW n \in Nat, Header(buffer, n),
           ResourceHeader <= Len(buffer)
    PROVE  LoadResource(buffer) =
                IF \E i \in 1 .. n : Ends(buffer, n)[i] > Len(buffer) THEN Throws
                ELSE [meshes |-> [i \in 1 .. n |-> MeshAt(buffer, Ends(buffer, n)[i - 1])]]
  <1>1. Len(buffer) \in Nat /\ 4 \in 0 .. Len(buffer) /\ 5 <= Len(buffer)
    BY LenProperties DEF ResourceHeader
  <1>2. ~ (Len(buffer) < ResourceHeader)
    BY <1>1 DEF ResourceHeader
  <1>3. SubSeq(buffer, 1, 4) = <<LetterG, LetterK, LetterR, 0>>
    <2>1. Part(SubSeq(buffer, 1, 4), buffer, 4)
      BY <1>1, PartOf
    <2> DEFINE t == SubSeq(buffer, 1, 4)
    <2>2. t \in Seq(Byte) /\ Len(t) = 4 /\ t[1] = LetterG /\ t[2] = LetterK
            /\ t[3] = LetterR /\ t[4] = 0
      BY <2>1 DEF Part, Header
    <2> HIDE DEF t
    <2>3. t = <<LetterG, LetterK, LetterR, 0>>
      BY <2>2
    <2> QED
      BY <2>3 DEF t
  <1>4. ByteAt(buffer, 4) = n
    BY DEF ByteAt, Header
  <1> DEFINE count == ByteAt(buffer, 4)
  <1>5. LoadResource(buffer) =
            IF \/ Len(buffer) < ResourceHeader
               \/ SubSeq(buffer, 1, 4) # <<LetterG, LetterK, LetterR, 0>>
            THEN Throws
            ELSE IF \E i \in 1 .. count : Ends(buffer, count)[i] > Len(buffer)
                 THEN Throws
                 ELSE [meshes |-> [i \in 1 .. count |->
                                     MeshAt(buffer, Ends(buffer, count)[i - 1])]]
    BY Zenon DEF LoadResource, Ends
  <1>6. count = n
    BY <1>4
  <1> HIDE DEF count
  <1> QED
    BY <1>2, <1>3, <1>5, <1>6

\* Where a mesh begins whose header is all there, its end is found.
LEMMA NextEnd ==
    ASSUME NEW file, NEW meshes, NEW n, NEW off, Layout(file, meshes, n, off),
           NEW length \in 0 .. Len(file), NEW buffer, Part(buffer, file, length),
           NEW i \in 1 .. n
    PROVE  /\ off[i - 1] \in Nat /\ off[i] \in Nat
           /\ off[i - 1] + MeshHeader <= off[i]
           /\ MeshEnd(buffer, ResourceHeader + off[i - 1]) =
                IF (ResourceHeader + off[i - 1]) + MeshHeader > length THEN length + 1
                ELSE ResourceHeader + off[i]
  <1>1. /\ n \in Nat /\ off \in [0 .. n -> Nat] /\ MeshFits(meshes[i])
        /\ off[i] = off[i - 1] + MeshLength(VertexCount(meshes[i]))
        /\ Holds(file, ResourceHeader + off[i - 1], MeshBytes(meshes[i]))
    BY DEF Layout
  <1>2. off[i - 1] \in Nat /\ off[i] \in Nat
    BY <1>1
  <1> DEFINE bytes == MeshBytes(meshes[i])
             count == VertexCount(meshes[i])
             a == off[i - 1]
             l == MeshLength(count)
             place == ResourceHeader + a
  <1>3. /\ l \in Nat /\ l >= 3 /\ Len(bytes) = l /\ off[i] = a + l
    BY <1>1 DEF MeshFits, Bytes, MeshHeader
  <1>4. off[i - 1] + MeshHeader <= off[i]
    BY <1>2, <1>3 DEF MeshHeader
  <1>5. Len(buffer) = length /\ length \in Nat
    <2>1. file \in Seq(Byte)
      BY DEF Layout
    <2>2. Len(file) \in Nat
      BY <2>1, LenProperties
    <2> QED
      BY <2>2 DEF Part
  <1>6. CASE place + MeshHeader > length
    BY <1>2, <1>4, <1>5, <1>6 DEF MeshEnd
  <1>7. CASE ~ (place + MeshHeader > length)
    <2>1. place \in Nat /\ place + 2 \in 1 .. length /\ place + 3 \in 1 .. length
      <3>1. \A b, c \in Nat : ~ ((5 + b) + 3 > c) =>
                5 + b \in Nat /\ (5 + b) + 2 \in 1 .. c /\ (5 + b) + 3 \in 1 .. c
        OBVIOUS
      <3>2. ~ ((5 + a) + 3 > length)
        BY <1>7 DEF ResourceHeader, MeshHeader
      <3> QED
        BY <1>2, <1>5, <3>1, <3>2 DEF ResourceHeader
    <2>2. 2 \in 1 .. Len(bytes) /\ 3 \in 1 .. Len(bytes)
      BY <1>3
    <2>3. file[place + 2] = bytes[2] /\ file[place + 3] = bytes[3]
      BY <1>1, <2>2 DEF Holds
    <2>4. buffer[place + 2] = bytes[2] /\ buffer[place + 3] = bytes[3]
      BY <2>1, <2>3 DEF Part
    <2>5. WordAt(buffer, place + 1) = count
      BY <1>1, <2>1, <2>4 DEF MeshFits
    <2>6. MeshEnd(buffer, place) = place + l
      BY <1>5, <1>7, <2>5 DEF MeshEnd
    <2>7. place + l = ResourceHeader + off[i]
      BY <1>2, <1>3 DEF ResourceHeader
    <2> QED
      BY <1>2, <1>4, <1>7, <2>6, <2>7
  <1> QED
    BY <1>2, <1>4, <1>6, <1>7

LEMMA EndsPlaced ==
    ASSUME NEW file, NEW meshes, NEW n, NEW off, Layout(file, meshes, n, off),
           NEW length \in 0 .. Len(file), NEW buffer, Part(buffer, file, length),
           NEW ends, EndsRight(buffer, n, ends), ResourceHeader <= length
    PROVE  /\ \A i \in 0 .. n :
                ResourceHeader + off[i] <= length => ends[i] = ResourceHeader + off[i]
           /\ length < Len(file) => \E i \in 1 .. n : ends[i] > length
  <1>0. /\ n \in Nat /\ off \in [0 .. n -> Nat] /\ off[0] = 0
        /\ Len(file) = ResourceHeader + off[n] /\ file \in Seq(Byte)
    BY DEF Layout
  <1>1. /\ length \in Nat /\ Len(file) \in Nat /\ length <= Len(file)
    BY <1>0, LenProperties
  <1>2. /\ ends \in [0 .. n -> Nat] /\ ends[0] = ResourceHeader
        /\ \A i \in 1 .. n : ends[i] = MeshEnd(buffer, ends[i - 1])
    BY DEF EndsRight
  <1> DEFINE Placed(i) ==
            ResourceHeader + off[i] <= length => ends[i] = ResourceHeader + off[i]
             Good == {i \in 0 .. n : Placed(i)}
  <1>3. 0 \in Good
    <2>1. Placed(0) /\ 0 \in 0 .. n
      BY <1>0, <1>2 DEF ResourceHeader
    <2> QED
      BY <2>1
  <1>4. ASSUME NEW i \in 1 .. n, i - 1 \in Good PROVE i \in Good
    <2>1. i \in 0 .. n /\ Placed(i - 1)
      BY <1>4
    <2>2. /\ off[i - 1] \in Nat /\ off[i] \in Nat
          /\ off[i - 1] + MeshHeader <= off[i]
          /\ MeshEnd(buffer, ResourceHeader + off[i - 1]) =
                IF (ResourceHeader + off[i - 1]) + MeshHeader > length THEN length + 1
                ELSE ResourceHeader + off[i]
      BY NextEnd
    <2>3. ASSUME ResourceHeader + off[i] <= length
          PROVE  ends[i] = ResourceHeader + off[i]
      <3>1. /\ ResourceHeader + off[i - 1] <= length
            /\ ~ ((ResourceHeader + off[i - 1]) + MeshHeader > length)
        BY <1>1, <2>2, <2>3 DEF ResourceHeader, MeshHeader
      <3>2. ends[i - 1] = ResourceHeader + off[i - 1]
        BY <2>1, <3>1
      <3>3. MeshEnd(buffer, ResourceHeader + off[i - 1]) = ResourceHeader + off[i]
        BY <2>2, <3>1
      <3> QED
        BY <1>2, <3>2, <3>3
    <2>4. Placed(i)
      BY <2>3
    <2> HIDE DEF Placed
    <2> QED
      BY <2>1, <2>4
  <1> HIDE DEF Good
  <1>5. Good = 0 .. n
    BY <1>0, <1>3, <1>4, ChainOf DEF Good
  <1>6. \A i \in 0 .. n : Placed(i)
    BY <1>5 DEF Good
  <1>7. ASSUME length < Len(file) PROVE \E i \in 1 .. n : ends[i] > length
    <2> DEFINE Beyond == {i \in 0 .. n : ResourceHeader + off[i] > length}
    <2>1. n \in Beyond
      BY <1>0, <1>7
    <2>2. Beyond \in SUBSET Nat /\ Beyond # {}
      BY <1>0, <2>1
    <2>3. PICK i \in Beyond : \A j \in Beyond : i <= j
      BY <2>2, LeastNumber
    <2>4. i # 0
      BY <1>0, <1>1, <2>3 DEF ResourceHeader
    <2>5. i \in 1 .. n /\ i - 1 \in 0 .. n /\ ~ (i <= i - 1)
      BY <1>0, <2>3, <2>4
    <2>6. ~ (ResourceHeader + off[i - 1] > length)
      BY <2>3, <2>5
    <2>7. /\ off[i - 1] \in Nat /\ off[i] \in Nat
          /\ MeshEnd(buffer, ResourceHeader + off[i - 1]) =
                IF (ResourceHeader + off[i - 1]) + MeshHeader > length THEN length + 1
                ELSE ResourceHeader + off[i]
      BY <2>5, NextEnd
    <2>8. ends[i - 1] = ResourceHeader + off[i - 1]
      <3>1. ResourceHeader + off[i - 1] <= length
        BY <1>1, <2>6, <2>7 DEF ResourceHeader
      <3> QED
        BY <1>6, <2>5, <3>1
    <2>9. ends[i] = MeshEnd(buffer, ResourceHeader + off[i - 1])
      BY <1>2, <2>5, <2>8
    <2>10. length + 1 > length /\ ResourceHeader + off[i] > length
      BY <1>1, <2>3
    <2>11. ends[i] > length
      BY <2>7, <2>9, <2>10
    <2> QED
      BY <2>5, <2>11
  <1> QED
    BY <1>6, <1>7

\* All the bytes of a resource load as the vertices that were counted, and fewer of
\* them are refused, or are no bytes at all.
LEMMA ResourceFacts ==
    ASSUME NEW resource \in Resource
    PROVE  ResourceLoads(resource) /\ NoPartLoads(resource)
  <1> DEFINE file == ResourceBytes(resource)
             meshes == resource.meshes
             n == Len(meshes)
  <1>1. PICK off : Layout(file, meshes, n, off)
    BY ResourceLayout
  <1>2. meshes \in Seq(Mesh) /\ n \in Nat /\ resource = [meshes |-> meshes]
    <2>1. meshes \in Seq(Mesh) /\ resource = [meshes |-> meshes]
      BY DEF Resource
    <2> QED
      BY <2>1, LenProperties
  <1> HIDE DEF file, n
  <1>3. /\ file \in Seq(Byte) /\ Header(file, n) /\ off \in [0 .. n -> Nat]
        /\ Len(file) = ResourceHeader + off[n] /\ Len(file) \in Nat /\ n \in 0 .. n
        /\ \A i \in 0 .. n : off[i] <= off[n]
    <2>1. /\ file \in Seq(Byte) /\ Header(file, n) /\ off \in [0 .. n -> Nat]
          /\ Len(file) = ResourceHeader + off[n]
          /\ \A i \in 0 .. n : off[i] <= off[n]
      BY <1>1 DEF Layout
    <2> QED
      BY <1>2, <2>1, LenProperties
  <1>4. ResourceHeader <= Len(file) /\ off[n] \in Nat
    BY <1>3 DEF ResourceHeader
  <1>5. LoadResource(file) = Counted(resource)
    <2> DEFINE ends == Ends(file, n)
    <2>1. EndsRight(file, n, ends)
      BY <1>2, <1>3, EndsFacts
    <2>2. LoadResource(file) =
                IF \E i \in 1 .. n : ends[i] > Len(file) THEN Throws
                ELSE [meshes |-> [i \in 1 .. n |-> MeshAt(file, ends[i - 1])]]
      BY <1>2, <1>3, <1>4, LoadIs
    <2> HIDE DEF ends
    <2>3. Len(file) \in 0 .. Len(file) /\ Part(file, file, Len(file))
      BY <1>3 DEF Part
    <2>4. \A i \in 0 .. n : ResourceHeader + off[i] <= Len(file)
      BY <1>3 DEF ResourceHeader
    <2>5. \A i \in 0 .. n : ends[i] = ResourceHeader + off[i]
      <3>1. \A i \in 0 .. n :
                ResourceHeader + off[i] <= Len(file) => ends[i] = ResourceHeader + off[i]
        BY <1>1, <1>4, <2>1, <2>3, EndsPlaced
      <3> QED
        BY <2>4, <3>1
    <2>6. ~ \E i \in 1 .. n : ends[i] > Len(file)
      <3> SUFFICES ASSUME NEW i \in 1 .. n PROVE ~ (ends[i] > Len(file))
        OBVIOUS
      <3>1. i \in 0 .. n /\ off[i] \in Nat
        BY <1>3
      <3> QED
        BY <1>3, <2>4, <2>5, <3>1 DEF ResourceHeader
    <2>7. ASSUME NEW i \in 1 .. n PROVE MeshAt(file, ends[i - 1]) = CountedMesh(meshes[i])
      <3>1. /\ i - 1 \in 0 .. n /\ off[i - 1] \in Nat
            /\ ResourceHeader + off[i - 1] \in Nat
        BY <1>3 DEF ResourceHeader
      <3>2. MeshFits(meshes[i]) /\ Holds(file, ResourceHeader + off[i - 1], MeshBytes(meshes[i]))
        BY <1>1 DEF Layout
      <3>3. MeshAt(file, ResourceHeader + off[i - 1]) = CountedMesh(meshes[i])
        BY <3>1, <3>2 DEF MeshFits
      <3> QED
        BY <2>5, <3>1, <3>3
    <2>8. LoadResource(file) = [meshes |-> [i \in 1 .. n |-> CountedMesh(meshes[i])]]
      <3>1. [i \in 1 .. n |-> MeshAt(file, ends[i - 1])]
                = [i \in 1 .. n |-> CountedMesh(meshes[i])]
        BY <2>7
      <3> QED
        BY <2>2, <2>6, <3>1
    <2>9. Counted(resource) = [meshes |-> [i \in 1 .. n |-> CountedMesh(meshes[i])]]
      <3>1. DOMAIN meshes = 1 .. n
        BY <1>2, LenProperties DEF n
      <3>2. Counted(resource) =
                [meshes |-> [i \in DOMAIN meshes |-> CountedMesh(meshes[i])]]
        BY DEF Counted, CountedMesh
      <3> QED
        BY <3>1, <3>2
    <2> QED
      BY <2>8, <2>9
  <1>6. ASSUME NEW length \in 0 .. Len(file) - 1
        PROVE  getResource(SubSeq(file, 1, length))
                    = IF length = 0 THEN NoResource ELSE Throws
    <2> DEFINE buffer == SubSeq(file, 1, length)
    <2>1. length \in 0 .. Len(file) /\ length < Len(file) /\ length \in Nat
      BY <1>3
    <2>2. Part(buffer, file, length)
      BY <1>3, <2>1, PartOf
    <2> HIDE DEF buffer
    <2>3. buffer \in Seq(Byte) /\ Len(buffer) = length
      BY <2>2 DEF Part
    <2>4. ASSUME length < ResourceHeader PROVE LoadResource(buffer) = Throws
      BY <2>3, <2>4 DEF LoadResource
    <2>5. ASSUME ~ (length < ResourceHeader) PROVE LoadResource(buffer) = Throws
      <3> DEFINE ends == Ends(buffer, n)
      <3>1. Header(buffer, n)
        <4>1. {1, 2, 3, 4, 5} \subseteq 1 .. length
          BY <2>1, <2>5 DEF ResourceHeader
        <4> QED
          BY <1>3, <2>2, <4>1 DEF Header, Part
      <3>2. ResourceHeader <= length
        BY <2>1, <2>5 DEF ResourceHeader
      <3>3. EndsRight(buffer, n, ends)
        BY <1>2, <2>3, EndsFacts
      <3>4. LoadResource(buffer) =
                IF \E i \in 1 .. n : ends[i] > length THEN Throws
                ELSE [meshes |-> [i \in 1 .. n |-> MeshAt(buffer, ends[i - 1])]]
        BY <1>2, <2>3, <3>1, <3>2, LoadIs
      <3> HIDE DEF ends
      <3>5. \E i \in 1 .. n : ends[i] > length
        BY <1>1, <2>1, <2>2, <3>2, <3>3, EndsPlaced
      <3> QED
        BY <3>4, <3>5
    <2>6. getResource(buffer) = IF length = 0 THEN NoResource ELSE Throws
      BY <2>1, <2>3, <2>4, <2>5 DEF getResource
    <2> QED
      BY <2>6 DEF buffer
  <1>7. getResource(file) = Counted(resource)
    BY <1>3, <1>4, <1>5 DEF getResource, ResourceHeader
  <1> QED
    BY <1>6, <1>7 DEF ResourceLoads, NoPartLoads, file

-----------------------------------------------------------------------------
(* A model.                                                                 *)

AnyModel == [resource_id : Word, texture_ids : [1 .. TextureCount -> Word]]

\* The file of a model, whose body holds the ids of the textures.
ModelLayout(file, model) ==
    /\ file \in Seq(Byte) /\ Len(file) = 7 + 2 * TextureCount
    /\ file[1] = LetterG /\ file[2] = LetterK /\ file[3] = LetterM /\ file[4] = 0
    /\ Holds(file, 4, WordBytes(model.resource_id))
    /\ \A i \in 1 .. TextureCount : Holds(file, 4 + 2 * i, WordBytes(model.texture_ids[i]))

LEMMA ModelIsLaidOut ==
    ASSUME NEW model \in AnyModel
    PROVE  ModelLayout(ModelBytes(model), model)
  <1> DEFINE n == TextureCount
             header == <<LetterG, LetterK, LetterM, 0>>
             id == WordBytes(model.resource_id)
             s == [i \in 1 .. n |-> WordBytes(model.texture_ids[i])]
             off == [i \in 0 .. n |-> 2 * i]
             body == FlattenSeq(s)
             begin == header \o id
             most == begin \o body
             file == most \o <<0>>
  <1>1. /\ n \in Nat /\ model.resource_id \in Word
        /\ \A i \in 1 .. n : model.texture_ids[i] \in Word
    BY FormatAssumption DEF AnyModel
  <1>2. ModelBytes(model) = file
    BY DEF ModelBytes
  <1>3. \A i \in 1 .. n : s[i] = WordBytes(model.texture_ids[i])
    OBVIOUS
  <1>4. s \in [1 .. n -> Seq(Byte)]
    BY <1>1, WordBytesFacts
  <1>5. \A i \in 1 .. n : Len(s[i]) = 2
    BY <1>1, <1>3, WordBytesFacts
  <1>6. off \in [0 .. n -> Nat] /\ \A i \in 0 .. n : off[i] = 2 * i
    OBVIOUS
  <1> HIDE DEF s, off, n
  <1>7. Offsets(s, n, off)
    <2>1. ASSUME NEW i \in 1 .. n PROVE off[i] = off[i - 1] + Len(s[i])
      <3>1. i \in 0 .. n /\ i - 1 \in 0 .. n
        BY <1>1
      <3>2. off[i] = 2 * i /\ off[i - 1] = 2 * (i - 1) /\ Len(s[i]) = 2
        BY <1>5, <1>6, <3>1
      <3> QED
        BY <3>2
    <2>2. 0 \in 0 .. n
      BY <1>1
    <2> QED
      BY <1>6, <2>1, <2>2 DEF Offsets
  <1>8. Flattened(Byte, s, n, off)
    BY <1>1, <1>4, <1>7, FlattenAt
  <1>9. /\ body \in Seq(Byte) /\ Len(body) = 2 * n
        /\ \A i \in 1 .. n : \A j \in 1 .. Len(s[i]) : body[off[i - 1] + j] = s[i][j]
    <2>1. /\ body \in Seq(Byte) /\ Len(body) = off[n]
          /\ \A i \in 1 .. n : \A j \in 1 .. Len(s[i]) : body[off[i - 1] + j] = s[i][j]
      BY <1>8 DEF Flattened
    <2>2. n \in 0 .. n
      BY <1>1
    <2> QED
      BY <1>6, <2>1, <2>2
  <1> HIDE DEF body
  <1>10. {LetterG, LetterK, LetterM, 0} \subseteq Byte
    BY FormatAssumption, Sizes DEF Byte
  <1>11. /\ header \in Seq(Byte) /\ Len(header) = 4
         /\ header[1] = LetterG /\ header[2] = LetterK /\ header[3] = LetterM
         /\ header[4] = 0
    BY <1>10
  <1>12. id \in Seq(Byte) /\ Len(id) = 2
    BY <1>1, WordBytesFacts
  <1>13. <<0>> \in Seq(Byte) /\ Len(<<0>>) = 1
    BY <1>10
  <1> HIDE DEF header, id
  <1>14. Behind(Byte, header, id)
    BY <1>11, <1>12, ConcatAt
  <1>15. begin \in Seq(Byte) /\ Len(begin) = 6
    BY <1>11, <1>12, <1>14 DEF Behind
  <1> HIDE DEF begin
  <1>16. Behind(Byte, begin, body)
    BY <1>9, <1>15, ConcatAt
  <1>17. most \in Seq(Byte) /\ Len(most) = 6 + 2 * n
    BY <1>9, <1>15, <1>16 DEF Behind
  <1> HIDE DEF most
  <1>18. Behind(Byte, most, <<0>>)
    BY <1>13, <1>17, ConcatAt
  <1>19. file \in Seq(Byte) /\ Len(file) = 7 + 2 * n
    <2>1. file \in Seq(Byte) /\ Len(file) = (6 + 2 * n) + 1
      BY <1>13, <1>17, <1>18 DEF Behind
    <2> HIDE DEF file
    <2> QED
      BY <1>1, <2>1
  <1>20. \A j \in 1 .. 6 + 2 * n : file[j] = most[j]
    BY <1>17, <1>18 DEF Behind
  <1> HIDE DEF file
  <1>21. \A j \in 1 .. 6 : file[j] = begin[j]
    <2>1. \A j \in 1 .. 6 : most[j] = begin[j]
      BY <1>15, <1>16 DEF Behind, most
    <2>2. \A j \in 1 .. 6 : j \in 1 .. 6 + 2 * n
      BY <1>1
    <2> QED
      BY <1>20, <2>1, <2>2
  <1>22. \A j \in 1 .. 2 * n : file[6 + j] = body[j]
    <2>1. \A j \in 1 .. 2 * n : most[6 + j] = body[j]
      BY <1>9, <1>15, <1>16 DEF Behind, most
    <2>2. \A j \in 1 .. 2 * n : 6 + j \in 1 .. 6 + 2 * n
      BY <1>1
    <2> QED
      BY <1>20, <2>1, <2>2
  <1>23. /\ file[1] = LetterG /\ file[2] = LetterK /\ file[3] = LetterM /\ file[4] = 0
    <2>1. \A j \in 1 .. 4 : begin[j] = header[j]
      BY <1>11, <1>12, <1>14 DEF Behind, begin
    <2> QED
      BY <1>11, <1>21, <2>1
  <1>24. Holds(file, 4, id)
    <2>1. begin[4 + 1] = id[1] /\ begin[4 + 2] = id[2]
      BY <1>11, <1>12, <1>14 DEF Behind, begin
    <2>2. \A j \in 1 .. Len(id) : j = 1 \/ j = 2
      BY <1>12
    <2> QED
      BY <1>21, <2>1, <2>2 DEF Holds
  <1>25. ASSUME NEW i \in 1 .. n
         PROVE  Holds(file, 4 + 2 * i, WordBytes(model.texture_ids[i]))
    <2>1. ASSUME NEW j \in 1 .. Len(s[i]) PROVE file[(4 + 2 * i) + j] = s[i][j]
      <3>1. j \in 1 .. 2 /\ i - 1 \in 0 .. n
        <4>1. Len(s[i]) = 2
          BY <1>5
        <4> QED
          BY <1>1, <4>1
      <3>2. /\ 2 * (i - 1) + j \in 1 .. 2 * n
            /\ (4 + 2 * i) + j = 6 + (2 * (i - 1) + j)
        BY <1>1, <3>1
      <3>3. body[off[i - 1] + j] = s[i][j] /\ off[i - 1] = 2 * (i - 1)
        BY <1>6, <1>9, <3>1
      <3> QED
        BY <1>22, <3>2, <3>3
    <2> QED
      BY <1>3, <2>1 DEF Holds
  <1> QED
    BY <1>2, <1>19, <1>23, <1>24, <1>25 DEF ModelLayout, n, id

\* The bytes of a model load as that model, and fewer of them are refused but for the
\* last one.
LEMMA ModelFacts ==
    ASSUME NEW model \in AnyModel
    PROVE  ModelLoads(model) /\ NoModelPartLoads(model)
  <1> DEFINE file == ModelBytes(model)
  <1>1. ModelLayout(file, model)
    BY ModelIsLaidOut
  <1>2. /\ TextureCount \in Nat /\ model.resource_id \in Word
        /\ \A i \in 1 .. TextureCount : model.texture_ids[i] \in Word
        /\ model = [resource_id |-> model.resource_id, texture_ids |-> model.texture_ids]
        /\ model.texture_ids = [i \in 1 .. TextureCount |-> model.texture_ids[i]]
    BY FormatAssumption DEF AnyModel
  <1> HIDE DEF file
  <1>3. file \in Seq(Byte) /\ Len(file) = 7 + 2 * TextureCount
    BY <1>1 DEF ModelLayout
  <1>4. LoadModel(file) = model
    <2>1. SubSeq(file, 1, ModelHeader) = <<LetterG, LetterK, LetterM, 0>>
      <3>1. Part(SubSeq(file, 1, 4), file, 4)
        <4>1. 4 \in 0 .. Len(file)
          BY <1>2, <1>3
        <4> QED
          BY <1>3, <4>1, PartOf
      <3> DEFINE t == SubSeq(file, 1, 4)
      <3>2. t \in Seq(Byte) /\ Len(t) = 4 /\ t[1] = LetterG /\ t[2] = LetterK
              /\ t[3] = LetterM /\ t[4] = 0
        BY <1>1, <3>1 DEF Part, ModelLayout
      <3> HIDE DEF t
      <3>3. t = <<LetterG, LetterK, LetterM, 0>>
        BY <3>2
      <3> QED
        BY <3>3 DEF t, ModelHeader
    <2>2. ~ (Len(file) < ModelHeader + 2 + 2 * TextureCount)
      BY <1>2, <1>3 DEF ModelHeader
    <2>3. WordAt(file, 4) = model.resource_id
      BY <1>1, <1>2, WordIsRead DEF ModelLayout
    <2>4. ASSUME NEW i \in 1 .. TextureCount
          PROVE  WordAt(file, 4 + 2 * i) = model.texture_ids[i]
      <3>1. 4 + 2 * i \in Nat
        BY <1>2
      <3>2. Holds(file, 4 + 2 * i, WordBytes(model.texture_ids[i]))
        BY <1>1 DEF ModelLayout
      <3> QED
        BY <1>2, <3>1, <3>2, WordIsRead
    <2>5. [i \in 1 .. TextureCount |-> WordAt(file, 4 + 2 * i)] = model.texture_ids
      BY <1>2, <2>4
    <2> QED
      BY <1>2, <2>1, <2>2, <2>3, <2>5 DEF LoadModel, ModelHeader
  <1>5. ASSUME NEW length \in 0 .. Len(file) - 2
        PROVE  getModel(SubSeq(file, 1, length))
                    = IF length = 0 THEN NoModel ELSE Throws
    <2>1. length \in 0 .. Len(file) /\ length < 4 + 2 + 2 * TextureCount
      BY <1>2, <1>3
    <2>2. Part(SubSeq(file, 1, length), file, length)
      BY <1>3, <2>1, PartOf
    <2> DEFINE buffer == SubSeq(file, 1, length)
    <2>3. Len(buffer) < ModelHeader + 2 + 2 * TextureCount /\ Len(buffer) = length
      BY <2>1, <2>2 DEF Part, ModelHeader
    <2> HIDE DEF buffer
    <2>4. LoadModel(buffer) = Throws
      BY <2>3 DEF LoadModel
    <2>5. getModel(buffer) = IF length = 0 THEN NoModel ELSE Throws
      BY <2>1, <2>3, <2>4 DEF getModel
    <2> QED
      BY <2>5 DEF buffer
  <1>6. getModel(file) = model
    BY <1>2, <1>3, <1>4 DEF getModel
  <1> QED
    BY <1>5, <1>6 DEF ModelLoads, NoModelPartLoads, file

-----------------------------------------------------------------------------
(* What the files of resources and models hold.                             *)

Contents(k) ==
    {Torn} \cup (IF k = "resource" THEN AllResources \cap Resource ELSE AllModels)

Keeps(f, k) == \A id \in DOMAIN f : f[id] \in Contents(k)

SavedKinds == {"resource", "model"}
SavedInv == \A k \in SavedKinds : Keeps(files[k], k) /\ Keeps(known(k), k)

LEMMA ReadableIsResource ==
    ASSUME NEW i \in Inputs, NEW path \in DOMAIN i.object, Readable(i.object[path])
    PROVE  ResourceOf(i.object[path]) \in Contents("resource")
  <1> DEFINE o == i.object[path]
             n == Len(o.uses)
             mesh(j) == [relative_texture_id |-> Relative(o, j - 1),
                         vertices |-> o.vertices[j - 1]]
  <1>1. /\ o \in Range(i.object) /\ o.uses \in Seq(Int)
        /\ \A m \in Range(o.uses) : o.vertices[m] \in Seq(Vertex)
    BY InputsAssumption DEF Range
  <1>2. ResourceOf(o) \in AllResources
    BY <1>1 DEF AllResources
  <1> HIDE DEF o
  <1>3. n \in Nat /\ n < ByteSize /\ DOMAIN o.uses = 1 .. n /\ Range(o.uses) = 0 .. n - 1
    <2>1. n \in Nat /\ DOMAIN o.uses = 1 .. n
      BY <1>1, LenProperties
    <2>2. n <= TextureCount /\ Range(o.uses) = 0 .. n - 1
      BY DEF Readable, o
    <2> QED
      BY <2>1, <2>2, PackerAssumption, FormatAssumption, Sizes
  <1>4. ASSUME NEW j \in 1 .. n PROVE mesh(j) \in Mesh
    <2>1. j - 1 \in Range(o.uses)
      BY <1>3
    <2>2. o.vertices[j - 1] \in Seq(Vertex)
      BY <1>1, <2>1
    <2>3. Relative(o, j - 1) \in 0 .. ByteSize - 1
      <3>1. Relative(o, j - 1) + 1 \in DOMAIN o.uses
            /\ Relative(o, j - 1) + 1 \in 1 .. TextureCount
        BY <1>1, <2>1, RelativeFacts DEF o
      <3>2. Relative(o, j - 1) \in Int
        <4> DEFINE c == CHOOSE k \in DOMAIN o.uses : o.uses[k] = j - 1
        <4>1. c \in DOMAIN o.uses
          BY <2>1 DEF Range
        <4>2. Relative(o, j - 1) = c - 1
          BY DEF Relative
        <4> HIDE DEF c
        <4> QED
          BY <1>3, <4>1, <4>2
      <3> QED
        BY <1>3, <3>1, <3>2, Sizes
    <2> QED
      BY <2>2, <2>3 DEF Mesh
  <1>5. ResourceOf(o) = [meshes |-> [j \in 1 .. n |-> mesh(j)]]
    BY <1>3 DEF ResourceOf
  <1>6. /\ [j \in 1 .. n |-> mesh(j)] \in Seq(Mesh)
        /\ Len([j \in 1 .. n |-> mesh(j)]) = n
    <2> HIDE DEF mesh, n
    <2>1. [j \in 1 .. n |-> mesh(j)] \in [1 .. n -> Mesh]
      BY <1>4
    <2> QED
      BY <1>3, <2>1
  <1>7. ResourceOf(o) \in Resource
    <2> DEFINE meshes == [j \in 1 .. n |-> mesh(j)]
    <2>1. meshes \in Seq(Mesh) /\ Len(meshes) < ByteSize
      BY <1>3, <1>6
    <2>2. ResourceOf(o) = [meshes |-> meshes]
      BY <1>5
    <2> HIDE DEF meshes
    <2> QED
      BY <2>1, <2>2 DEF Resource
  <1> QED
    BY <1>2, <1>7 DEF Contents, o

LEMMA ModelIsModel ==
    ASSUME PackerInv, NEW object, NEW id \in Ids
    PROVE  ModelOf(object, id) \in AllModels
  <1>1. 0 \in Ids
    BY PackerAssumption DEF Ids
  <1>2. \A path : TextureId(path) \in Ids
    BY <1>1 DEF TextureId, PackerInv, PackerTypeOK, CacheTypeOK, Kinds
  <1> QED
    BY <1>1, <1>2 DEF ModelOf, AllModels

LEMMA SavedKept == PackerInv /\ SavedInv /\ [PackerNext]_packerVars => SavedInv'
  <1> SUFFICES ASSUME PackerInv, SavedInv, [PackerNext]_packerVars,
                      NEW k \in SavedKinds
               PROVE  Keeps(files'[k], k) /\ Keeps(known(k)', k)
    BY DEF SavedInv, Keeps, Contents, AllResources, AllModels
  <1>1. Keeps(files[k], k) /\ Keeps(known(k), k) /\ Keeps(<<>>, k) /\ k \in Kinds
    BY EmptyFacts DEF SavedInv, SavedKinds, Keeps, Kinds
  <1>2. /\ files = [j \in Kinds |-> files[j]] /\ cache = [j \in Kinds |-> cache[j]]
        /\ \A j \in Kinds : CacheTypeOK(cache[j])
        /\ \A j \in Kinds : IsFunction(files[j]) /\ DOMAIN files[j] \subseteq Ids
    BY DEF PackerInv, PackerTypeOK, IsFunction
  <1>3. CASE UNCHANGED packerVars \/ Advance
    <2>1. files' = files /\ cache' = cache
      BY <1>3 DEF packerVars, Advance
    <2> QED
      BY <1>1, <2>1 DEF known
  <1>4. ASSUME cache' = [j \in Kinds |-> EmptyCache] PROVE known(k)' = <<>>
    BY <1>1, <1>4, EmptyCacheFacts DEF known
  <1>5. CASE Start
    BY <1>1, <1>4, <1>5 DEF Start
  <1>6. CASE Scan
    <2>1. PICK id \in todo :
            /\ cache' = [cache EXCEPT ![Kind] = AddCached(@, id, files[Kind][id])]
            /\ files' = files
      BY <1>6 DEF Scan
    <2>2. Kind \in Kinds /\ id \in DOMAIN files[Kind] /\ id \in Ids
      BY <1>6, StepsFacts, VisitsFacts
      DEF Scan, Doing, Running, Kind, Kinds, VisitsTable, PackerInv, PackerTypeOK
    <2>3. CASE k # Kind
      BY <1>1, <1>2, <2>1, <2>2, <2>3 DEF known
    <2>4. CASE k = Kind
      <3> DEFINE d == AddCached(cache[k], id, files[k][id])
      <3>1. cache'[k] = d
        BY <1>1, <1>2, <2>1, <2>4
      <3>2. \/ d.known = cache[k].known
            \/ /\ DOMAIN d.known = DOMAIN cache[k].known \cup {id}
               /\ d.known[id] = files[k][id]
               /\ \A a \in DOMAIN cache[k].known \ {id} : d.known[a] = cache[k].known[a]
        BY <1>1, <1>2, <2>2, AddCachedFacts
      <3>3. files[k][id] \in Contents(k)
        BY <1>1, <2>2, <2>4 DEF Keeps
      <3> HIDE DEF d
      <3>4. Keeps(d.known, k)
        BY <1>1, <3>2, <3>3 DEF Keeps, known
      <3> QED
        BY <1>1, <2>1, <3>1, <3>4 DEF known
    <2> QED
      BY <2>3, <2>4
  <1>7. CASE AddTexture
    <2>1. files' = files
      BY <1>7 DEF AddTexture
    <2>2. \/ \E c : cache' = [cache EXCEPT !.texture = c]
          \/ cache' = [j \in Kinds |-> EmptyCache]
      BY <1>7 DEF AddTexture, Dies
    <2>3. k # "texture"
      BY DEF SavedKinds
    <2>4. cache'[k] = cache[k] \/ known(k)' = <<>>
      BY <1>1, <1>2, <1>4, <2>2, <2>3
    <2> QED
      BY <1>1, <2>1, <2>4 DEF known
  <1>8. CASE AddObject
    <2>1. files' = files
      BY <1>8 DEF AddObject
    <2>2. PICK path \in todo :
            LET object == input.object[path]
                resource == ResourceOf(object)
                model == ModelOf(object, ResourceIdGiven(resource))
            IN  \/ /\ Packable(object)
                   /\ cache' = [cache EXCEPT !.resource = AddNew(@, path, resource),
                                             !.model = AddNew(@, path, model)]
                \/ Dies
      BY <1>8 DEF AddObject
    <2>3. CASE Dies
      BY <1>1, <1>4, <2>1, <2>3 DEF Dies
    <2> DEFINE object == input.object[path]
               resource == ResourceOf(object)
               given == ResourceIdGiven(resource)
               model == ModelOf(object, given)
    <2>4. CASE /\ Packable(object)
               /\ cache' = [cache EXCEPT !.resource = AddNew(@, path, resource),
                                         !.model = AddNew(@, path, model)]
      <3>1. step = 7 /\ Running
        BY <1>8, StepsFacts DEF AddObject, Doing, Running, Kind
      <3>2. path \in DOMAIN input.object /\ path \in Nat /\ input \in Inputs
        BY <3>1, VisitsFacts, InputsAssumption DEF VisitsTable, PackerInv, PackerTypeOK
      <3>3. /\ Readable(object) /\ CanAdd(cache["resource"], resource)
            /\ CanAdd(cache["model"], model)
        BY <2>4 DEF Packable
      <3>4. resource \in Contents("resource")
        BY <3>2, <3>3, ReadableIsResource
      <3>5. given \in Ids
        <4>1. 0 \in Ids /\ CacheTypeOK(cache["resource"])
          BY <1>2, PackerAssumption DEF Ids, Kinds
        <4>2. CASE resource \in Range(cache["resource"].known)
          BY <4>1, <4>2 DEF ResourceIdGiven
        <4>3. CASE resource \notin Range(cache["resource"].known)
          <5>1. Untried(cache["resource"]) # {}
            BY <3>3, <4>3 DEF CanAdd
          <5>2. GivenId(cache["resource"]) \in Ids
            BY <4>1, <5>1, GivenIdFacts
          <5> QED
            BY <4>3, <5>2 DEF ResourceIdGiven
        <4> QED
          BY <4>2, <4>3
      <3>6. model \in Contents("model")
        BY <3>5, ModelIsModel DEF Contents
      <3> HIDE DEF model, given, resource
      <3>7. PICK content \in Contents(k) :
                /\ CanAdd(cache[k], content)
                /\ cache'[k] = AddNew(cache[k], path, content)
        <4>1. CASE k = "resource"
          BY <1>2, <2>4, <3>3, <3>4, <4>1 DEF Kinds
        <4>2. CASE k = "model"
          BY <1>2, <2>4, <3>3, <3>6, <4>2 DEF Kinds
        <4> QED
          BY <4>1, <4>2 DEF SavedKinds
      <3> DEFINE d == AddNew(cache[k], path, content)
      <3>8. /\ d.known[d.paths[path]] = content
            /\ DOMAIN d.known = DOMAIN cache[k].known \cup {d.paths[path]}
            /\ \A a \in DOMAIN cache[k].known : d.known[a] = cache[k].known[a]
        BY <1>1, <1>2, <3>2, <3>7, AddNewFacts
      <3> HIDE DEF d
      <3>9. Keeps(d.known, k)
        BY <1>1, <3>7, <3>8 DEF Keeps, known
      <3> QED
        BY <1>1, <2>1, <3>7, <3>9 DEF known, d
    <2> QED
      BY <2>2, <2>3, <2>4
  <1>9. CASE RemoveFile
    <2>1. /\ files' = [files EXCEPT ![Kind] = Restrict(@, DOMAIN @ \ {Min(todo)})]
          /\ cache' = cache /\ Kind \in Kinds
      BY <1>9, StepsFacts DEF RemoveFile, Doing, Running, Kind, Kinds
    <2>2. files'[k] = files[k] \/ files'[k] = Restrict(files[k], DOMAIN files[k] \ {Min(todo)})
      BY <1>1, <1>2, <2>1
    <2>3. Keeps(files'[k], k)
      BY <1>1, <2>2 DEF Keeps, Restrict
    <2> QED
      BY <1>1, <2>1, <2>3 DEF known
  <1>10. ASSUME Doing("write"), todo # {}, NEW content,
                \A id \in Ids : id \in DOMAIN known(Kind) /\ Kind = k
                                    => content[id] \in Contents(k)
         PROVE  Keeps(Written(content)[k], k)
    <2> DEFINE id == paths(Kind)[Min(todo)]
               w == Written(content)
    <2>1. /\ Kind \in Kinds /\ id \in DOMAIN known(Kind) /\ id \in Ids
          /\ \A j \in Kinds \ {Kind} : w[j] = files[j]
          /\ DOMAIN w[Kind] = DOMAIN files[Kind] \cup ({id} \cap fresh(Kind))
          /\ \A x \in DOMAIN w[Kind] :
                w[Kind][x] = IF x = id /\ id \in fresh(Kind) THEN content[id]
                                                             ELSE files[Kind][x]
      BY <1>10, WrittenFacts
    <2> HIDE DEF w, id
    <2>2. CASE k # Kind
      BY <1>1, <2>1, <2>2 DEF w
    <2>3. CASE k = Kind
      <3>1. content[id] \in Contents(k)
        BY <1>10, <2>1, <2>3
      <3>2. Keeps(w[k], k)
        BY <1>1, <2>1, <2>3, <3>1 DEF Keeps
      <3> QED
        BY <3>2 DEF w
    <2> QED
      BY <2>2, <2>3
  <1>11. CASE WriteFile
    <2>1. /\ files' = Written(known(Kind)) /\ cache' = cache
          /\ Doing("write") /\ todo # {}
      BY <1>11 DEF WriteFile, known
    <2>2. \A id \in Ids : id \in DOMAIN known(Kind) /\ Kind = k
                                => known(Kind)[id] \in Contents(k)
      BY <1>1 DEF Keeps
    <2>3. Keeps(Written(known(Kind))[k], k)
      BY <1>10, <2>1, <2>2
    <2> QED
      BY <1>1, <2>1, <2>3 DEF known
  <1>12. CASE Crash
    <2> DEFINE torn == [id \in Ids |-> Torn]
    <2>1. /\ cache' = [j \in Kinds |-> EmptyCache]
          /\ files' = files \/ (files' = Written(torn) /\ Doing("write") /\ todo # {})
      BY <1>12 DEF Crash, Dies
    <2>2. \A id \in Ids : torn[id] \in Contents(k)
      BY DEF Contents
    <2> HIDE DEF torn
    <2>3. Keeps(files'[k], k)
      BY <1>1, <1>10, <2>1, <2>2
    <2> QED
      BY <1>1, <1>4, <2>1, <2>3
  <1> QED
    BY <1>3, <1>5, <1>6, <1>7, <1>8, <1>9, <1>11, <1>12 DEF PackerNext, PackerStep

LEMMA SavedAtFirst == PackerInit => SavedInv
  <1> SUFFICES ASSUME PackerInit, NEW k \in SavedKinds
               PROVE  Keeps(files[k], k) /\ Keeps(known(k), k)
    BY DEF SavedInv
  <1>1. known(k) = <<>>
    BY EmptyCacheFacts DEF PackerInit, known, SavedKinds, Kinds
  <1>2. /\ files \in FirstFiles /\ DOMAIN files.model = {}
        /\ Range(files.resource) \subseteq Resource \cup {Torn}
    BY FirstFilesAssumption DEF PackerInit
  <1>3. \A id \in DOMAIN files.resource : files.resource[id] \in Contents("resource")
    BY <1>2 DEF Contents, AllResources, Range
  <1> QED
    BY <1>1, <1>2, <1>3, EmptyFacts DEF Keeps, SavedKinds

LEMMA SavedInvLoads == SavedInv => LoadsWhatWasSaved /\ NoPartIsShown
  <1> SUFFICES ASSUME SavedInv PROVE LoadsWhatWasSaved /\ NoPartIsShown
    OBVIOUS
  <1>1. \A r \in AllResources \cap Resource : ResourceLoads(r) /\ NoPartLoads(r)
    BY ResourceFacts
  <1>2. ASSUME NEW m \in AllModels PROVE ModelLoads(m) /\ NoModelPartLoads(m)
    <2>1. Ids \subseteq Word
      BY PackerAssumption, Sizes DEF Ids, Word
    <2>2. m \in AnyModel
      BY <2>1 DEF AllModels, AnyModel
    <2> QED
      BY <2>2, ModelFacts
  <1>3. \A id \in DOMAIN files.resource :
            files.resource[id] \in (AllResources \cap Resource) \cup {Torn}
    BY DEF SavedInv, SavedKinds, Keeps, Contents
  <1>4. \A id \in DOMAIN files.model : files.model[id] \in AllModels \cup {Torn}
    BY DEF SavedInv, SavedKinds, Keeps, Contents
  <1>5. LoadsWhatWasSaved
    BY <1>1, <1>2, <1>3, <1>4 DEF LoadsWhatWasSaved, GoodResources, GoodModels, Range
  <1>6. NoPartIsShown
    BY <1>1, <1>2, <1>3, <1>4 DEF NoPartIsShown, WholeOrNoResources, WholeOrNoModels, Range
  <1> QED
    BY <1>5, <1>6

-----------------------------------------------------------------------------

\* The packer's files and its caches in memory agree as PackerInv says.
THEOREM PackerInvHolds == PackerSpec => []PackerInv
  BY InitInv, PackerInvKept, PTL DEF PackerSpec

\* Whatever directories are packed, however often, and wherever the packer dies, each
\* model that is there whole names textures and a resource that are there and whole
\* (res_packer.cpp start(), texture_cache.cpp and model_cache.cpp updateCache).
THEOREM ModelsAlwaysOpen == PackerSpec => []ModelsOpen
  BY PackerInvHolds, PackerInvOpens, PTL

\* What a model shows does not change while its file stays, whatever is packed and
\* wherever the packer dies, as long as no run gives away all the ids of resources:
\* the id after the last is 0, which a model also has when its resource was there
\* already (model_cache.cpp getNextResourceId, loadResource).
THEOREM ModelsKeepMeaning == PackerSpec /\ []IdsLast => ModelKeepsMeaning
  <1>1. PackerSpec /\ []IdsLast => []ZeroIsEmpty
    BY PackerInvHolds, NoModelAtFirst, ZeroIsEmptyKept, PTL DEF PackerSpec
  <1>2. PackerInv /\ [PackerNext]_packerVars /\ ZeroIsEmpty /\ ZeroIsEmpty' =>
            [\A id \in WholeModels \cap WholeModels' :
                /\ files'.model[id] = files.model[id]
                /\ Shown(files.model[id])' = Shown(files.model[id])]_packerVars
    BY StepKeepsNamed, ShownKept
  <1> QED
    BY PackerInvHolds, <1>1, <1>2, PTL DEF PackerSpec, ModelKeepsMeaning

\* A run that ends well has packed everything: whatever the runs before it left
\* half done and whatever the directories had, the caches hold every texture and every
\* object of the input under the ids that models name, and no content twice
\* (res_packer.cpp start()).
THEOREM AllIsPacked == PackerSpec => []EverythingPacked
  <1>1. PackerInit => PackedInv
    BY DEF PackerInit, PackedInv
  <1>2. PackerSpec => []PackedInv
    BY <1>1, PackedKept, PackerInvHolds, PTL DEF PackerSpec
  <1> QED
    BY <1>2, PackerInvHolds, PackedInvPacks, PTL

\* The files of resources and models hold what a packer saved, or were cut off.
THEOREM SavedInvHolds == PackerSpec => []SavedInv
  BY SavedAtFirst, SavedKept, PackerInvHolds, PTL DEF PackerSpec

\* Whatever is packed, each file of a resource or a model loads as what was saved
\* (gkm_model/model.h saveResource and loadResource, saveModel and loadModel).
THEOREM AllLoads == PackerSpec => []LoadsWhatWasSaved
  BY SavedInvHolds, SavedInvLoads, PTL

\* Wherever a write is cut off, the client throws or shows nothing, but never a part
\* (gkm_model/model.h readByte, bgfx_model_cache.cpp getResource, getModel).
THEOREM NoPartEverShown == PackerSpec => []NoPartIsShown
  BY SavedInvHolds, SavedInvLoads, PTL
===============================================================================
