------------------------------- MODULE ResPacker -------------------------------
(***************************************************************************)
(* The resource packer.  It reads the .jpg and .obj files of an input      *)
(* directory and keeps three output directories, its caches: textures,     *)
(* resources (geometry) and models (a resource and the textures of its     *)
(* meshes), each with one file per content, named by a 16-bit id.  What a  *)
(* directory has is read again by every run: nothing else is kept.         *)
(*                                                                         *)
(* A step handles one file.  The process may die in any of them, and the   *)
(* file it is writing is then cut off.  Contents are compared by a 64-bit  *)
(* hash in the code and by equality here.  A file is called %08d of its id, *)
(* so that here the name of a file of a cache is its id.                   *)
(*                                                                         *)
(* Files are written whole unless the process dies: a disk that is full is *)
(* left out.                                                               *)
(***************************************************************************)
EXTENDS GkmModel

CONSTANTS
    Inputs,       \* the input directories a user may pack
    FirstFiles,   \* what the caches may have before the first run
    MaxId,        \* the largest 16-bit number
    MaxRuns,      \* bound: the packer is started so many times
    MaxCrashes,   \* bound: so many runs die half way
    Torn          \* a file that was cut off; two of them may be equal

ASSUME PackerAssumption ==
    /\ TextureCount > 0 /\ TextureCount < ByteSize
    /\ MaxId \in Nat \ {0} /\ MaxId < WordSize
    /\ {MaxRuns, MaxCrashes} \subseteq Nat

VARIABLES
    files,     \* what each cache directory has: a content for each id
    input,     \* the input directory of this run
    step,      \* how far start() is: an index of Steps, 0: not running
    todo,      \* the files the current step still has to handle
    cache,     \* the three caches in the memory of the process
    runs,
    crashes

packerVars == <<files, input, step, todo, cache, runs, crashes>>

Kinds == {"texture", "resource", "model"}
Ids == 0 .. MaxId

-----------------------------------------------------------------------------
(* One cache in memory.  id_to_..._info and hash_to_..._info are filled     *)
(* together: known is both.  file_path_to_..._info is paths, with the id    *)
(* for the info, and the infos that are not cached are fresh.               *)

EmptyCache == [known |-> <<>>, fresh |-> {}, paths |-> <<>>, remove |-> {},
               next |-> 1]

\* emplace, or a file written: x is not there
Put(f, x, value) == [y \in DOMAIN f \cup {x} |-> IF y = x THEN value ELSE f[y]]

IdOf(c, content) == CHOOSE id \in DOMAIN c.known : c.known[id] = content

\* addCachedTexture, and addResource and addModel of what is cached.  No two
\* files have one id, so that nothing "is always present".
AddCached(c, id, content) ==
    IF id = 0 \/ content \in Range(c.known)
    THEN [c EXCEPT !.remove = @ \cup {id}]
    ELSE [c EXCEPT !.known = Put(@, id, content)]

\* getNextTextureId and its like try the ids from next on: one that is not known,
\* or none and the process throws
Untried(c) == (c.next .. MaxId) \ DOMAIN c.known

\* MUTANT of GivenId: ids are given in turn, those of the cache too.
MutantIdsReused(c) == c.next

GivenId(c) == Min(Untried(c))

\* a path meets its content again, and its info
AddKnown(c, path, content) ==
    [c EXCEPT !.paths = Put(@, path, IdOf(c, content))]

AddFresh(c, path, content) ==
    LET id == GivenId(c)
    IN  [c EXCEPT !.known = Put(@, id, content),
                  !.fresh = @ \cup {id},
                  !.paths = Put(@, path, id),
                  !.next = (id + 1) % (MaxId + 1)]

\* addNewTexture, and addResource and addModel of what is new.  A directory has
\* a path once, so that no path is already there.
AddNew(c, path, content) ==
    IF content \in Range(c.known) THEN AddKnown(c, path, content)
                                  ELSE AddFresh(c, path, content)

CanAdd(c, content) == content \in Range(c.known) \/ Untried(c) # {}

-----------------------------------------------------------------------------
(* An object (.obj) has the materials its faces use in the order they first  *)
(* do, the path of a texture for each material, and the vertices of the faces *)
(* that use it.  A face may have no material: that is -1.  A file that is not *)
(* understood has no face.                                                   *)

\* A mesh per material is looked up by 0, 1, ...: one that is missing is a null
\* pointer, and saveMesh follows it.
Readable(object) ==
    /\ Len(object.uses) <= TextureCount
    /\ Range(object.uses) \subseteq DOMAIN object.names
    /\ Range(object.uses) = 0 .. Len(object.uses) - 1

\* relative_texture_id: the materials are numbered as they come
Relative(object, material) ==
    (CHOOSE i \in DOMAIN object.uses : object.uses[i] = material) - 1

ResourceOf(object) ==
    [meshes |-> [i \in DOMAIN object.uses |->
                    [relative_texture_id |-> Relative(object, i - 1),
                     vertices |-> object.vertices[i - 1]]]]

\* getTextureId
TextureId(path) ==
    IF path \in DOMAIN cache.texture.paths THEN cache.texture.paths[path] ELSE 0

\* MUTANT of ModelOf: textures are kept under the number of the material.
MutantByMaterial(object, resource_id) ==
    [resource_id |-> resource_id,
     texture_ids |->
        [i \in 1 .. TextureCount |->
            IF i - 1 \in Range(object.uses)
            THEN TextureId(object.names[i - 1]) ELSE 0]]

ModelOf(object, resource_id) ==
    [resource_id |-> resource_id,
     texture_ids |->
        [i \in 1 .. TextureCount |->
            IF i \in DOMAIN object.uses
            THEN TextureId(object.names[object.uses[i]]) ELSE 0]]

\* Paths have an order, and what a directory has is neither empty nor what a file
\* that was cut off could pass for.
ASSUME InputsAssumption ==
    \A i \in Inputs :
        /\ DOMAIN i.texture \cup DOMAIN i.object \subseteq Nat
        /\ \A t \in Range(i.texture) : t \notin {<<>>, Torn}
        /\ \A o \in Range(i.object) :
            /\ o.uses \in Seq(Int)
            /\ \A m \in Range(o.uses) : o.vertices[m] \in Seq(Vertex)
            /\ Readable(o) => ResourceOf(o) # Torn

\* Before the first run there may be files in the caches, but no models.  Those
\* of resources were saved by a packer.
ASSUME FirstFilesAssumption ==
    \A f \in FirstFiles :
        /\ f = [k \in Kinds |-> [id \in DOMAIN f[k] |-> f[k][id]]]
        /\ \A k \in Kinds : DOMAIN f[k] \subseteq Ids
        /\ Range(f.resource) \subseteq Resource \cup {Torn}
        /\ DOMAIN f.model = {}

\* addResource sets the resource_id of a new info only when its content is new;
\* it is 0 otherwise
ResourceIdGiven(content) ==
    IF content \in Range(cache.resource.known) THEN 0 ELSE GivenId(cache.resource)

-----------------------------------------------------------------------------
(* start() in steps.  Directories are read in any order, the paths of a map *)
(* or a set in theirs.                                                      *)

\* MUTANT of Steps: the models are written before the resources.
MutantModelsFirst ==
         <<[does |-> "scan",   kind |-> "texture"],
           [does |-> "add",    kind |-> "texture"],
           [does |-> "remove", kind |-> "texture"],
           [does |-> "write",  kind |-> "texture"],
           [does |-> "scan",   kind |-> "resource"],
           [does |-> "scan",   kind |-> "model"],
           [does |-> "add",    kind |-> "object"],
           [does |-> "remove", kind |-> "model"],
           [does |-> "write",  kind |-> "model"],
           [does |-> "remove", kind |-> "resource"],
           [does |-> "write",  kind |-> "resource"]>>

Steps == <<[does |-> "scan",   kind |-> "texture"],
           [does |-> "add",    kind |-> "texture"],
           [does |-> "remove", kind |-> "texture"],
           [does |-> "write",  kind |-> "texture"],
           [does |-> "scan",   kind |-> "resource"],
           [does |-> "scan",   kind |-> "model"],
           [does |-> "add",    kind |-> "object"],
           [does |-> "remove", kind |-> "resource"],
           [does |-> "write",  kind |-> "resource"],
           [does |-> "remove", kind |-> "model"],
           [does |-> "write",  kind |-> "model"]>>

Running == step \in DOMAIN Steps
Done == step = Len(Steps) + 1
Doing(does) == Running /\ Steps[step].does = does
Kind == Steps[step].kind

\* what a step visits
Visits(s) ==
    CASE s.does = "scan" -> DOMAIN files[s.kind]
      [] s.does = "add" -> DOMAIN input[s.kind]
      [] s.does = "remove" -> cache[s.kind].remove
      [] s.does = "write" -> DOMAIN cache[s.kind].paths

PackerInit ==
    /\ files \in FirstFiles
    /\ input \in Inputs
    /\ step = 0
    /\ todo = {}
    /\ cache = [k \in Kinds |-> EmptyCache]
    /\ runs = 0
    /\ crashes = 0

Start ==
    /\ ~ Running
    /\ runs < MaxRuns
    /\ runs' = runs + 1
    /\ input' \in Inputs
    /\ step' = 1
    /\ todo' = Visits(Steps[1])
    /\ cache' = [k \in Kinds |-> EmptyCache]
    /\ UNCHANGED <<files, crashes>>

Advance ==
    /\ Running
    /\ todo = {}
    /\ step' = step + 1
    /\ todo' = IF step = Len(Steps) THEN {} ELSE Visits(Steps[step + 1])
    /\ UNCHANGED <<files, input, cache, runs, crashes>>

Handled(f) ==
    /\ todo' = todo \ {f}
    /\ UNCHANGED <<input, step, runs, crashes>>

\* the constructors: loadCachedResources, loadCachedModels
Scan ==
    /\ Doing("scan")
    /\ \E id \in todo :
        /\ cache' = [cache EXCEPT ![Kind] = AddCached(@, id, files[Kind][id])]
        /\ Handled(id)
    /\ UNCHANGED files

\* the process ends before it has written anything of what comes later
Dies ==
    /\ step' = 0
    /\ todo' = {}
    /\ cache' = [k \in Kinds |-> EmptyCache]
    /\ UNCHANGED <<input, runs>>

\* loadNewTextures
AddTexture ==
    /\ Doing("add")
    /\ Kind = "texture"
    /\ \E path \in todo :
        LET picture == input.texture[path]
        IN  \/ /\ CanAdd(cache.texture, picture)
               /\ cache' = [cache EXCEPT !.texture = AddNew(@, path, picture)]
               /\ Handled(path)
            \/ /\ ~ CanAdd(cache.texture, picture)   \* "texture id overflow"
               /\ Dies
               /\ UNCHANGED crashes
    /\ UNCHANGED files

Packable(object) ==
    /\ Readable(object)
    /\ CanAdd(cache.resource, ResourceOf(object))
    /\ LET resource == ResourceOf(object)
       IN  CanAdd(cache.model, ModelOf(object, ResourceIdGiven(resource)))

\* loadNewModels
AddObject ==
    /\ Doing("add")
    /\ Kind = "object"
    /\ \E path \in todo :
        LET object == input.object[path]
            resource == ResourceOf(object)
            model == ModelOf(object, ResourceIdGiven(resource))
        IN  \/ /\ Packable(object)
               /\ cache' = [cache EXCEPT !.resource = AddNew(@, path, resource),
                                         !.model = AddNew(@, path, model)]
               /\ Handled(path)
            \/ /\ ~ Packable(object)
               /\ Dies
               /\ UNCHANGED crashes
    /\ UNCHANGED files

\* updateCache
RemoveFile ==
    /\ Doing("remove")
    /\ todo # {}
    /\ LET id == Min(todo)
       IN  /\ files' = [files EXCEPT ![Kind] =
                            Restrict(@, DOMAIN @ \ {id})]
           /\ Handled(id)
    /\ UNCHANGED cache

\* what the path of an info that is not cached has written in its place
Written(content) ==
    LET path == Min(todo)
        id == cache[Kind].paths[path]
    IN  IF id \in cache[Kind].fresh
        THEN [files EXCEPT ![Kind] = Put(@, id, content[id])]
        ELSE files

WriteFile ==
    /\ Doing("write")
    /\ todo # {}
    /\ files' = Written(cache[Kind].known)
    /\ Handled(Min(todo))
    /\ UNCHANGED cache

\* killed, or out of power: a file that was being written is cut off
Crash ==
    /\ Running
    /\ crashes < MaxCrashes
    /\ crashes' = crashes + 1
    /\ \/ files' = files
       \/ /\ Doing("write")
          /\ todo # {}
          /\ files' = Written([id \in Ids |-> Torn])
    /\ Dies

PackerStep == Advance \/ Scan \/ AddTexture \/ AddObject \/ RemoveFile \/ WriteFile

PackerNext == Start \/ PackerStep \/ Crash

PackerSpec == PackerInit /\ [][PackerNext]_packerVars
-----------------------------------------------------------------------------
(* What the client makes of a model (BgfxModelCache): a file that is not    *)
(* there is an empty resource or no texture.  One that is cut off is Torn:  *)
(* getResource says whether it throws or is an empty resource, too.         *)

Opened(kind, id) == IF id \in DOMAIN files[kind] THEN files[kind][id] ELSE <<>>

\* getModel, through getResource and getTexture; texture 0 is not asked for
Shown(model) ==
    [resource |-> Opened("resource", model.resource_id),
     textures |->
        [i \in 1 .. TextureCount |->
            IF model.texture_ids[i] = 0 THEN <<>>
            ELSE Opened("texture", model.texture_ids[i])]]

WholeModels == {id \in DOMAIN files.model : files.model[id] # Torn}

-----------------------------------------------------------------------------

\* What the files of resources and models may hold, and of that what comes back
\* from its bytes and never in part when some of them are missing.
AllResources ==
    {ResourceOf(o) :
        o \in {o \in UNION {Range(i.object) : i \in Inputs} : Readable(o)}}
        \cup UNION {Range(f.resource) : f \in FirstFiles}
AllModels == [resource_id : Ids, texture_ids : [1 .. TextureCount -> Ids]]

GoodResources == {r \in AllResources : ResourceLoads(r)}
GoodModels == {m \in AllModels : ModelLoads(m)}
WholeOrNoResources == {r \in AllResources : NoPartLoads(r)}
WholeOrNoModels == {m \in AllModels : NoModelPartLoads(m)}

\* Every file of a resource or a model loads as what was saved: nothing but the
\* layout of bytes connects the packer with the client (model.h).
LoadsWhatWasSaved ==
    /\ Range(files.resource) \subseteq GoodResources \cup {Torn}
    /\ Range(files.model) \subseteq GoodModels \cup {Torn}

\* Wherever the process dies in writing one of these files, the client shows no
\* part of it: it throws, or shows nothing of a file that has no byte yet.  So all
\* of these are one Torn here.
NoPartIsShown ==
    /\ Range(files.resource) \subseteq WholeOrNoResources \cup {Torn}
    /\ Range(files.model) \subseteq WholeOrNoModels \cup {Torn}

\* Whatever step the packer died in, a model that is there whole can be opened:
\* the textures and the resource it names are all there, and whole (updateCache
\* of the textures, then the resources, then the models).
ModelsOpen ==
    \A id \in WholeModels :
        LET model == files.model[id]
        IN  /\ model.resource_id # 0 => Opened("resource", model.resource_id)
                                            \notin {<<>>, Torn}
            /\ \A i \in 1 .. TextureCount :
                model.texture_ids[i] # 0 => Opened("texture", model.texture_ids[i])
                                                \notin {<<>>, Torn}

\* What a model shows never changes while its file stays, though directories are
\* edited, cut off and cleaned of duplicates run after run, and ids are reused
\* (getNextTextureId and its like, updateCache).  That is so as long as no run gives
\* away the last id of a resource: the next one is then 0, and a resource in file 0
\* is what every model shows that has resource_id 0 (here, with MaxId = 2).
ModelKeepsMeaning ==
    [][\A id \in WholeModels \cap WholeModels' :
            /\ files'.model[id] = files.model[id]
            /\ Shown(files.model[id])' = Shown(files.model[id])]_packerVars

TexturesPacked ==
    \A path \in DOMAIN input.texture :
        Opened("texture", TextureId(path)) = input.texture[path]

ModelsPacked ==
    \A path \in DOMAIN input.object :
        LET object == input.object[path]
            model == Opened("model", cache.model.paths[path])
        IN  /\ \A m \in Range(object.uses) :
                LET texture == model.texture_ids[Relative(object, m) + 1]
                IN  object.names[m] \in DOMAIN input.texture =>
                        Opened("texture", texture) = input.texture[object.names[m]]
            /\ ResourceOf(object) \in Range(files.resource)
            /\ model.resource_id # 0 =>
                    Opened("resource", model.resource_id) = ResourceOf(object)

NoDuplicates ==
    \A k \in Kinds : \A a, b \in DOMAIN files[k] \ {0} :
        files[k][a] = files[k][b] => a = b

\* A run that ends well, whatever the runs before it left half done, has every
\* texture of its input in the cache, under the id that models were given for it;
\* a model for every object, with the textures of its materials where its meshes
\* look for them, and with the resource of the object unless another object or run
\* had that already (loadResource, addModel); and no content in two files, nor the
\* file that was cut off more than once (addCachedTexture and its like).
EverythingPacked == Done => TexturesPacked /\ ModelsPacked /\ NoDuplicates
=============================================================================
