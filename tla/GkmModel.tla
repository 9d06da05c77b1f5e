------------------------------- MODULE GkmModel -------------------------------
(***************************************************************************)
(* The files of resources (.gkr) and models (.gkm), revision 0: how the    *)
(* packer saves them byte by byte and the client loads them, two sides  *)
(* that nothing but the layout connects.  Bytes are the numbers below      *)
(* ByteSize, 256 in the code; a float is the double word of its raw_data.  *)
(***************************************************************************)
EXTENDS Integers, SequencesExt

CONSTANTS
    ByteSize,         \* 256
    LetterG, LetterK, LetterR, LetterM,
    TextureCount,     \* Model::TEXTURE_COUNT
    Throws            \* "unexpected end of data", "wrong signature"

ASSUME FormatAssumption ==
    /\ ByteSize \in Nat \ {0, 1}
    /\ ByteSize % 2 = 0
    /\ {LetterG, LetterK, LetterR, LetterM} \subseteq 0 .. ByteSize - 1
    /\ TextureCount \in Nat

WordSize == ByteSize * ByteSize

\* What the program keeps in memory.  A resource has as many meshes as a byte
\* counts: they are at most TextureCount, one for each texture.
Vertex ==
    LET float == 0 .. WordSize * WordSize - 1
        int16 == -(WordSize \div 2) .. WordSize \div 2 - 1
    IN  [x : float, y : float, z : float, u : int16, v : int16]
Mesh == [relative_texture_id : 0 .. ByteSize - 1, vertices : Seq(Vertex)]
Resource == [meshes : {meshes \in Seq(Mesh) : Len(meshes) < ByteSize}]

-----------------------------------------------------------------------------
(* Saving.  Sizes that do not fit are cut, and so is what they count.       *)

WordBytes(w) == <<w % ByteSize, (w \div ByteSize) % ByteSize>>

\* MUTANT of DoubleWordBytes: the high word goes first.
MutantHighFirst(d) == WordBytes(d \div WordSize) \o WordBytes(d % WordSize)

DoubleWordBytes(d) == WordBytes(d % WordSize) \o WordBytes(d \div WordSize)

\* static_cast<std::uint16_t>(std::int16_t), and back
Unsigned(w) == w % WordSize
Signed(w) == IF w < WordSize \div 2 THEN w ELSE w - WordSize

VertexBytes(v) ==
    DoubleWordBytes(v.x) \o DoubleWordBytes(v.y) \o DoubleWordBytes(v.z)
        \o WordBytes(Unsigned(v.u)) \o WordBytes(Unsigned(v.v))

MeshBytes(mesh) ==
    LET vertex_count == Len(mesh.vertices) % WordSize
    IN  <<mesh.relative_texture_id>> \o WordBytes(vertex_count)
            \o FlattenSeq([i \in 1 .. vertex_count |-> VertexBytes(mesh.vertices[i])])

ResourceBytes(resource) ==
    LET mesh_count == Len(resource.meshes) % ByteSize
    IN  <<LetterG, LetterK, LetterR, 0, mesh_count>>
            \o FlattenSeq([i \in 1 .. mesh_count |-> MeshBytes(resource.meshes[i])])

\* the buffer has sizeof(Model) + 3 bytes, and the last one is not used
ModelBytes(model) ==
    <<LetterG, LetterK, LetterM, 0>> \o WordBytes(model.resource_id)
        \o FlattenSeq([i \in 1 .. TextureCount |-> WordBytes(model.texture_ids[i])])
        \o <<0>>

-----------------------------------------------------------------------------
(* Loading: what is read from a place in the buffer, where index 0 is its   *)
(* first byte.  The caller checks that it ends within the buffer: a byte    *)
(* that is not there throws.                                                *)

ByteAt(buffer, index) == buffer[index + 1]

WordAt(buffer, index) ==
    (ByteAt(buffer, index + 1) * ByteSize + ByteAt(buffer, index)) % WordSize

DoubleWordAt(buffer, index) ==
    WordAt(buffer, index + 2) * WordSize + WordAt(buffer, index)

VertexLength == 16
VertexAt(buffer, index) ==
    [x |-> DoubleWordAt(buffer, index),
     y |-> DoubleWordAt(buffer, index + 4),
     z |-> DoubleWordAt(buffer, index + 8),
     u |-> Signed(WordAt(buffer, index + 12)),
     v |-> Signed(WordAt(buffer, index + 14))]

MeshHeader == 3
MeshLength(vertex_count) == MeshHeader + vertex_count * VertexLength

\* loadMesh, from a place where a mesh is all there
MeshAt(buffer, index) ==
    LET vertex_count == WordAt(buffer, index + 1)
    IN  [relative_texture_id |-> ByteAt(buffer, index),
         vertices |-> [i \in 1 .. vertex_count |->
                          VertexAt(buffer, index + MeshLength(i - 1))]]

\* where a mesh that begins here ends, past the end of the buffer if any of its
\* bytes is
MeshEnd(buffer, index) ==
    IF index + MeshHeader > Len(buffer) THEN Len(buffer) + 1
    ELSE index + MeshLength(WordAt(buffer, index + 1))

ResourceHeader == 5

\* MUTANT of LoadResource: it is content with the meshes that are there.
MutantPartial(buffer) ==
    IF \/ Len(buffer) < ResourceHeader
       \/ SubSeq(buffer, 1, 4) # <<LetterG, LetterK, LetterR, 0>>
    THEN Throws
    ELSE LET mesh_count == ByteAt(buffer, 4)
             ends[i \in 0 .. mesh_count] ==
                IF i = 0 THEN ResourceHeader
                ELSE MeshEnd(buffer, ends[i - 1])
             there == {i \in 1 .. mesh_count : ends[i] <= Len(buffer)}
         IN  [meshes |-> [i \in there |-> MeshAt(buffer, ends[i - 1])]]

LoadResource(buffer) ==
    IF \/ Len(buffer) < ResourceHeader
       \/ SubSeq(buffer, 1, 4) # <<LetterG, LetterK, LetterR, 0>>
    THEN Throws
    ELSE LET mesh_count == ByteAt(buffer, 4)
             ends[i \in 0 .. mesh_count] ==
                IF i = 0 THEN ResourceHeader
                ELSE MeshEnd(buffer, ends[i - 1])
         IN  IF \E i \in 1 .. mesh_count : ends[i] > Len(buffer) THEN Throws
             ELSE [meshes |-> [i \in 1 .. mesh_count |->
                                  MeshAt(buffer, ends[i - 1])]]

ModelHeader == 4
LoadModel(buffer) ==
    IF \/ Len(buffer) < ModelHeader + 2 + 2 * TextureCount
       \/ SubSeq(buffer, 1, ModelHeader) # <<LetterG, LetterK, LetterM, 0>>
    THEN Throws
    ELSE [resource_id |-> WordAt(buffer, ModelHeader),
          texture_ids |-> [i \in 1 .. TextureCount |->
                              WordAt(buffer, ModelHeader + 2 * i)]]

-----------------------------------------------------------------------------
(* What the client makes of a file (BgfxModelCache): one without any bytes is *)
(* not loaded, and what has been made for it stays empty.                     *)

NoResource == [meshes |-> <<>>]
\* it has no BgfxResource either, not even an empty one
NoModel == [resource_id |-> 0, texture_ids |-> [i \in 1 .. TextureCount |-> 0]]

getResource(file) == IF Len(file) > 0 THEN LoadResource(file) ELSE NoResource
getModel(file)    == IF Len(file) > 0 THEN LoadModel(file) ELSE NoModel

-----------------------------------------------------------------------------

\* the first vertices of each mesh, as many as a word counts
Counted(resource) ==
    [meshes |->
        [i \in DOMAIN resource.meshes |->
            LET mesh == resource.meshes[i]
            IN  [mesh EXCEPT !.vertices =
                    SubSeq(@, 1, Len(@) % WordSize)]]]

\* The order of bytes, the signs of texture coordinates, the sizes and the place of
\* each mesh agree between saveResource and loadResource.  A mesh of too many
\* vertices loads as one with fewer, and the meshes behind it are found (saveMesh).
ResourceLoads(resource) == getResource(ResourceBytes(resource)) = Counted(resource)

ModelLoads(model) == getModel(ModelBytes(model)) = model

\* A resource that was cut off is refused rather than shown in part (readByte), and
\* so is a model, but for its last byte that holds nothing.  Cut off before its first
\* byte, where it is when the file was opened and nothing was flushed, a file is not
\* refused: nothing is shown.
NoPartLoads(resource) ==
    LET file == ResourceBytes(resource)
    IN  \A length \in 0 .. Len(file) - 1 :
            getResource(SubSeq(file, 1, length))
                = IF length = 0 THEN NoResource ELSE Throws

NoModelPartLoads(model) ==
    LET file == ModelBytes(model)
    IN  \A length \in 0 .. Len(file) - 2 :
            getModel(SubSeq(file, 1, length))
                = IF length = 0 THEN NoModel ELSE Throws
=============================================================================
