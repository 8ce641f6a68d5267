------------------------------- MODULE Storage --------------------------------
(***************************************************************************)
(* The object store behind storage/minio/minio.go: an object per block id. *)
(* Objects are immutable: every Store uses a fresh id.  GetObject is lazy, *)
(* so the existence of an object is decided when it is read, not when it   *)
(* is loaded.                                                              *)
(***************************************************************************)
CONSTANTS
    Content,    \* what a block can hold
    NoObject    \* there is no object of this name

ASSUME NoObjectAssumption == NoObject \notin Content

VARIABLE objects    \* objects[b]: the content stored under block id b

StorageTypeOK(Id) == objects \in [Id -> Content \cup {NoObject}]

StorageInit(Id) == objects = [b \in Id |-> NoObject]

Stored(b) == objects[b] # NoObject

Store(b, x) == objects' = [objects EXCEPT ![b] = x]

Purge(b) == objects' = [objects EXCEPT ![b] = NoObject]

=============================================================================
