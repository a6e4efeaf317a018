------------------------------- MODULE StoragePut -------------------------------
(***************************************************************************)
(* Storage.Put of a VariadicStorage: the goroutine that compresses and     *)
(* encrypts (streamcrypt/pipe), the pipe between it and the backend, and   *)
(* the Put of each backend (localfs.go, sftp.go, s3.go, s3multipart.go).   *)
(* The source is the reading end of another pipe, as in StreamingFile.     *)
(*                                                                         *)
(* The goroutines are `t' (transform) and `b' (backend); an io.Pipe has no *)
(* buffer, so a write ends when its data was read or the pipe is closed.   *)
(*                                                                         *)
(* Abstractions.                                                           *)
(*  - Data is counted in chunks.  A chunk read may stay in the compressor  *)
(*    (`buf') until its last write; headers and framing are not counted.   *)
(*  - local and sftp differ in what a failing call is, not in the steps.   *)
(*  - The reader s3Storage.Put gets is a pipe, never a seekable file, so   *)
(*    only its multipart path is taken.                                    *)
(*  - A call to S3 that fails may have taken effect.                       *)
(***************************************************************************)
EXTENDS Integers

CONSTANTS
    Names,       \* the names objects can have
    Backends,    \* the backends to choose from, a subset of {"local", "sftp", "s3"}
    MaxChunks,   \* bound: chunks of one source
    PartSize,    \* S3: chunks in a part
    MaxParts,    \* S3: MaxS3UploadParts
    MaxFaults    \* bound: failing calls

ASSUME PutAssumption ==
    /\ Names # {}
    /\ Backends \subseteq {"local", "sftp", "s3"} /\ Backends # {}
    /\ MaxChunks \in Nat /\ MaxFaults \in Nat
    /\ PartSize \in Nat \ {0} /\ MaxParts \in Nat \ {0}

VARIABLES
    backend,   \* the configured backend
    objects,   \* objects[n]: chunks of the visible object, or NoObject
    name,      \* the object being written
    outer,     \* the source pipe
    inner,     \* the pipe between the goroutines
    tpc, buf,  \* the transform goroutine; chunks it holds
    bpc, got,  \* the backend's Put; chunks it has read
    part,      \* S3: chunks of the part not yet uploaded
    nparts,    \* S3: parts uploaded
    mpu,       \* S3: the multipart upload
    faults

pipeVars == <<outer, inner, tpc, buf>>
s3Vars == <<part, nparts, mpu>>
putVars == <<backend, objects, name, outer, inner, tpc, buf, bpc, got, part, nparts, mpu,
             faults>>

NoObject == -1

\* w: open, or what the reader meets at the end; closed: the reading end is closed.
OpenPipe == [data |-> 0, w |-> "open", closed |-> FALSE]
Pipes == [data: 0..MaxChunks, w: {"open", "eof", "err"}, closed: BOOLEAN]

IsS3 == backend = "s3"
Returned == bpc \in {"none", "ok", "err"}
Min2(a, b) == IF a < b THEN a ELSE b

Fault == faults < MaxFaults /\ faults' = faults + 1

PutBegin(n) ==
    /\ Returned
    /\ name' = n
    /\ outer' = OpenPipe /\ inner' = OpenPipe
    /\ tpc' = "copy" /\ buf' = 0
    /\ bpc' = "begin" /\ got' = 0
    /\ part' = 0 /\ nparts' = 0 /\ mpu' = "none"
    /\ UNCHANGED <<backend, objects, faults>>

-----------------------------------------------------------------------------
(***************************************************************************)
(* The source: the writing end of the outer pipe.                          *)
(***************************************************************************)
SourceWrite ==
    /\ outer.data = 0 /\ outer.w = "open" /\ ~outer.closed
    /\ outer' = [outer EXCEPT !.data = 1]
    /\ UNCHANGED <<backend, objects, name, inner, tpc, buf, bpc, got, s3Vars, faults>>

\* Close and CloseWithError: the first one counts, a pending write is not read any more.
ClosedWith(pipe, e) == [pipe EXCEPT !.w = IF @ = "open" THEN e ELSE @]

SourceClose(e) ==
    /\ outer' = ClosedWith(outer, e)
    /\ UNCHANGED <<backend, objects, name, inner, tpc, buf, bpc, got, s3Vars, faults>>

-----------------------------------------------------------------------------
(***************************************************************************)
(* CompressAndEncryptOptional: io.Copy from the source, then Flush and     *)
(* Close, then the deferred Close of the inner pipe.  A write to the inner *)
(* pipe blocks until the backend has read it.                              *)
(***************************************************************************)
TCanStep == tpc = "copy" /\ inner.data = 0

TransformRead ==
    /\ TCanStep
    /\ outer.data > 0 /\ outer.w = "open" /\ ~outer.closed
    /\ outer' = [outer EXCEPT !.data = 0]
    /\ \/ buf' = buf + outer.data /\ UNCHANGED inner                 \* held back
       \/ buf' = 0 /\ inner' = [inner EXCEPT !.data = buf + outer.data]
    /\ UNCHANGED <<backend, objects, name, tpc, bpc, got, s3Vars, faults>>

\* Mutant: what the compressor still holds is not written.
TransformEndUnflushed ==
    /\ TCanStep
    /\ outer.data = 0 /\ outer.w = "eof" /\ ~outer.closed
    /\ tpc' = "close"
    /\ buf' = 0
    /\ UNCHANGED <<backend, objects, name, outer, inner, bpc, got, s3Vars, faults>>

\* The end of the source: flush what the compressor holds.
TransformEnd ==
    /\ TCanStep
    /\ outer.data = 0 /\ outer.w = "eof" /\ ~outer.closed
    /\ tpc' = "close"
    /\ buf' = 0
    /\ inner' = [inner EXCEPT !.data = buf]
    /\ UNCHANGED <<backend, objects, name, outer, bpc, got, s3Vars, faults>>

TransformClose ==
    /\ tpc = "close" /\ inner.data = 0
    /\ tpc' = "done"
    /\ inner' = [inner EXCEPT !.w = "eof"]
    /\ UNCHANGED <<backend, objects, name, outer, buf, bpc, got, s3Vars, faults>>

\* The source fails, or the writer of the compressor or encryptor cannot be made.
TransformFails ==
    /\ TCanStep
    /\ \/ (outer.w = "err" \/ outer.closed) /\ UNCHANGED faults
       \/ buf + got = 0 /\ outer = OpenPipe /\ Fault
    /\ tpc' = "done"
    /\ inner' = [inner EXCEPT !.w = "err"]
    /\ UNCHANGED <<backend, objects, name, outer, buf, bpc, got, s3Vars>>

-----------------------------------------------------------------------------
(***************************************************************************)
(* The backend's Put.  local and sftp create (and truncate) the file and   *)
(* copy into it; s3 begins a multipart upload and reads part after part.   *)
(***************************************************************************)
BackendBegin ==
    /\ bpc = "begin"
    /\ bpc' = "read"
    /\ IF IsS3 THEN mpu' = "open" /\ UNCHANGED objects
               ELSE objects' = [objects EXCEPT ![name] = 0] /\ UNCHANGED mpu
    /\ UNCHANGED <<backend, name, pipeVars, got, part, nparts, faults>>

\* io.Copy takes what is there, io.ReadFull at most what the part still lacks.
BackendRead ==
    /\ bpc = "read" /\ inner.data > 0
    /\ LET n == IF IsS3 THEN Min2(inner.data, PartSize - part) ELSE inner.data
       IN  /\ got' = got + n
           /\ inner' = [inner EXCEPT !.data = @ - n]
           /\ IF IsS3
                THEN /\ part' = part + n
                     /\ bpc' = IF part + n = PartSize THEN "part" ELSE "read"
                     /\ UNCHANGED objects
                ELSE /\ objects' = [objects EXCEPT ![name] = got + n]
                     /\ UNCHANGED <<part, bpc>>
    /\ UNCHANGED <<backend, name, outer, tpc, buf, nparts, mpu, faults>>

BackendEOF ==
    /\ bpc = "read" /\ inner.data = 0 /\ inner.w = "eof"
    /\ bpc' = IF part > 0 THEN "part" ELSE "commit"
    /\ UNCHANGED <<backend, objects, name, pipeVars, got, s3Vars, faults>>

\* An error of the source ends the Put; a multipart upload is aborted.
BackendReadFails ==
    /\ bpc = "read" /\ inner.data = 0 /\ inner.w = "err"
    /\ bpc' = IF IsS3 THEN "abort" ELSE "err"
    /\ UNCHANGED <<backend, objects, name, pipeVars, got, s3Vars, faults>>

\* Mutant: the limit is checked one part too late.
UploadPartTooMany ==
    /\ bpc = "part"
    /\ IF nparts > MaxParts
         THEN bpc' = "abort" /\ UNCHANGED <<part, nparts>>
         ELSE /\ nparts' = nparts + 1
              /\ part' = 0
              /\ bpc' = IF part < PartSize THEN "commit" ELSE "read"
    /\ UNCHANGED <<backend, objects, name, pipeVars, got, mpu, faults>>

\* A part that is not full is the last one.
UploadPart ==
    /\ bpc = "part"
    /\ IF nparts = MaxParts
         THEN bpc' = "abort" /\ UNCHANGED <<part, nparts>>
         ELSE /\ nparts' = nparts + 1
              /\ part' = 0
              /\ bpc' = IF part < PartSize THEN "commit" ELSE "read"
    /\ UNCHANGED <<backend, objects, name, pipeVars, got, mpu, faults>>

\* An upload without parts cannot be completed: it is aborted before an empty PutObject.
MustAbort == bpc = "commit" /\ nparts = 0 /\ mpu = "open"

\* local: fsync and close.  s3: complete, or put an empty object.
Commit ==
    /\ bpc = "commit" /\ ~MustAbort
    /\ bpc' = "ok"
    /\ IF IsS3
         THEN /\ objects' = [objects EXCEPT ![name] = got]
              /\ mpu' = IF nparts = 0 THEN mpu ELSE "completed"
         ELSE UNCHANGED <<objects, mpu>>
    /\ UNCHANGED <<backend, name, pipeVars, got, part, nparts, faults>>

\* Mutant: an upload that cannot be completed is left open.
PutCallFailsUnaborted ==
    /\ bpc \in {"begin", "part", "commit"} \/ (bpc = "read" /\ ~IsS3)
    /\ Fault
    /\ bpc' = "err"
    /\ UNCHANGED <<backend, objects, name, pipeVars, got, s3Vars>>

\* A call to the file system or the service fails.
PutCallFails ==
    /\ bpc \in {"begin", "part", "commit"} \/ (bpc = "read" /\ ~IsS3)
    /\ ~MustAbort
    /\ Fault
    /\ bpc' = IF mpu = "open" THEN "abort" ELSE "err"
    /\ \/ UNCHANGED <<objects, mpu>>
       \/ bpc = "begin" /\ IsS3 /\ mpu' = "orphan" /\ UNCHANGED objects   \* it took effect,
       \/ /\ bpc = "commit" /\ IsS3                                       \* here as well
          /\ objects' = [objects EXCEPT ![name] = got]
          /\ mpu' = IF nparts = 0 THEN mpu ELSE "completed"
    /\ UNCHANGED <<backend, name, pipeVars, got, part, nparts>>

\* abortMultipartUpload: its own failure is only logged.
Abort ==
    /\ bpc = "abort" \/ MustAbort
    /\ bpc' = IF bpc = "abort" THEN "err" ELSE "commit"
    /\ \/ mpu' = (IF mpu = "open" THEN "aborted" ELSE mpu) /\ UNCHANGED faults
       \/ Fault /\ mpu' = (IF mpu = "open" THEN "orphan" ELSE mpu)
    /\ UNCHANGED <<backend, objects, name, pipeVars, got, part, nparts>>

\* The process is gone, and its goroutines with it.
PutGone ==
    /\ outer' = OpenPipe /\ inner' = OpenPipe /\ tpc' = "off" /\ buf' = 0
    /\ bpc' = "none" /\ got' = 0 /\ part' = 0 /\ nparts' = 0 /\ mpu' = "none"
    /\ UNCHANGED <<backend, objects, name>>

TransformStep == TransformRead \/ TransformEnd \/ TransformClose \/ TransformFails
BackendStep ==
    \/ BackendBegin \/ BackendRead \/ BackendEOF \/ BackendReadFails
    \/ UploadPart \/ Commit \/ PutCallFails \/ Abort

PutInit ==
    /\ backend \in Backends
    /\ objects = [n \in Names |-> NoObject]
    /\ name = CHOOSE n \in Names : TRUE
    /\ outer = OpenPipe /\ inner = OpenPipe /\ tpc = "off" /\ buf = 0
    /\ bpc = "none" /\ got = 0 /\ part = 0 /\ nparts = 0 /\ mpu = "none"
    /\ faults = 0

-----------------------------------------------------------------------------
(***************************************************************************)
(* The Put of the abstract store.                                          *)
(***************************************************************************)
AbstractPut ==
    IF Returned
      THEN [name |-> name, given |-> 0, end |-> "open",
            res |-> bpc]
      ELSE [name |-> name, given |-> buf + inner.data + got,
            end |-> IF tpc = "copy" THEN "open"
                    ELSE IF inner.w = "err" THEN "error" ELSE "eof",
            res |-> "running"]

Store == INSTANCE ObjectStore WITH atomic <- IsS3, put <- AbstractPut
=================================================================================
