--------------------------- MODULE PropertyImages ----------------------------
(* The images of one property: batches are uploaded, images deleted,         *)
(* reordered and made the cover, by requests that overlap.                   *)
EXTENDS Integers, FiniteSets

CONSTANTS ImageReq,   \* requests that may overlap
          ImageIds,   \* ids of propertyImage rows, natural numbers
          MaxImages,  \* maxImagesPerProperty
          MaxBatch,   \* files of one upload
          MaxOrder    \* bound: the order column grows with every upload

ASSUME PropertyImagesAssumption ==
    /\ IsFiniteSet(ImageReq) /\ ImageIds \subseteq Nat /\ IsFiniteSet(ImageIds) /\ ImageIds # {}
    /\ MaxImages \in Nat /\ MaxBatch \in Nat \ {0} /\ MaxOrder \in Nat
    /\ Cardinality(ImageIds) <= MaxOrder + MaxBatch + 1

VARIABLES images,   \* ids of the rows
          order,    \* their order column
          cover,    \* ids with isPrimary
          files,    \* ids whose variants are on disk
          cut,      \* history: ids whose deletion stopped between files and row
          imReq,    \* what each request has read and does next
          imSlip    \* history: an old read was used, or a step in the middle failed

imVars == <<images, order, cover, files, cut, imReq, imSlip>>

ImIdle == [op |-> "idle", left |-> 0, next |-> 0, first |-> FALSE,
           id |-> CHOOSE i \in ImageIds : TRUE, prime |-> FALSE, stale |-> FALSE]
Orders == 0 .. MaxOrder + MaxBatch

ImTypeOK ==
    /\ images \subseteq ImageIds /\ cover \subseteq images /\ files \subseteq ImageIds /\ cut \subseteq ImageIds
    /\ order \in [ImageIds -> Orders] /\ imSlip \in BOOLEAN
    /\ imReq \in [ImageReq -> [op : {"idle", "place", "cover", "store", "unlink", "delete", "find", "promote", "prime"},
                               left : 0 .. MaxBatch, next : Orders, first : BOOLEAN,
                               id : ImageIds, prime : BOOLEAN, stale : BOOLEAN]]

ImInit == /\ images = {} /\ cover = {} /\ files = {} /\ cut = {} /\ order = [i \in ImageIds |-> 0]
          /\ imReq = [r \in ImageReq |-> ImIdle] /\ imSlip = FALSE

ImDone(r) == imReq' = [imReq EXCEPT ![r] = ImIdle]

\* after a change of the rows by r, what the other requests have read is old
Outdate(r, mine) == imReq' = [s \in ImageReq |->
    IF s = r THEN mine ELSE [imReq[s] EXCEPT !.stale = imReq[s].op # "idle"]]
Rely(r) == imSlip' = (imSlip \/ imReq[r].stale)

\* the highest place taken, or -1
Top == IF images = {} THEN {-1}
       ELSE {o \in {order[i] : i \in images} : \A i \in images : order[i] <= o}

-----------------------------------------------------------------------------
(* uploadImages                                                              *)

\* after the checks of each file, the batch must fit under the limit
uploadImages(r) == \E k \in 1 .. MaxBatch :
    /\ imReq[r].op = "idle" /\ Cardinality(images) + k <= MaxImages
    /\ imReq' = [imReq EXCEPT ![r] = [ImIdle EXCEPT !.op = "place", !.left = k]]
    /\ UNCHANGED <<images, order, cover, files, cut, imSlip>>

\* the last order ...
readPlace(r) == \E top \in Top :
    /\ imReq[r].op = "place" /\ top < MaxOrder
    /\ imReq' = [imReq EXCEPT ![r] = [ImIdle EXCEPT !.op = "cover", !.left = imReq[r].left, !.next = top + 1]]
    /\ UNCHANGED <<images, order, cover, files, cut, imSlip>>

\* ... and then whether there is a cover are read once for the batch
readCover(r) ==
    /\ imReq[r].op = "cover"
    /\ imReq' = [imReq EXCEPT ![r].op = "store", ![r].first = cover = {}]
    /\ UNCHANGED <<images, order, cover, files, cut, imSlip>>

\* a new id: the least one that is free
Unused == {i \in ImageIds \ (images \union files) :
              \A j \in ImageIds \ (images \union files) : i <= j}

Stored(r) == IF imReq[r].left = 1 THEN ImIdle
             ELSE [imReq[r] EXCEPT !.left = @ - 1, !.next = @ + 1, !.first = FALSE]

processAndPersist_RowOnly(r) == \E i \in Unused :
    /\ imReq[r].op = "store"
    /\ images' = images \union {i} /\ UNCHANGED <<files, cut>>
    /\ order' = [order EXCEPT ![i] = imReq[r].next]
    /\ cover' = IF imReq[r].first THEN cover \union {i} ELSE cover
    /\ Outdate(r, Stored(r)) /\ Rely(r)

\* one file: its variants are written, then its row
processAndPersist(r) == \E i \in Unused :
    /\ imReq[r].op = "store"
    /\ images' = images \union {i} /\ files' = files \union {i} /\ UNCHANGED cut
    /\ order' = [order EXCEPT ![i] = imReq[r].next]
    /\ cover' = IF imReq[r].first THEN cover \union {i} ELSE cover
    /\ Outdate(r, Stored(r)) /\ Rely(r)

\* a file that cannot be processed is logged and skipped, the first one too
processFails(r) ==
    /\ imReq[r].op = "store" /\ UNCHANGED <<images, order, cover, files, cut>>
    /\ imReq' = [imReq EXCEPT ![r] = IF imReq[r].left = 1 THEN ImIdle
                                     ELSE [imReq[r] EXCEPT !.left = @ - 1, !.first = FALSE]]
    /\ imSlip' = (imSlip \/ imReq[r].first)

-----------------------------------------------------------------------------
(* deleteImage: the files go first, then the row, then a new cover           *)
deleteImage(r) == \E i \in images :
    /\ imReq[r].op = "idle"
    /\ imReq' = [imReq EXCEPT ![r] = [ImIdle EXCEPT !.op = "unlink", !.id = i, !.prime = i \in cover]]
    /\ UNCHANGED <<images, order, cover, files, cut, imSlip>>
removeFilesForImage(r) ==
    /\ imReq[r].op = "unlink" /\ files' = files \ {imReq[r].id}
    /\ imReq' = [imReq EXCEPT ![r].op = "delete"] /\ UNCHANGED <<images, order, cover, cut, imSlip>>

\* the delete fails when the row is gone already ...
deleteRow(r) ==
    LET i == imReq[r].id IN
    /\ imReq[r].op = "delete" /\ UNCHANGED files
    /\ IF i \in images
       THEN /\ images' = images \ {i} /\ cover' = cover \ {i} /\ order' = [order EXCEPT ![i] = 0]
            /\ Outdate(r, IF imReq[r].prime THEN [imReq[r] EXCEPT !.op = "find", !.stale = FALSE] ELSE ImIdle)
            /\ Rely(r) /\ cut' = cut \ {i}
       ELSE ImDone(r) /\ UNCHANGED <<images, order, cover, cut, imSlip>>
\* ... or when the database is not there, which leaves a row without files
deleteFails(r) == /\ imReq[r].op = "delete" /\ ImDone(r) /\ cut = {}  \* bound: once at a time
                  /\ cut' = {imReq[r].id} /\ UNCHANGED <<images, order, cover, files, imSlip>>

findNext_None(r) == imReq[r].op = "find" /\ ImDone(r) /\ UNCHANGED <<images, order, cover, files, cut, imSlip>>

\* a deleted cover is followed by the image with the lowest order
findNext(r) ==
    /\ imReq[r].op = "find" /\ UNCHANGED <<images, order, cover, files, cut, imSlip>>
    /\ IF images = {} THEN ImDone(r)
       ELSE \E i \in images : /\ \A j \in images : order[i] <= order[j]
                              /\ imReq' = [imReq EXCEPT ![r].op = "promote", ![r].id = i]
promote(r) ==
    /\ imReq[r].op = "promote" /\ UNCHANGED <<images, order, files, cut>> /\ Rely(r)
    /\ cover' = cover \union ({imReq[r].id} \cap images)
    /\ Outdate(r, ImIdle)

-----------------------------------------------------------------------------
(* reorderImages and setPrimaryImage write in one transaction                *)

\* the list must name exactly the images; the ids read are the ids ordered
reorderImages(r) == \E f \in [images -> 0 .. Cardinality(images) - 1] :
    /\ imReq[r].op = "idle" /\ images # {}
    /\ \A i, j \in images : f[i] = f[j] => i = j
    /\ order' = [i \in ImageIds |-> IF i \in images THEN f[i] ELSE 0]
    /\ Outdate(r, ImIdle) /\ UNCHANGED <<images, cover, files, cut, imSlip>>

setPrimaryImage(r) == \E i \in images :
    /\ imReq[r].op = "idle"
    /\ imReq' = [imReq EXCEPT ![r] = [ImIdle EXCEPT !.op = "prime", !.id = i]]
    /\ UNCHANGED <<images, order, cover, files, cut, imSlip>>
\* the transaction is rolled back when the image is gone
commitPrimary(r) ==
    /\ imReq[r].op = "prime" /\ UNCHANGED <<images, order, files, cut, imSlip>>
    /\ IF imReq[r].id \in images THEN cover' = {imReq[r].id} /\ Outdate(r, ImIdle)
       ELSE UNCHANGED cover /\ ImDone(r)

ImStep(r) == \/ uploadImages(r) \/ readPlace(r) \/ readCover(r) \/ processAndPersist(r) \/ processFails(r)
             \/ deleteImage(r) \/ removeFilesForImage(r) \/ deleteRow(r) \/ deleteFails(r)
             \/ findNext(r) \/ promote(r)
             \/ reorderImages(r) \/ setPrimaryImage(r) \/ commitPrimary(r)

ImNext == \E r \in ImageReq : ImStep(r)

ImSpec == ImInit /\ [][ImNext]_imVars

-----------------------------------------------------------------------------
ImQuiet == \A r \in ImageReq : imReq[r].op \in {"idle", "place", "cover", "prime"}

(* Between requests a property with images has exactly one cover image and   *)
(* no two images share a place, unless requests overlapped or the first file *)
(* of the first batch could not be processed                                 *)
(* (property-images.service.ts:140-169, 208-221).                            *)
OneCover ==
    (ImQuiet /\ ~imSlip) => /\ Cardinality(cover) = IF images = {} THEN 0 ELSE 1
                            /\ \A i, j \in images : order[i] = order[j] => i = j

(* Every image the database lists is on disk, except while its deletion is   *)
(* between the files and the row, or was cut short there by an error         *)
(* (property-images.service.ts:203-206).                                     *)
RowsHaveFiles ==
    \A i \in images \ (files \union cut) : \E r \in ImageReq : imReq[r].op = "delete" /\ imReq[r].id = i
=============================================================================
