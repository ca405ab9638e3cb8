---------------------------- MODULE DataManager ----------------------------
(***************************************************************************)
(* Modules/Detail/Business Logic/Manager/DataManager.swift: the Realm      *)
(* table of LocalImage records, keyed by the photo's identifier.  Every    *)
(* caller is on the main thread and every method runs one write            *)
(* transaction, so a method is one step.  Realm is durable: nothing        *)
(* undoes a step.                                                          *)
(***************************************************************************)
CONSTANTS
    Ids,        \* photo identifiers
    Paths,      \* local file paths
    NoPath,     \* localImagePath is nil
    NoRecord    \* the table has no LocalImage with this primary key

VARIABLE localImages    \* [Ids -> LocalImage or NoRecord]

\* urlRegular: the record has a remote image; sized: width and height are the
\* photo's, not the default 1 by 1.
LocalImage == [favorite: BOOLEAN, isDownloaded: BOOLEAN, localImagePath: Paths \cup {NoPath},
               urlRegular: BOOLEAN, sized: BOOLEAN]

\* LocalImage()
NewImage == [favorite |-> FALSE, isDownloaded |-> FALSE, localImagePath |-> NoPath,
             urlRegular |-> FALSE, sized |-> FALSE]

Init == localImages = [id \in Ids |-> NoRecord]

Known(id) == localImages[id] # NoRecord

Toggled(image) == [image EXCEPT !.favorite = ~@]
WithDetails(image) == [image EXCEPT !.urlRegular = TRUE, !.sized = TRUE]

\* changeLocalImageFavorite(id:), of the collection screen
changeFavoriteById(id) ==
    localImages' = [localImages EXCEPT ![id] =
        IF Known(id) THEN Toggled(@)
        ELSE [NewImage EXCEPT !.favorite = TRUE]]

\* changeLocalImageFavorite(id:urlRegular:width:height:), of the detail screen
changeFavoriteWithDetails(id) ==
    localImages' = [localImages EXCEPT ![id] =
        IF Known(id) THEN WithDetails(Toggled(@))
        ELSE WithDetails([NewImage EXCEPT !.favorite = TRUE])]

\* Mutant: the record written anew.
saveDownloadedFilePath_anew(id, path) ==
    localImages' = [localImages EXCEPT ![id] =
        [NewImage EXCEPT !.localImagePath = path, !.isDownloaded = TRUE, !.sized = TRUE]]

\* Mutant: gives its size to a new record only.
saveDownloadedFilePath_unsized(id, path) ==
    localImages' = [localImages EXCEPT ![id] =
        IF Known(id) THEN [@ EXCEPT !.localImagePath = path, !.isDownloaded = TRUE]
        ELSE [NewImage EXCEPT !.localImagePath = path, !.isDownloaded = TRUE, !.sized = TRUE]]

saveDownloadedFilePath(id, path) ==
    localImages' = [localImages EXCEPT ![id] =
        [(IF Known(id) THEN @ ELSE NewImage) EXCEPT
            !.localImagePath = path, !.isDownloaded = TRUE, !.sized = TRUE]]

\* getLocalImageById(id)?.favorite, isLocalImageDownloaded(id)
IsFavorite(id) == Known(id) /\ localImages[id].favorite
IsLocalImageDownloaded(id) == Known(id) /\ localImages[id].isDownloaded

TypeOK == localImages \in [Ids -> LocalImage \cup {NoRecord}]
============================================================================
