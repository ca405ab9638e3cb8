--------------------------- MODULE CollectionList --------------------------
(***************************************************************************)
(* ListViewController: the Collection screen with its Downloads and        *)
(* Favourites tabs.  Each tab shows a list copied from the database and    *)
(* the active downloads by loadData; hearts tapped in a cell go to the     *)
(* database and, in part, to the lists.  A list is the set of its items:   *)
(* its order only places the cells.  What a visible cell of the other tab  *)
(* is repainted with is left out.                                          *)
(***************************************************************************)
CONSTANT Ids

VARIABLES
    dowList,              \* items of the Downloads tab
    favList,              \* items of the Favourites tab
    isDisplayingDownload  \* which tab is shown

vars == <<dowList, favList, isDisplayingDownload>>

\* TransLocalImage
Item == [id: Ids, favorite: BOOLEAN, isDownloaded: BOOLEAN, isDownloading: BOOLEAN]

\* A new ListViewController, before its first loadData.
Empty == dowList = {} /\ favList = {} /\ isDisplayingDownload = TRUE

BecomesEmpty == dowList' = {} /\ favList' = {} /\ isDisplayingDownload' = TRUE

IdsOf(list) == {item.id : item \in list}

FromRecord(id, record) == [id |-> id, favorite |-> record.favorite,
                           isDownloaded |-> record.isDownloaded, isDownloading |-> FALSE]

\* favContains is looked up in the favList that loadData has just emptied, so
\* a photo being downloaded is never shown as a favourite.
FromDownload(id) == [id |-> id, favorite |-> FALSE, isDownloaded |-> FALSE, isDownloading |-> TRUE]

\* loadData: known is the set of ids with a record, image their records and
\* downloading the photos of the active downloads that are running.
loadData(known, image, downloading) ==
    /\ dowList' = {FromDownload(id) : id \in downloading}
                  \cup {FromRecord(id, image[id]) : id \in {k \in known : image[k].isDownloaded}}
    /\ favList' = {FromRecord(id, image[id]) : id \in {k \in known : image[k].favorite}}

touchTab(downloads) ==
    /\ isDisplayingDownload' = downloads
    /\ UNCHANGED <<dowList, favList>>

\* changeFavorite(on:) in the Downloads tab, after the database: a list that
\* already shows the photo among the favourites is left as it is.
heartInDownloads(item, known, image, downloading) ==
    /\ IF item.id \in IdsOf(favList) THEN UNCHANGED <<dowList, favList>>
       ELSE loadData(known, image, downloading)
    /\ UNCHANGED isDisplayingDownload

\* Mutant: removes the item if it was not a favourite.
heartInFavorites_inverted(item) ==
    /\ favList' = IF item.favorite THEN favList ELSE {x \in favList : x.id # item.id}
    /\ UNCHANGED <<dowList, isDisplayingDownload>>

\* The same in the Favourites tab: the item leaves the list if it was, when
\* it was listed, a favourite.
heartInFavorites(item) ==
    /\ favList' = IF item.favorite THEN {x \in favList : x.id # item.id} ELSE favList
    /\ UNCHANGED <<dowList, isDisplayingDownload>>

TypeOK == dowList \subseteq Item /\ favList \subseteq Item /\ isDisplayingDownload \in BOOLEAN
============================================================================
