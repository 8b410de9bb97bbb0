----------------------------- MODULE MCListings -----------------------------
(***************************************************************************)
(* The modules about properties, their documents and, one request at a     *)
(* time, their transactions on small instances.  They share no state, so a *)
(* behaviour is one of one of them: part says which, and the variables of   *)
(* the others keep their initial values.                                   *)
(***************************************************************************)
EXTENDS Transactions, Listings, ListingCache, ListingEdits, PriceHistory, Paging, PropertyImages, Documents

VARIABLE part

\* The overlapping requests of the modules are the same two values, and exchangeable.
RequestSymmetry == Permutations(ListReq)

lsVw == <<lsVars, vwVars>>
edPh == <<edVars, phVars>>
pgIm == <<pgVars, imVars>>

ListingsInit ==
    /\ part \in {"transactions", "listings", "cache", "edits", "prices", "paging", "images", "documents"}
    /\ Init /\ LsInit /\ VwInit /\ EdInit /\ PhInit /\ PgInit /\ ImInit /\ DcInit
    /\ part # "transactions" => status = [t \in Tx |-> "none"]
    /\ part # "listings" => listing.due = "none"
    /\ part # "prices" => price = 0
    /\ part # "paging" => stamp = [i \in 1 .. RowMax |-> 0] /\ walk.at = CHOOSE e \in Endpoints : TRUE

ListingsNext ==
    /\ UNCHANGED part
    /\ \/ part = "transactions" /\ Next /\ UNCHANGED <<lsVw, edPh, pgIm, dcVars>>
       \/ part = "listings" /\ LsNext /\ UNCHANGED <<vars, vwVars, edPh, pgIm, dcVars>>
       \/ part = "cache" /\ VwNext /\ UNCHANGED <<vars, lsVars, edPh, pgIm, dcVars>>
       \/ part = "edits" /\ EdNext /\ UNCHANGED <<vars, lsVw, phVars, pgIm, dcVars>>
       \/ part = "prices" /\ PhNext /\ UNCHANGED <<vars, lsVw, edVars, pgIm, dcVars>>
       \/ part = "paging" /\ PgNext /\ UNCHANGED <<vars, lsVw, edPh, imVars, dcVars>>
       \/ part = "images" /\ ImNext /\ UNCHANGED <<vars, lsVw, edPh, pgVars, dcVars>>
       \/ part = "documents" /\ DcNext /\ UNCHANGED <<vars, lsVw, edPh, pgIm>>

ListingsSpec == ListingsInit /\ [][ListingsNext]_<<part, vars, lsVw, edPh, pgIm, dcVars>>

\* Every row, and the progress of every request, holds a value of its type.
ListingsTypeOK ==
    LsTypeOK /\ VwTypeOK /\ EdTypeOK /\ PhTypeOK /\ PgTypeOK /\ ImTypeOK /\ DcTypeOK

\* Transactions served one after the other leave, when none is in flight, commissions
\* that agree with the row and an audit entry for every change of status.
QuietRecordsAgree == CommissionsAgreeWhenQuiet /\ EveryChangeAudited

\* Edits leave no outdated view in the cache and no key that the next edit cannot
\* find, except in the overlaps and errors that the parts name.
CachedViewsExplained == OutdatedViewsExplained /\ CachedKeysTagged

\* What hangs on a listing agrees with it: its address is its own, its price ends its
\* history, one image is the cover and all are on disk, a document shows its last
\* version and its one signature; the parts name the overlaps that break them.
PropertyRecordsAgree ==
    /\ AddressesDistinct /\ GeocodeBudgetKept /\ HistoryEndsAtPrice
    /\ OneCover /\ RowsHaveFiles
    /\ LatestVersionShown /\ OneSignature

\* A client that walks through the pages of a list, by number or by cursor, sees every
\* row once where the order of the endpoint is total.
WalksComplete == PagesComplete /\ CursorWalksForward
=============================================================================
