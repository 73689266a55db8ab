----------------------------- MODULE MCProvider -----------------------------
(* The SQLite provider from its start to its end: opening the database,    *)
(* the writes and the listings of notes, and the shutdown of the server    *)
(* around it.  A behaviour follows one of the four, the focus, because     *)
(* none of them reads what another one writes: no request is served before *)
(* the database is open, and what a request writes does not matter to its  *)
(* end.                                                                    *)
EXTENDS MCSqliteNotes, EnsureIndex, Listing, Lifecycle

VARIABLE focus

partVars == <<vars, indexVars, listingVars, lifeVars>>

MCStamps == 0..2

ProviderInit ==
  /\ focus \in {"start", "notes", "listing", "end"}
  /\ Init /\ IndexInit /\ ListingInit /\ LifeInit
  /\ focus # "start" => database = NoDatabase
  /\ focus # "listing" => table = << >>

ProviderNext ==
  /\ UNCHANGED focus
  /\ \/ focus = "start" /\ IndexNext /\ UNCHANGED <<vars, listingVars, lifeVars>>
     \/ focus = "notes" /\ Next /\ UNCHANGED <<indexVars, listingVars, lifeVars>>
     \/ focus = "listing" /\ ListingNext /\ UNCHANGED <<vars, indexVars, lifeVars>>
     \/ focus = "end" /\ LifeNext /\ UNCHANGED <<vars, indexVars, listingVars>>

ProviderSpec ==
  /\ ProviderInit /\ [][ProviderNext]_<<focus, partVars>>
  /\ WF_vars(focus = "notes" /\ \E c \in Clients : Writer(c))
  /\ \A c \in Clients : SF_vars(focus = "notes" /\ SendWrite(c))
  /\ WF_lifeVars(focus = "end" /\ \E t \in Transports : Serving(t))
  /\ WF_lifeVars(focus = "end" /\ Stopping)
  /\ WF_lifeVars(focus = "end" /\ WriterLoop)
-----------------------------------------------------------------------------
(* The variables of each module keep their types.                          *)
ProviderTypeOK == TypeOK /\ IndexTypeOK /\ ListingTypeOK /\ LifeTypeOK
=============================================================================
