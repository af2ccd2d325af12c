------------------------------- MODULE Media --------------------------------
(***************************************************************************)
(* Generation of one avatar or QR code (one owner, one seed or payload):   *)
(* look for the asset, store the content, INSERT media_assets, append the  *)
(* MediaGenerated event.  The three writes go to three places and nothing  *)
(* ties them together; callers are HTTP requests, the saga's stages and    *)
(* their retries, each running once.  The S3 breaker is in CircuitBreaker; *)
(* here it is one more way for a PUT to fail.                              *)
(***************************************************************************)
EXTENDS Integers, Sequences, FiniteSets

CONSTANTS
  Generation,   \* calls of generateUserAvatar or generateMapQr
  PutAttempts,  \* STORAGE_MAX_ATTEMPTS
  Failures      \* bound: statements and PUTs that fail, processes that die

ASSUME MediaAssumption == PutAttempts \in Nat \ {0} /\ Failures \in Nat

VARIABLES
  mode,      \* MEDIA_STORAGE_MODE
  owner,     \* whether the user or map is there: deleted_at IS NULL
  objects,   \* objects[g]: what g's fresh object key holds
  assets,    \* assets[i]: the generation that inserted media_assets row i
  mediaEvents, \* the rows that MediaGenerated events name, in order
  gen,       \* gen[g]: where generation g is
  failures   \* bound: failures so far

mediaVars == <<mode, owner, objects, assets, mediaEvents, gen, failures>>

Mode == {"database", "local-file", "s3-compatible"}
RowOf(g) == CHOOSE i \in DOMAIN assets : assets[i] = g

MediaTypeOK ==
  /\ mode \in Mode /\ owner \in BOOLEAN
  /\ objects \in [Generation -> {"none", "partial", "whole"}]
  /\ assets \in Seq(Generation)
  /\ mediaEvents \in Seq(1 .. Len(assets))
  /\ gen \in [Generation -> [pc : {"new", "find", "save", "insert", "reread",
                                   "event", "answered", "failed"},
                             tries : 0 .. PutAttempts - 1]]
  /\ failures \in 0 .. Failures

MediaInit ==
  /\ mode \in Mode /\ owner = TRUE
  /\ objects = [g \in Generation |-> "none"]
  /\ assets = << >> /\ mediaEvents = << >>
  /\ gen = [g \in Generation |-> [pc |-> "new", tries |-> 0]]
  /\ failures = 0

-----------------------------------------------------------------------------
Move(g, from, to) == gen[g].pc = from /\ gen' = [gen EXCEPT ![g].pc = to]
Kept == UNCHANGED <<mode, owner, failures>>

\* findUserForAvatar, findMapForQr: a deleted owner is a 404.
FindOwner(g) ==
  /\ Move(g, "new", IF owner THEN "find" ELSE "answered")
  /\ Kept /\ UNCHANGED <<objects, assets, mediaEvents>>

\* findExistingUserAvatar, findExistingMapQr: the youngest asset answers.
FindExisting(g) ==
  /\ Move(g, "find", IF assets = << >> THEN "save" ELSE "answered")
  /\ Kept /\ UNCHANGED <<objects, assets, mediaEvents>>

\* saveToDatabase: the row will carry the content.
SaveInRow(g) ==
  /\ mode = "database" /\ Move(g, "save", "insert")
  /\ Kept /\ UNCHANGED <<objects, assets, mediaEvents>>

\* Injected bug: the promise of writeFile is not awaited.
WriteFileUnawaited(g) ==
  /\ mode = "local-file" /\ Move(g, "save", "insert")
  /\ objects' = [objects EXCEPT ![g] = "partial"]
  /\ Kept /\ UNCHANGED <<assets, mediaEvents>>

\* saveToLocalFile: writeFile creates the file and then fills it.
WriteFile(g) ==
  /\ mode = "local-file"
  /\ objects' = [objects EXCEPT ![g] = IF @ = "none" THEN "partial" ELSE "whole"]
  /\ IF objects[g] = "none" THEN gen[g].pc = "save" /\ UNCHANGED gen
                            ELSE Move(g, "save", "insert")
  /\ Kept /\ UNCHANGED <<assets, mediaEvents>>

\* putS3Object, answered.
PutObject(g) ==
  /\ mode = "s3-compatible" /\ Move(g, "save", "insert")
  /\ objects' = [objects EXCEPT ![g] = "whole"]
  /\ Kept /\ UNCHANGED <<assets, mediaEvents>>

\* createAsset, and its findByIdOrThrow.
InsertAsset(g) ==
  /\ Move(g, "insert", "reread")
  /\ assets' = Append(assets, g)
  /\ Kept /\ UNCHANGED <<objects, mediaEvents>>

RereadAsset(g) ==
  /\ Move(g, "reread", "event")
  /\ Kept /\ UNCHANGED <<objects, assets, mediaEvents>>

\* Injected bug: the event names the youngest asset.
AppendYoungest(g) ==
  /\ Move(g, "event", "answered")
  /\ mediaEvents' = Append(mediaEvents, Len(assets))
  /\ Kept /\ UNCHANGED <<objects, assets>>

\* DomainEventOutboxWriter.append.
AppendEvent(g) ==
  /\ Move(g, "event", "answered")
  /\ mediaEvents' = Append(mediaEvents, RowOf(g))
  /\ Kept /\ UNCHANGED <<objects, assets>>
-----------------------------------------------------------------------------
(* Failures.                                                                *)

Fails == failures < Failures /\ failures' = failures + 1

\* Injected bug: one attempt too many.
MayTryAgainLate(g) == gen[g].tries + 1 <= PutAttempts

\* executeWithRetry stops after maxAttempts.
MayTryAgain(g) == gen[g].tries + 1 < PutAttempts

\* An aborted or refused PUT, also one that was stored: tried again under the
\* same key, and a 503 after the last attempt or when the circuit is open.
PutFails(g) ==
  /\ Fails
  /\ mode = "s3-compatible" /\ gen[g].pc = "save"
  /\ \/ UNCHANGED objects
     \/ objects' = [objects EXCEPT ![g] = "whole"]
  /\ \/ gen' = [gen EXCEPT ![g].pc = "failed"]
     \/ /\ MayTryAgain(g)
        /\ gen' = [gen EXCEPT ![g].tries = @ + 1]
  /\ UNCHANGED <<mode, owner, assets, mediaEvents>>

\* A statement or a write throws, or the process dies: the call is over, and
\* its statement took effect or not.
GenerationFails(g) ==
  /\ Fails
  /\ gen[g].pc \in {"find", "save", "insert", "reread", "event"}
  /\ gen' = [gen EXCEPT ![g].pc = "failed"]
  /\ \/ UNCHANGED <<assets, mediaEvents>>
     \/ /\ gen[g].pc = "insert" /\ assets' = Append(assets, g)
        /\ UNCHANGED mediaEvents
     \/ /\ gen[g].pc = "event" /\ mediaEvents' = Append(mediaEvents, RowOf(g))
        /\ UNCHANGED assets
  /\ UNCHANGED <<mode, owner, objects>>

\* The owner is soft-deleted or restored beside the generation.
OwnerChanges ==
  /\ owner' = ~owner
  /\ UNCHANGED <<mode, objects, assets, mediaEvents, gen, failures>>

\* generateUserAvatar and generateMapQr take the same steps.
Generate(g) ==
  \/ FindOwner(g) \/ FindExisting(g)
  \/ SaveInRow(g) \/ WriteFile(g) \/ PutObject(g) \/ PutFails(g)
  \/ InsertAsset(g) \/ RereadAsset(g) \/ AppendEvent(g)

MediaNext ==
  \/ \E g \in Generation : Generate(g) \/ GenerationFails(g)
  \/ OwnerChanges

MediaSpec == MediaInit /\ [][MediaNext]_mediaVars

-----------------------------------------------------------------------------
(* Properties.                                                              *)

InTable(g) == \E i \in DOMAIN assets : assets[i] = g
HasContent(g) == mode = "database" \/ objects[g] = "whole"
Orphans == {g \in Generation : /\ objects[g] # "none" /\ ~InTable(g)
                               /\ gen[g].pc \notin {"save", "insert"}}
OfRow(i)   == {j \in DOMAIN mediaEvents : mediaEvents[j] = i}

\* A failure between the store and the table leaves an object without a row,
\* at most one for each failure, and never a row without its whole content.
RowHasContent ==
  /\ \A i \in DOMAIN assets : HasContent(assets[i])
  /\ Cardinality(Orphans) <= failures

\* An asset has one MediaGenerated event.  It has none only while its generation
\* is about to append it, or for ever when that generation failed after the
\* INSERT: a retry finds the asset and announces nothing.
EventPerAsset ==
  \A i \in DOMAIN assets :
    \/ Cardinality(OfRow(i)) = 1
    \/ OfRow(i) = {} /\ gen[assets[i]].pc \in {"reread", "event", "failed"}

\* What is stored, recorded and announced, whatever step of it failed.
MediaConsistent == RowHasContent /\ EventPerAsset

-----------------------------------------------------------------------------
(* The inductive invariant.  TLC checks it on a small instance,             *)
(* ServicesProofs proves it for every one.                                  *)

\* What the place of generation g says of its object and its row.
Staged(g) ==
  LET pc == gen[g].pc IN
  /\ pc \in {"new", "find"} => objects[g] = "none"
  /\ pc \in {"insert", "reread", "event"} => HasContent(g)
  /\ pc \in {"reread", "event"} => InTable(g)
  /\ pc = "answered" => InTable(g) \/ objects[g] = "none"
  /\ InTable(g) => /\ pc \in {"reread", "event", "answered", "failed"}
                   /\ HasContent(g)

\* Row i was announced, or its generation is not through.
Announced(i) ==
  gen[assets[i]].pc \in IF OfRow(i) = {} THEN {"reread", "event", "failed"}
                                        ELSE {"answered", "failed"}

MediaInv ==
  /\ MediaTypeOK
  /\ \A g \in Generation : Staged(g)
  /\ \A i, j \in DOMAIN assets : assets[i] = assets[j] => i = j
  /\ \A i, j \in DOMAIN mediaEvents : mediaEvents[i] = mediaEvents[j] => i = j
  /\ \A i \in DOMAIN assets : Announced(i)
  /\ IsFiniteSet(Orphans) /\ Cardinality(Orphans) <= failures
=============================================================================
