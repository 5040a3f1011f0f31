------------------------------- MODULE Bundles --------------------------------
(***************************************************************************)
(* The supervisor's bundle of the desired version on the control plane:    *)
(* its record in the registry, in memory, and its file.  A build stands    *)
(* for the bytes of a bundle and for their digest.                         *)
(***************************************************************************)
EXTENDS Naturals

CONSTANTS Builds,      \* builds that a publisher may put at that version
          Signed,      \* those whose signature verifies under the publishers' keys
          PlaneChecks  \* whether publisher keys are configured at the control plane

NoBuild == "none"
TornBuild == "torn"

ASSUME BundlesAssumption ==
  /\ Signed \subseteq Builds /\ PlaneChecks \in BOOLEAN
  /\ NoBuild \notin Builds /\ TornBuild \notin Builds

VARIABLES
  registered,  \* the build the registry has a record of
  file,        \* the build in the bundle's file
  putting,     \* the build that a request is writing to it
  accepted     \* the builds that any process of the control plane has registered

bundles == <<registered, file, putting, accepted>>

BundlesInit ==
  registered = NoBuild /\ file = NoBuild /\ putting = NoBuild /\ accepted = {}

\* publishBundle, one request at a time: the signature is verified and the file
\* of this version opened for writing, whatever is in it.
PublishBegins(b) ==
  /\ putting = NoBuild
  /\ PlaneChecks => b \in Signed
  /\ putting' = b
  /\ file' = TornBuild
  /\ UNCHANGED <<registered, accepted>>

\* The file is written; a version that has a record keeps it, and the publisher
\* is told 409.
PublishEnds ==
  /\ putting # NoBuild
  /\ file' = putting
  /\ registered' = IF registered = NoBuild THEN putting ELSE registered
  /\ accepted' = IF registered = NoBuild THEN accepted \cup {putting} ELSE accepted
  /\ putting' = NoBuild

\* The process dies: the registry is not stored, the file is left as it is.
BundlesDie ==
  /\ registered' = NoBuild /\ putting' = NoBuild
  /\ UNCHANGED <<file, accepted>>

\* GET of the bundle by a client that expects digest b: streamBundle sends the file
\* of a registered bundle, downloadToFile compares.
Downloads(b) == registered # NoBuild /\ file = b
=============================================================================
