------------------------------- MODULE Catalog -------------------------------
(***************************************************************************)
(* What CatalogClient (src/src/catalog.rs) makes of an answer of the       *)
(* release service, and which of the releases the window lets pass         *)
(* (validate_release_image, src/src/app.rs).                               *)
(*                                                                         *)
(* A manifest is [schema, channel, version, image]: version is its place   *)
(* in the order of semantic versions, 0 when it cannot be parsed, and      *)
(* image[b] says what is published for a board:                            *)
(*   "complete"  an immutable URL, both checksums and both sizes           *)
(*   "unhashed"  an immutable URL, but a checksum or a size is missing     *)
(*   "movable"   the URL is missing or not the immutable one               *)
(*   "missing"   nothing                                                   *)
(***************************************************************************)
EXTENDS Integers, Sequences

CONSTANTS
  Boards,
  NoSchema  \* a manifest of schema v1 does not tell its schema

Manifests ==
  [schema: {NoSchema} \cup Nat, channel: STRING, version: Nat,
   image: [Boards -> {"complete", "unhashed", "movable", "missing"}]]

MaxReleases == 20

(* validate_download_manifest, validate_immutable_url: v1 passes unseen.   *)
ValidManifest(m) ==
  \/ m.schema = NoSchema
  \/ /\ m.schema = 2
     /\ m.version > 0
     /\ \A b \in Boards : m.image[b] \in {"complete", "unhashed"}

ValidCatalog_AnyOrder(c, channel) ==
  /\ c.schema = 1 /\ c.channel = channel
  /\ Len(c.releases) \in 1 .. MaxReleases
  /\ \A i \in DOMAIN c.releases :
       ValidManifest(c.releases[i]) /\ c.releases[i].channel = channel

(* validate_catalog: one channel, newest first, no version twice.          *)
ValidCatalog(c, channel) ==
  /\ c.schema = 1 /\ c.channel = channel
  /\ Len(c.releases) \in 1 .. MaxReleases
  /\ \A i \in DOMAIN c.releases :
       /\ ValidManifest(c.releases[i])
       /\ c.releases[i].channel = channel
       /\ c.releases[i].version > 0
       /\ i > 1 => c.releases[i].version < c.releases[i - 1].version

(* fetch_catalog, fetch_latest: an old server has no catalog, and its      *)
(* latest manifest is taken for one.  <<>> when the channel failed.        *)
FetchCatalog(answer, channel) ==
  CASE answer.kind = "catalog" /\ ValidCatalog(answer.catalog, channel) ->
         answer.catalog.releases
    [] answer.kind = "latest" /\ ValidManifest(answer.manifest) ->
         <<answer.manifest>>
    [] OTHER -> <<>>

(* What is listed first is the newest. *)
NewestFirst(releases) ==
  \A i \in DOMAIN releases : releases[i].version <= releases[1].version

(* validate_release_image, required_hash, required_size: only v2 with      *)
(* complete metadata can be flashed.                                       *)
Pending(m)        == m.schema # 2
Installable(m, b) == ~Pending(m) /\ m.image[b] = "complete"
=============================================================================
