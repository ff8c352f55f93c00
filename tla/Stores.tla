------------------------------- MODULE Stores -------------------------------
(* Building object stores: from the configuration and from the options of    *)
(* CREATE EXTERNAL TABLE (object_store_factory/src/{lib,aws,google}.rs,      *)
(* prepare_create_external_table), from a location and its options, as the   *)
(* external catalog lists them, and the map in which those stores are kept   *)
(* (src/object_store/factory.rs).                                            *)
(*                                                                           *)
(* Options are functions from the keys that are set to their values; a store *)
(* is what it connects to and as whom.                                       *)
EXTENDS Naturals, Sequences, FiniteSets

CONSTANTS
  Sessions,
  Configs,       \* configurations: see S3Config and GCSConfig
  Locations,     \* pairs of a URL and options whose log store may be asked for
  Environment,   \* what the AWS_* and GOOGLE_* variables set
  DetectedRegion,\* the region a bucket is in
  MaxRequests

None == "none"
S3Keys  == {"region", "key", "secret", "token", "endpoint"}
Flags   == {"allow_http", "skip_signature"}

VARIABLES
  ses,      \* what each session is doing
  stores,   \* custom_stores: the store kept for a location, by URL and options
  registry, \* the stores DataFusion finds by URL, for external tables
  opened,   \* history: the table by which each of those was registered last
  sent

storesVars == <<ses, stores, registry, opened, sent>>

NoStore == [built |-> FALSE]
Failed == [failed |-> TRUE]
Session(pc, loc, store) == [pc |-> pc, loc |-> loc, store |-> store]
Quiet == Session("idle", <<>>, NoStore)

Get(opts, k) == IF k \in DOMAIN opts THEN opts[k] ELSE None

(* The entries of both maps; those of the first win.                         *)
Over(f, g) == [x \in DOMAIN f \cup DOMAIN g |-> IF x \in DOMAIN f THEN f[x] ELSE g[x]]

(* -------------------------- S3 and GCS configuration --------------------- *)

(* from_hashmap, and from_bucket_and_options under keys of its own: what is  *)
(* set is taken over, the flags are on unless they are "false".              *)
S3Config(bucket, opts) ==
  LET Flag(k) == IF k \in DOMAIN opts THEN opts[k] # "false" ELSE TRUE
  IN  [scheme |-> "s3", bucket |-> bucket, region |-> Get(opts, "region"),
       key |-> Get(opts, "key"), secret |-> Get(opts, "secret"), token |-> Get(opts, "token"),
       endpoint |-> Get(opts, "endpoint"),
       allow_http |-> Flag("allow_http"), skip_signature |-> Flag("skip_signature")]

GCSConfig(bucket, opts) ==
  [scheme |-> "gs", bucket |-> bucket, prefix |-> None, credentials |-> Get(opts, "credentials")]

S3Store(bucket, region, endpoint, http, signer) ==
  [scheme |-> "s3", bucket |-> bucket, region |-> region, endpoint |-> endpoint,
   http |-> http, signer |-> signer]

GCSStore(bucket, credentials) == [scheme |-> "gs", bucket |-> bucket, signer |-> <<credentials>>]

(* build_object_store: requests are signed with the keys if there are both.  *)
(* Without them the configuration must say that they are not signed.         *)
BuildS3(cfg) ==
  IF cfg.key # None /\ cfg.secret # None
  THEN S3Store(cfg.bucket, cfg.region, cfg.endpoint, cfg.allow_http,
               <<cfg.key, cfg.secret, cfg.token>>)
  ELSE IF cfg.skip_signature
  THEN S3Store(cfg.bucket, cfg.region, cfg.endpoint, cfg.allow_http, <<"unsigned">>)
  ELSE Failed

build_object_store(cfg) ==
  IF cfg.scheme = "s3" THEN BuildS3(cfg) ELSE GCSStore(cfg.bucket, cfg.credentials)

(* ----------------------- Stores from URL and options --------------------- *)

(* add_amazon_s3_specific_options: the region is looked up unless the        *)
(* options have a bucket or an endpoint.                                     *)
NeedsRegion(opts) == DOMAIN opts \cap {"bucket", "endpoint"} = {}

WithRegion(opts) ==
  IF NeedsRegion(opts)
  THEN Over([region |-> DetectedRegion], opts)
  ELSE opts

(* The environment wins over the options.                                    *)
WithEnvironment(opts) == Over(Environment, opts)

S3FromOptions(bucket, opts) ==
  LET o == WithEnvironment(WithRegion(opts))
  IN  S3Store(bucket, Get(o, "region"), Get(o, "endpoint"), Get(o, "allow_http") = "true",
              IF Get(o, "skip_signature") = "true" THEN <<"unsigned">>
              ELSE IF {"key", "secret"} \subseteq DOMAIN o
              THEN <<o["key"], o["secret"], Get(o, "token")>>
              ELSE <<"ambient">>)

(* build_object_store_from_opts: a key that the scheme does not know is an   *)
(* error, and so is any other scheme.                                        *)
build_object_store_from_opts(url, opts) ==
  CASE url.scheme = "s3" /\ DOMAIN opts \subseteq S3Keys \cup Flags \cup {"bucket"} ->
         S3FromOptions(url.bucket, opts)
    [] url.scheme = "gs" /\ DOMAIN opts \subseteq {"bucket", "credentials"} ->
         GCSStore(url.bucket, Get(WithEnvironment(opts), "credentials"))
    [] url.scheme \in {"file", "memory"} -> [scheme |-> url.scheme, bucket |-> url.bucket]
    [] OTHER -> Failed

(* What the constants may be: the server has started with each of the        *)
(* configurations.                                                           *)
StoresParametersOK ==
  /\ \A l \in Locations : l.url.scheme \in {"s3", "gs", "file", "memory", "ftp"}
  /\ \A c \in Configs : c.scheme \in {"s3", "gs"} /\ build_object_store(c) # Failed
  /\ MaxRequests \in Nat

(* Whoever brings options does not know the keys of the internal store; an   *)
(* option that is not set is not there.                                      *)
InternalKey(cfg) == IF cfg.scheme = "s3" THEN cfg.key ELSE cfg.credentials
KeysAreSecret ==
  \A l \in Locations : \A k \in DOMAIN l.opts :
    l.opts[k] # None /\ \A c \in Configs : l.opts[k] # InternalKey(c)

(* --------------------------------- Actions ------------------------------- *)

SessionAt(s, pc) == ses[s].pc = pc
GiveStore(s, store) == ses' = [ses EXCEPT ![s] = Session("idle", @.loc, store)]

AskStore(s, l) ==
  /\ SessionAt(s, "idle") /\ sent < MaxRequests
  /\ sent' = sent + 1
  /\ ses' = [ses EXCEPT ![s] = Session("lookup", l, NoStore)]
  /\ UNCHANGED <<stores, registry, opened>>

StoreCacheKey_UrlOnly(l) == [l EXCEPT !.opts = <<>>]

(* A location's key: its URL and all of its options.                         *)
StoreCacheKey(l) == l

(* get_log_store_for_table: a store that is kept for the location is used,   *)
LookupStore(s) ==
  /\ SessionAt(s, "lookup")
  /\ LET k == StoreCacheKey(ses[s].loc)
     IN  IF k \in DOMAIN stores
         THEN GiveStore(s, stores[k])
         ELSE ses' = [ses EXCEPT ![s] = Session("build", @.loc, NoStore)]
  /\ UNCHANGED <<stores, registry, opened, sent>>

(* otherwise one is built, which may take a lookup of the region (and panics *)
(* when that fails), and kept: in place of one that another session has      *)
(* built in the meantime.                                                    *)
BuildStore(s) ==
  /\ SessionAt(s, "build")
  /\ LET l == ses[s].loc
         store == build_object_store_from_opts(l.url, l.opts)
     IN  \/ /\ store = Failed \/ (l.url.scheme = "s3" /\ NeedsRegion(l.opts))
            /\ GiveStore(s, Failed)
            /\ UNCHANGED stores
         \/ /\ store # Failed
            /\ stores' = Over([k \in {StoreCacheKey(l)} |-> store], stores)
            /\ GiveStore(s, store)
  /\ UNCHANGED <<registry, opened, sent>>

(* The configuration an external table's bucket is opened with: its options  *)
(* and nothing else, or that of the internal store if it has none.           *)
ExternalConfig(l, internal) ==
  IF DOMAIN l.opts = {} THEN [internal EXCEPT !.bucket = l.url.bucket]
  ELSE IF l.url.scheme = "s3" THEN S3Config(l.url.bucket, l.opts)
  ELSE GCSConfig(l.url.bucket, l.opts)

(* CREATE EXTERNAL TABLE: the store is registered for the whole bucket, in   *)
(* place of the one by which earlier tables of the bucket are read; a table  *)
(* without options needs an internal store of the same kind.                 *)
PrepareExternalTable(s, l, internal) ==
  /\ SessionAt(s, "idle") /\ sent < MaxRequests /\ l.url.scheme \in {"s3", "gs"}
  /\ sent' = sent + 1
  /\ LET fails == DOMAIN l.opts = {} /\ internal.scheme # l.url.scheme
         store == IF fails THEN Failed ELSE build_object_store(ExternalConfig(l, internal))
     IN  IF store = Failed
         THEN UNCHANGED <<registry, opened>>
         ELSE /\ registry' = Over([u \in {l.url} |-> store], registry)
              /\ opened' = Over([u \in {l.url} |-> l], opened)
  /\ UNCHANGED <<ses, stores>>

(* ------------------------------ Specification ---------------------------- *)

StoresInit ==
  /\ ses = [s \in Sessions |-> Quiet]
  /\ stores = <<>> /\ registry = <<>>
  /\ opened = <<>> /\ sent = 0

StoresNext ==
  \E s \in Sessions :
    \/ \E l \in Locations : AskStore(s, l)
    \/ LookupStore(s) \/ BuildStore(s)
    \/ \E l \in Locations, c \in Configs : PrepareExternalTable(s, l, c)

StoresSpec == StoresInit /\ [][StoresNext]_storesVars

(* ------------------------------- Properties ------------------------------ *)

(* A session is given a store for its own location: never one that was built *)
(* with the options, and so the credentials, of another.                     *)
StoreServesLocation ==
  \A s \in Sessions : SessionAt(s, "idle") /\ ses[s].store \notin {NoStore, Failed} =>
    ses[s].store = build_object_store_from_opts(ses[s].loc.url, ses[s].loc.opts)

(* Credentials that are the server's: those of an internal store, and the    *)
(* identity of the machine, by which a GCS store without credentials signs.  *)
ServerSigners == ({build_object_store(c).signer : c \in Configs} \ {<<"unsigned">>}) \cup {<<None>>}
BringsCredentials(l) == (IF l.url.scheme = "s3" THEN "key" ELSE "credentials") \in DOMAIN l.opts

(* The external tables of a bucket are read with the server's credentials    *)
(* only if the table that was created last in the bucket brought none of its *)
(* own: the store is the bucket's and not the table's (physical.rs:837), so  *)
(* that table decides for the earlier ones too.                              *)
OwnCredentials ==
  \A u \in DOMAIN registry : registry[u].signer \in ServerSigners => ~BringsCredentials(opened[u])

(* Both: sessions never get a store that acts with the credentials of        *)
(* another location, and a bucket is never read with those of the server     *)
(* after a table that brought its own.                                       *)
OwnStore == StoreServesLocation /\ OwnCredentials

=============================================================================
