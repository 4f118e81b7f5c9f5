---------------------------- MODULE CacheSettings ----------------------------
(***************************************************************************)
(* Which cache stores the process builds from its scale sets, and whose    *)
(* settings each of them gets (cmd/runner/main.go, "cachestore.CacheStore  *)
(* construction").  Several scale sets may name one daemon, one volume or  *)
(* one TART_HOME: there is one store for it, which the routine sweepers    *)
(* and the disk guard share, and one scale set's settings win.             *)
(*                                                                         *)
(* Ages are whole days; 0 is "not set".  The configuration does not change *)
(* while the process runs: the only step builds the stores.                *)
(***************************************************************************)
EXTENDS Integers, Sequences, Functions

CONSTANTS
    Configs,           \* the scale set lists to look at, in configuration order
    DefaultPruneTTL, DefaultBuildCacheMaxAge, DefaultBuildxTTL, DefaultTartCacheMaxAge

\* What Validate lets through; a duration may be negative.
DockerSets ==
    [provider : {"docker"}, socket : STRING, prune : BOOLEAN, ttl : Int, cacheAge : Int,
     buildx : BOOLEAN, buildxTTL : Int, shared : STRING, sharedAge : Int,
     short : Seq(STRING), long : Seq([volume : STRING, budget : Nat, onExceed : STRING])]

TartSets == [provider : {"tart"}, home : STRING, image : STRING, cleanup : BOOLEAN, tartAge : Int]

CacheAssumption ==
    /\ Configs \subseteq Seq(DockerSets \cup TartSets)
    /\ {DefaultPruneTTL, DefaultBuildCacheMaxAge, DefaultBuildxTTL, DefaultTartCacheMaxAge}
          \subseteq Nat \ {0}

VARIABLES scaleSets, stores

vars == <<scaleSets, stores>>

NotBuilt == {}

NoVolume == "none"

-----------------------------------------------------------------------------
IsTart(ss) == ss.provider = "tart"
IsDocker(ss) == ~IsTart(ss)

\* The places of the scale sets of a socket and of a home.
SetsOn(sets, socket) == {i \in DOMAIN sets : IsDocker(sets[i]) /\ sets[i].socket = socket}
SetsIn(sets, home) == {i \in DOMAIN sets : IsTart(sets[i]) /\ sets[i].home = home}

Sockets(sets) == {ss.socket : ss \in {x \in Range(sets) : IsDocker(x)}}
Homes(sets) == {ss.home : ss \in {x \in Range(sets) : IsTart(x)}}

Or(value, default) == IF value = 0 THEN default ELSE value
OrPositive(value, default) == IF value <= 0 THEN default ELSE value

FirstOf(places) == CHOOSE i \in places : \A j \in places : i <= j

\* dockerSettingsSource: the first scale set with the routine sweep on, else the first.
SettingsSource(sets, own, on) == sets[FirstOf(IF on = {} THEN own ELSE on)]

PruneEnabled(sets, own) == {i \in own : sets[i].prune}

Garbage(socket, on, ttl) ==
    [kind |-> "garbage", socket |-> socket, name |-> "docker-garbage", volume |-> NoVolume,
     enabled |-> on # {}, ttl |-> ttl]

BuildCache(socket, on, ttl) ==
    [kind |-> "cache", socket |-> socket, name |-> "docker-build-cache", volume |-> NoVolume,
     enabled |-> on # {}, ttl |-> ttl]

\* A mutant: with the routine sweep off everywhere, no settings are taken at all.
PruneStores_OffIsZero(sets, socket) ==
    LET own == SetsOn(sets, socket)
        on == PruneEnabled(sets, own)
        source == SettingsSource(sets, own, on)
    IN  {Garbage(socket, on, IF on = {} THEN 0 ELSE Or(source.ttl, DefaultPruneTTL)),
         BuildCache(socket, on, IF on = {} THEN 0 ELSE Or(source.cacheAge, DefaultBuildCacheMaxAge))}

\* A mutant: the last scale set with the routine sweep on wins.
PruneStores_LastWins(sets, socket) ==
    LET own == SetsOn(sets, socket)
        on == PruneEnabled(sets, own)
        source == sets[CHOOSE i \in (IF on = {} THEN own ELSE on) : \A j \in on : j <= i]
    IN  {Garbage(socket, on, Or(source.ttl, DefaultPruneTTL)),
         BuildCache(socket, on, Or(source.cacheAge, DefaultBuildCacheMaxAge))}

\* dockerPruneSettingsFor: the garbage and the build-cache store of a socket.  Only an age
\* that is not set gets the default; a negative one turns that part off.
PruneStores(sets, socket) ==
    LET own == SetsOn(sets, socket)
        on == PruneEnabled(sets, own)
        source == SettingsSource(sets, own, on)
    IN  {Garbage(socket, on, Or(source.ttl, DefaultPruneTTL)),
         BuildCache(socket, on, Or(source.cacheAge, DefaultBuildCacheMaxAge))}

\* buildxConfigFor: another switch, and any age that is not positive gets the default.
BuildxStore(sets, socket) ==
    LET own == SetsOn(sets, socket)
        on == {i \in own : sets[i].buildx}
    IN  [kind |-> "garbage", socket |-> socket, name |-> "buildx", volume |-> NoVolume,
         enabled |-> on # {},
         ttl |-> OrPositive(SettingsSource(sets, own, on).buildxTTL, DefaultBuildxTTL)]

-----------------------------------------------------------------------------
\* A mutant: the first scale set that names the volume wins, with or without a max age.
SharedSource_First(sets, socket, volume) ==
    sets[FirstOf({i \in SetsOn(sets, socket) : sets[i].shared = volume})]

\* sharedVolumeSweepTargetsFor: the first scale set that names the volume, unless it has no
\* max age and a later one has.
SharedSource(sets, socket, volume) ==
    LET naming == {i \in SetsOn(sets, socket) : sets[i].shared = volume}
    IN  SettingsSource(sets, naming, {i \in naming : sets[i].sharedAge > 0})

SharedVolumes(sets, socket) == {sets[i].shared : i \in SetsOn(sets, socket)} \ {NoVolume}

SharedStore(sets, socket, volume) ==
    LET age == SharedSource(sets, socket, volume).sharedAge
    IN  [kind |-> "scratch", socket |-> socket, name |-> "shared-volume", volume |-> volume,
         enabled |-> age > 0, ttl |-> age]

SharedStores(sets, socket) ==
    {SharedStore(sets, socket, volume) : volume \in SharedVolumes(sets, socket)}

-----------------------------------------------------------------------------
\* ParseCacheVolumes: a volume has a short or a long entry, or both; a long entry replaces
\* the short one of its name as a whole.
Mounted(ss) == Range(ss.short) \cup {m.volume : m \in Range(ss.long)}

Mount(ss, volume) ==
    LET long == {j \in DOMAIN ss.long : ss.long[j].volume = volume}
    IN  IF long # {} THEN ss.long[FirstOf(long)]
        ELSE [volume |-> volume, budget |-> 0, onExceed |-> "warn"]

CacheStore(socket, m) ==
    [kind |-> "cache", socket |-> socket, name |-> "cache-volume", volume |-> m.volume,
     enabled |-> TRUE, budget |-> m.budget, onExceed |-> m.onExceed]

CacheVolumes(sets, socket) == UNION {Mounted(sets[i]) : i \in SetsOn(sets, socket)}

\* A mutant: a store for every scale set that mounts the volume.
CacheVolumeStores_PerSet(sets, socket) ==
    {CacheStore(socket, Mount(sets[x[1]], x[2])) :
         x \in {y \in SetsOn(sets, socket) \X CacheVolumes(sets, socket) : y[2] \in Mounted(sets[y[1]])}}

\* cacheVolumeStoresFor: the first scale set that mounts a volume gives its settings.
CacheVolumeStores(sets, socket) ==
    {CacheStore(socket, Mount(sets[FirstOf({i \in SetsOn(sets, socket) : v \in Mounted(sets[i])})], v)) :
         v \in CacheVolumes(sets, socket)}

-----------------------------------------------------------------------------
CleanupEnabled(sets, own) == {i \in own : sets[i].cleanup}

\* A mutant: only the images of scale sets that enable the clean-up are kept.
TartStore_EnabledImages(sets, home) ==
    LET own == SetsIn(sets, home)
        on == CleanupEnabled(sets, own)
    IN  [kind |-> "cache", home |-> home, name |-> "tart-cache", enabled |-> on # {},
         ttl |-> OrPositive(SettingsSource(sets, own, on).tartAge, DefaultTartCacheMaxAge),
         keep |-> {sets[i].image : i \in on}]

\* tartCacheStoreFor: the settings of the first scale set with the clean-up on, else of the
\* first; the images of all of them are kept.
TartStore(sets, home) ==
    LET own == SetsIn(sets, home)
        on == CleanupEnabled(sets, own)
    IN  [kind |-> "cache", home |-> home, name |-> "tart-cache", enabled |-> on # {},
         ttl |-> OrPositive(SettingsSource(sets, own, on).tartAge, DefaultTartCacheMaxAge),
         keep |-> {sets[i].image : i \in own}]

\* dockerCacheStoresForSocket and flatten, for every socket, and tartCacheStores.
DockerStores(sets) ==
    UNION {PruneStores(sets, socket) \cup {BuildxStore(sets, socket)} \cup SharedStores(sets, socket)
              \cup CacheVolumeStores(sets, socket) : socket \in Sockets(sets)}

TartStores(sets) == {TartStore(sets, home) : home \in Homes(sets)}

-----------------------------------------------------------------------------
Init == scaleSets \in Configs /\ stores = NotBuilt

\* runManager builds every store once.
Build ==
    /\ stores = NotBuilt
    /\ stores' = DockerStores(scaleSets) \cup TartStores(scaleSets)
    /\ UNCHANGED scaleSets

Next == Build

Spec == Init /\ [][Next]_vars

DockerBuilt == {s \in stores : s.name # "tart-cache"}
TartBuilt == {s \in stores : s.name = "tart-cache"}
Built == stores # NotBuilt

-----------------------------------------------------------------------------
(* Properties.                                                             *)

\* Every volume and every TART_HOME that a scale set names has one store for each way it
\* is used, so that all passes over it go through one semaphore; a volume that is the
\* shared volume of one scale set and a cache volume of another has both.  There is no
\* store of a volume that no scale set of the daemon uses that way.
OneStoreEach ==
    Built =>
        /\ \A a, b \in DockerBuilt :
              a.socket = b.socket /\ a.name = b.name /\ a.volume = b.volume => a = b
        /\ \A a, b \in TartBuilt : a.home = b.home => a = b
        /\ \A ss \in Range(scaleSets) : IsDocker(ss) =>
              /\ \A v \in Mounted(ss) : \E s \in DockerBuilt :
                    s.socket = ss.socket /\ s.name = "cache-volume" /\ s.volume = v
              /\ ss.shared # NoVolume => \E s \in DockerBuilt :
                    s.socket = ss.socket /\ s.name = "shared-volume" /\ s.volume = ss.shared
        /\ \A s \in DockerBuilt : s.volume # NoVolume =>
              \E ss \in Range(scaleSets) :
                 /\ IsDocker(ss) /\ ss.socket = s.socket
                 /\ IF s.kind = "scratch" THEN s.volume = ss.shared ELSE s.volume \in Mounted(ss)

\* A shared volume for which any scale set of the daemon gives a max age is reclaimed by a
\* max age one of them gave; without one it is reclaimed by none.
RetentionIsConfigured ==
    Built => \A s \in DockerBuilt : s.kind = "scratch" =>
        LET ages == {ss.sharedAge : ss \in {x \in Range(scaleSets) :
                        IsDocker(x) /\ x.socket = s.socket /\ x.shared = s.volume /\ x.sharedAge > 0}}
        IN  IF ages = {} THEN s.ttl <= 0 /\ ~s.enabled ELSE s.ttl \in ages /\ s.enabled

\* The disk guard has something to reclaim by on a host where nobody turned a routine sweep
\* on: garbage, build layers and Tart images always have a retention of their own, which is
\* off only when the scale set that gives the settings turned it off.
GuardHasSettings ==
    Built => /\ \A s \in DockerBuilt : s.name = "docker-garbage" =>
                   /\ s.ttl # 0
                   /\ s.ttl < 0 => \E ss \in Range(scaleSets) :
                                      IsDocker(ss) /\ ss.socket = s.socket /\ ss.ttl = s.ttl
             /\ \A s \in DockerBuilt : s.name = "docker-build-cache" =>
                   /\ s.ttl # 0
                   /\ s.ttl < 0 => \E ss \in Range(scaleSets) :
                                      IsDocker(ss) /\ ss.socket = s.socket /\ ss.cacheAge = s.ttl
             /\ \A s \in stores : s.name \in {"tart-cache", "buildx"} => s.ttl > 0

\* A scale set added at the end of the configuration changes nothing for a daemon or a
\* TART_HOME whose routine clean-up an earlier one turned on.
EarlierSetsDecide ==
    Built => \A n \in 1..(Len(scaleSets) - 1) :
        LET some == SubSeq(scaleSets, 1, n)
        IN  /\ \A socket \in Sockets(some) :
                  PruneEnabled(some, SetsOn(some, socket)) # {} =>
                      PruneStores(some, socket) \subseteq DockerBuilt
            /\ \A home \in Homes(some) :
                  CleanupEnabled(some, SetsIn(some, home)) # {} =>
                      \E s \in TartBuilt : s.home = home /\ s.ttl = TartStore(some, home).ttl

\* Every image a scale set clones from a TART_HOME is kept by the prune of that home,
\* whichever scale set provides the settings.
HomeKeepsImages ==
    Built => \A ss \in Range(scaleSets) : IsTart(ss) =>
        \A s \in TartBuilt : s.home = ss.home => ss.image \in s.keep

=============================================================================
