------------------------------- MODULE Settings --------------------------------
(***************************************************************************)
(* The S3 settings (settings/settings.go, putSettings in                   *)
(* api/system_handlers.go) and the backend built from them (S3Manager in   *)
(* storage/s3.go); and a notification channel with its secret              *)
(* (notify/store.go, updateChannel in api/notify_handlers.go), which has   *)
(* the same write-only field. Each request is a row of statements without  *)
(* a transaction.                                                          *)
(*                                                                         *)
(* A configuration is [on, tag, secret]: the tag stands for everything the *)
(* manager's fingerprint covers. A channel's type is named by the one key  *)
(* of its configuration that is kept secret (secretKeys in notify/store.go;*)
(* two types that share the key are one), and its row has a secret, or     *)
(* none, under every key. Encryption is a bijection with the server key    *)
(* and left out; NoSecret is the empty string.                             *)
(***************************************************************************)
EXTENDS Naturals, FiniteSets

CONSTANTS
    Tags,
    Secrets,
    SecretKeys,  \* the types of channel, by their secret key
    Puts,        \* requests that change settings or the channel at once
    Callers,     \* callers of Backend at once
    MaxPuts      \* bound: requests

NoSecret == "none"
ASSUME SettingsAssumption ==
    /\ IsFiniteSet(Puts) /\ IsFiniteSet(Callers) /\ NoSecret \notin Secrets
    /\ Tags # {} /\ SecretKeys # {} /\ MaxPuts \in Nat

Configs == [on : BOOLEAN, tag : Tags, secret : Secrets \cup {NoSecret}]
Default == [on |-> FALSE, tag |-> CHOOSE t \in Tags : TRUE, secret |-> NoSecret]
ChannelRows == [type : SecretKeys, enc : [SecretKeys -> Secrets \cup {NoSecret}]]
NoRow == [type |-> CHOOSE k \in SecretKeys : TRUE, enc |-> [k \in SecretKeys |-> NoSecret]]

VARIABLES
    stored,    \* settings["s3"]
    channel,   \* a channel: [plain, row]
    put,       \* per request: [pc, cfg, given, row], given = the secret it came with
    puts,      \* requests so far
    cached,    \* S3Manager.cached: at most one configuration it was built from
    call,      \* per caller of Backend: [pc, cfg, during, got]
    pinged,    \* history: configurations a bucket was reached with
    entered,   \* history: the secrets entered last, of [s3, channel]
    erased,    \* history: keys whose secret a change of the channel's type erased
    mixed      \* history: have two requests overlapped?

settingsVars == <<stored, channel, put, puts, cached, call, pinged, entered, erased, mixed>>

NoPut == [pc |-> "idle", cfg |-> Default, given |-> NoSecret, row |-> NoRow]
NoCall == [pc |-> "idle", cfg |-> Default, during |-> {}, got |-> {}]
SetPut(r, x) == put' = [put EXCEPT ![r] = x]

----------------------------------------------------------------------------
(* putSettings: "omit secret_key to keep the stored one. When enabled, the *)
(* bucket is verified".                                                    *)

StartPut(r, cfg, pc, row) ==
    /\ put[r].pc = "idle" /\ puts < MaxPuts /\ puts' = puts + 1
    /\ SetPut(r, [pc |-> pc, cfg |-> cfg, given |-> cfg.secret, row |-> row])
    /\ mixed' = (mixed \/ \E o \in Puts : put[o].pc # "idle")
    /\ UNCHANGED <<stored, channel, cached, call, pinged, entered, erased>>
PutSettings(r) ==
    \E cfg \in Configs :
        StartPut(r, cfg, IF ~cfg.on THEN "set" ELSE IF cfg.secret = NoSecret THEN "fill" ELSE "ping", NoRow)

(* prev, err := GetS3                                                      *)
FillSecret(r) ==
    /\ put[r].pc = "fill"
    /\ SetPut(r, [put[r] EXCEPT !.pc = "ping", !.cfg.secret = stored.secret])
    /\ UNCHANGED <<stored, channel, puts, cached, call, pinged, entered, erased, mixed>>

(* Mutant: not verified.                                                   *)
PingIgnored(r) ==
    /\ put[r].pc = "ping"
    /\ SetPut(r, [put[r] EXCEPT !.pc = "set"])
    /\ UNCHANGED <<stored, channel, puts, cached, call, pinged, entered, erased, mixed>>
Ping(r) ==
    /\ put[r].pc = "ping"
    /\ \/ SetPut(r, [put[r] EXCEPT !.pc = "set"]) /\ pinged' = pinged \cup {put[r].cfg}
       \/ SetPut(r, NoPut) /\ UNCHANGED pinged
    /\ UNCHANGED <<stored, channel, puts, cached, call, entered, erased, mixed>>

(* SetS3: an empty secret is read again, then everything is written.       *)
(* Mutant: it is not read.                                                 *)
SetS3Bare(r) ==
    /\ put[r].pc = "set"
    /\ SetPut(r, [put[r] EXCEPT !.pc = "write"])
    /\ UNCHANGED <<stored, channel, puts, cached, call, pinged, entered, erased, mixed>>
SetS3(r) ==
    /\ put[r].pc = "set"
    /\ SetPut(r, [put[r] EXCEPT !.pc = "write",
                     !.cfg.secret = IF @ = NoSecret THEN stored.secret ELSE @])
    /\ UNCHANGED <<stored, channel, puts, cached, call, pinged, entered, erased, mixed>>

During(cfg) == [c \in Callers |-> IF call[c].pc = "idle" THEN call[c]
                                  ELSE [call[c] EXCEPT !.during = @ \cup {cfg}]]
WriteS3(r) ==
    /\ put[r].pc = "write"
    /\ stored' = put[r].cfg /\ call' = During(put[r].cfg)
    /\ entered' = IF put[r].given = NoSecret THEN entered ELSE [entered EXCEPT !.s3 = put[r].given]
    /\ SetPut(r, NoPut)
    /\ UNCHANGED <<channel, puts, cached, pinged, erased, mixed>>

----------------------------------------------------------------------------
(* updateChannel: GetChannel's row, the secret of its type masked, with    *)
(* the request's fields over it, which may be of another type; then        *)
(* UpdateChannel restores from the row, reading it again, an empty secret  *)
(* of the request's type only, and writes. The secret a request gives is   *)
(* of the type it asks for; cfg.tag is the channel's plain part here.      *)

Masked == [channel.row.enc EXCEPT ![channel.row.type] = NoSecret]
UpdateChannel(r) ==
    \E tag \in Tags, secret \in Secrets \cup {NoSecret}, type \in SecretKeys :
        StartPut(r, [on |-> FALSE, tag |-> tag, secret |-> secret], "merge",
                 [type |-> type, enc |-> Masked])

Sealed(r, secret) ==
    SetPut(r, [put[r] EXCEPT !.pc = "writeChannel", !.row.enc[put[r].row.type] = secret])
(* Mutant: the masked secret is taken for one.                             *)
MergeMasked(r) ==
    /\ put[r].pc = "merge" /\ Sealed(r, put[r].given)
    /\ UNCHANGED <<stored, channel, puts, cached, call, pinged, entered, erased, mixed>>
MergeSecret(r) ==
    /\ put[r].pc = "merge"
    /\ Sealed(r, IF put[r].given = NoSecret THEN channel.row.enc[put[r].row.type] ELSE put[r].given)
    /\ UNCHANGED <<stored, channel, puts, cached, call, pinged, entered, erased, mixed>>

(* A change of type writes the old type's secret as it was masked.         *)
Erasing(r) ==
    (erased \cup (IF put[r].row.type = channel.row.type THEN {} ELSE {channel.row.type}))
        \ (IF put[r].given = NoSecret THEN {} ELSE {put[r].row.type})
WriteChannel(r) ==
    /\ put[r].pc = "writeChannel"
    /\ channel' = [plain |-> put[r].cfg.tag, row |-> put[r].row]
    /\ entered' = IF put[r].given = NoSecret THEN entered
                  ELSE [entered EXCEPT !.channel[put[r].row.type] = put[r].given]
    /\ erased' = Erasing(r)
    /\ SetPut(r, NoPut)
    /\ UNCHANGED <<stored, puts, cached, call, pinged, mixed>>

----------------------------------------------------------------------------
(* S3Manager.Backend: read the settings, then compare and build under the  *)
(* lock. call.during: the configurations in force during the call.         *)

BackendRead(c) ==
    /\ call[c].pc = "idle"
    /\ call' = [call EXCEPT ![c] = IF stored.on
                    THEN [pc |-> "build", cfg |-> stored, during |-> {stored}, got |-> {}] ELSE NoCall]
    /\ UNCHANGED <<stored, channel, put, puts, cached, pinged, entered, erased, mixed>>

(* Mutant: the backend built before is kept beside the new one.            *)
BuildBeside(c, cfg) ==
    /\ cached' = cached \cup {cfg}
    /\ call' = [call EXCEPT ![c] = [@ EXCEPT !.pc = "got", !.got = {cfg}]]
Build(c, cfg) ==
    /\ cached' = {cfg}
    /\ call' = [call EXCEPT ![c] = [@ EXCEPT !.pc = "got", !.got = {cfg}]]
(* Mutant: what has been built is never built again.                       *)
BackendOnce(c) ==
    /\ call[c].pc = "build"
    /\ IF cached # {} THEN call' = [call EXCEPT ![c] = [@ EXCEPT !.pc = "got", !.got = cached]] /\ UNCHANGED cached
       ELSE Build(c, call[c].cfg)
    /\ UNCHANGED <<stored, channel, put, puts, pinged, entered, erased, mixed>>
BackendBuild(c) ==
    /\ call[c].pc = "build"
    /\ IF \E b \in cached : b.tag = call[c].cfg.tag
       THEN call' = [call EXCEPT ![c] = [@ EXCEPT !.pc = "got", !.got = cached]] /\ UNCHANGED cached
       ELSE Build(c, call[c].cfg)
    /\ UNCHANGED <<stored, channel, put, puts, pinged, entered, erased, mixed>>
BackendDone(c) ==
    /\ call[c].pc = "got" /\ call' = [call EXCEPT ![c] = NoCall]
    /\ UNCHANGED <<stored, channel, put, puts, cached, pinged, entered, erased, mixed>>

----------------------------------------------------------------------------
SettingsInit ==
    /\ stored = Default /\ channel = [plain |-> Default.tag, row |-> NoRow]
    /\ put = [r \in Puts |-> NoPut] /\ puts = 0
    /\ cached = {} /\ call = [c \in Callers |-> NoCall]
    /\ pinged = {} /\ entered = [s3 |-> NoSecret, channel |-> NoRow.enc]
    /\ erased = {} /\ mixed = FALSE

SettingsNext ==
    \/ \E r \in Puts : \/ PutSettings(r) \/ FillSecret(r) \/ Ping(r) \/ SetS3(r) \/ WriteS3(r)
                       \/ UpdateChannel(r) \/ MergeSecret(r) \/ WriteChannel(r)
    \/ \E c \in Callers : BackendRead(c) \/ BackendBuild(c) \/ BackendDone(c)

SettingsSpec == SettingsInit /\ [][SettingsNext]_settingsVars

----------------------------------------------------------------------------
(* Properties.                                                             *)

SettingsTypeOK ==
    /\ stored \in Configs /\ channel \in [plain : Tags, row : ChannelRows]
    /\ put \in [Puts -> [pc : {"idle", "fill", "ping", "set", "write", "merge", "writeChannel"},
                         cfg : Configs, given : Secrets \cup {NoSecret}, row : ChannelRows]]
    /\ puts \in 0 .. MaxPuts /\ cached \subseteq Configs /\ Cardinality(cached) <= 1
    /\ \A c \in Callers : /\ call[c].pc \in {"idle", "build", "got"} /\ call[c].cfg \in Configs
                          /\ call[c].during \cup call[c].got \subseteq Configs

(* system_handlers.go:62 "When enabled, the bucket is verified": what is   *)
(* stored as enabled is exactly what a bucket was reached with, secret and *)
(* all, even if requests overlap; but for a configuration without a secret,*)
(* which SetS3 completes with one that was stored after the check.         *)
SettingsVerified ==
    stored.on => \/ stored \in pinged
                 \/ mixed /\ [stored EXCEPT !.secret = NoSecret] \in pinged

(* "omit secret_key to keep the stored one" and notify/store.go:136 "empty *)
(* secret fields keep the previously stored values", unless two requests   *)
(* overlap: the S3 secret is the one entered last, and a channel's row has *)
(* under each key the one entered last for it, but for the types it was    *)
(* changed from since, whose secrets the change erased and no others.      *)
SettingsSecretKeptApart ==
    ~mixed => /\ stored.secret = entered.s3
              /\ \A k \in SecretKeys :
                    channel.row.enc[k] = IF k \in erased THEN NoSecret ELSE entered.channel[k]
(* ... of every type: violated. The row is read masked, and the mask of    *)
(* the old type's key is written back when the type changes.               *)
ChannelSecretKept == ~mixed => channel.row.enc = entered.channel
(* ... and with requests that overlap: violated, the older secret is       *)
(* written back.                                                           *)
SettingsSecretKept == stored.secret = entered.s3 /\ channel.row.enc = entered.channel

(* Backend returns a backend for the bucket, as far as the fingerprint     *)
(* tells buckets apart, of a configuration in force during the call,       *)
(* whichever call filled the cache in between.                             *)
BackendForBucket ==
    \A c \in Callers : \A b \in call[c].got : \E cfg \in call[c].during : cfg.tag = b.tag
(* s3.go:110 "so config changes take effect without a restart": a backend  *)
(* of a configuration in force, secret and all. Violated: the fingerprint  *)
(* leaves the secret out, a new secret takes no effect until something     *)
(* else changes.                                                           *)
BackendFollowsConfig == \A c \in Callers : call[c].got \subseteq call[c].during

(* The configuration in force is one that was verified, with the secret    *)
(* that was entered, and the backend is for the bucket it names.           *)
SettingsSafe ==
    SettingsTypeOK /\ SettingsVerified /\ SettingsSecretKeptApart /\ BackendForBucket
===============================================================================
