----------------------------- MODULE WalletKeys -----------------------------
(***************************************************************************)
(* The keys of a wallet, the key pool, the encryption of the keys, and the *)
(* Berkeley DB file that keeps them (CWallet, CCryptoKeyStore, CWalletDB). *)
(*                                                                         *)
(* A call holds cs_wallet from its first step to its last, so two calls    *)
(* never mix; but a call writes the file one record at a time, a crash may *)
(* fall between any two writes, the timer of walletpassphrase locks the    *)
(* keys without asking for cs_wallet, and a miner keeps its reserved key   *)
(* without it.  So a call is a sequence of steps, `todo'.                  *)
(*                                                                         *)
(* Every write commits to the log without a sync (DB_TXN_WRITE_NOSYNC),    *)
(* and closing a CWalletDB checkpoints: `file' is the sequence of contents *)
(* the file has had since the last checkpoint, the last one being what the *)
(* process reads.  A crash of the process keeps the last one, a power loss *)
(* any of them.                                                            *)
(*                                                                         *)
(* A secret is a transparent key <<"t", k>> or a Sapling account           *)
(* <<"z", seed, n>>.  The records key, zkey and sapzkey are one type,      *)
(* "plain"; ckey, czkey and csapzkey are "crypted".  The metadata of a key *)
(* is left out, and with it the birthday of the wallet.                    *)
(***************************************************************************)
EXTENDS Integers, FiniteSets, SequencesExt, TLC

CONSTANTS KeyPoolSize,  \* -keypool
          MaxKeys,      \* bound on the random numbers drawn
          MaxAccounts,  \* bound on the Sapling accounts made
          Imports,      \* secrets that exist outside the wallet
          Phrases,      \* passphrases
          Holders,      \* miners and operations that hold a reserved key
          Setups        \* the file to begin with, and what the user calls

VARIABLES file, aside, wallet, todo, held, made, given, imported, phrases,
          backup, setup

keyvars == << file, aside, wallet, todo, held, made, given, imported,
              phrases, backup, setup >>

-----------------------------------------------------------------------------
T(k) == <<"t", k>>
Z(seed, n) == <<"z", seed, n>>

NoFile == [r \in {} |-> 0]
Unreserved == [index |-> 0]
Down == [up |-> FALSE]
Current == Last(file)
Idle == wallet.up /\ ~wallet.starting /\ todo = << >>
IsLocked == wallet.crypted /\ ~wallet.unlocked

Records(c, type) == {r \in DOMAIN c : r[1] = type}
Kept(c) == {r[2] : r \in Records(c, "plain") \cup Records(c, "crypted")}
PoolOf(c) == {r[2] : r \in Records(c, "pool")}

-----------------------------------------------------------------------------
(* A step of a call: what it writes and erases, whether a CWalletDB is     *)
(* closed after it, what it does to the wallet in memory, and what it      *)
(* means to the caller.                                                    *)
Step == [needs |-> FALSE,     \* throws when the wallet is locked
         reads |-> 0,         \* throws when this pool record is missing
         put |-> NoFile, del |-> {}, sync |-> FALSE, move |-> "",
         mem |-> NoFile,      \* fields of the wallet and their new values
         adds |-> {}, pools |-> {}, takes |-> {},
         gives |-> << >>, imports |-> {}, holds |-> << >>, tells |-> {}]

Put(r, v) == [Step EXCEPT !.put = r :> v, !.sync = TRUE]
Mem(f) == [Step EXCEPT !.mem = f]
CloseDb == [Step EXCEPT !.sync = TRUE]

(* AddKeyPubKey, AddSproutZKey, AddSaplingZKey and their crypted forms. *)
AddKey(s, crypted) ==
  [Put(<<IF crypted THEN "crypted" ELSE "plain", s>>, 0) EXCEPT
     !.needs = TRUE, !.adds = {s}]

GenerateNewKey(k, crypted) == AddKey(T(k), crypted)

WritePool(i, k) ==
  [Step EXCEPT !.put = <<"pool", i>> :> k, !.pools = {i}]

End(pool) == IF pool = {} THEN 1 ELSE Max(pool) + 1
Missing(pool, size) == Max({0, size + 1 - Cardinality(pool)})

(* The keys TopUpKeyPool makes, from the random numbers after `made'. *)
TopUpKeyPool(size) ==
  FlattenSeq([i \in 1..Missing(wallet.pool, size) |->
      << GenerateNewKey(made + i, wallet.crypted),
         WritePool(End(wallet.pool) + i - 1, made + i) >>])
    \o << CloseDb >>

(* A mutant: the pool is a stack. *)
Newest(pool) == Max(pool)

Oldest(pool) == Min(pool)

(* ReserveKeyFromKeyPool tops the pool up when it may and takes the oldest *)
(* key of it: the steps, the keys made, and the index and key reserved.    *)
ReserveKeyFromKeyPool ==
  LET n == IF IsLocked THEN 0 ELSE Missing(wallet.pool, KeyPoolSize)
      first == End(wallet.pool)
      pool == wallet.pool \cup first..(first + n - 1)
      i == IF pool = {} THEN 0 ELSE Oldest(pool)
      k == IF i < first THEN IF <<"pool", i>> \in DOMAIN Current
                             THEN Current[<<"pool", i>>] ELSE 0
                        ELSE made + 1 + i - first
  IN  [made |-> n, index |-> i, key |-> k,
       steps |-> (IF IsLocked THEN << >> ELSE TopUpKeyPool(KeyPoolSize))
                   \o << [CloseDb EXCEPT !.takes = {i}, !.reads = i] >>]

KeepKey(i) == [CloseDb EXCEPT !.del = {<<"pool", i>>}]

(* The records purpose and name, of which no key depends. *)
SetAddressBook(s) == << Put(<<"name", s>>, 0) >>

GetKeyFromPool(r) ==
  r.steps \o << KeepKey(r.index) >> \o SetAddressBook(T(r.key))

(* The last step of a call also answers it. *)
Answering(steps, last) == Front(steps) \o << last >>
Gives(steps, s) == Answering(steps, [Last(steps) EXCEPT !.gives = << s >>])

Call(steps, n) ==
  /\ made + n <= MaxKeys
  /\ todo' = steps
  /\ made' = made + n
  /\ UNCHANGED << file, aside, held, given, imported, setup >>

(* The reservations that are left to the latest backup. *)
OneLess == backup' = [backup EXCEPT !.left = Max({0, @ - 1})]

Calls(rpc) == Idle /\ rpc \in setup.calls

-----------------------------------------------------------------------------
(* Handing out keys. *)

getnewaddress ==
  LET r == ReserveKeyFromKeyPool
  IN  /\ Calls("getnewaddress")
      /\ r.index # 0
      /\ Call(Gives(GetKeyFromPool(r), T(r.key)), r.made)
      /\ OneLess
      /\ UNCHANGED << wallet, phrases >>

(* GetReservedKey for a block template or a change output. *)
GetReservedKey(h) ==
  LET r == ReserveKeyFromKeyPool
  IN  /\ Idle
      /\ h \in setup.holders
      /\ held[h] = Unreserved
      /\ r.index # 0
      /\ Call(Answering(r.steps, [Last(r.steps) EXCEPT
                !.holds = << h, [index |-> r.index, key |-> r.key] >>]), r.made)
      /\ OneLess
      /\ UNCHANGED << wallet, phrases >>

Without(c, rs) == [r \in DOMAIN c \ rs |-> c[r]]

(* A mutant: the key leaves the pool in memory only. *)
KeptInMemory(h) ==
  /\ wallet.up
  /\ held[h] # Unreserved
  /\ todo # << >> => Head(todo).move = ""
  /\ given' = Append(given, T(held[h].key))
  /\ held' = [held EXCEPT ![h] = Unreserved]
  /\ UNCHANGED << file, aside, wallet, todo, made, imported, phrases, backup,
                  setup >>

(* CReserveKey::KeepKey erases the record without cs_wallet; only the      *)
(* rewriting of the file, under bitdb.cs_db, holds it up.                  *)
CReserveKey_KeepKey(h) ==
  /\ wallet.up
  /\ held[h] # Unreserved
  /\ todo # << >> => Head(todo).move = ""
  /\ file' = << Without(Current, {<<"pool", held[h].index>>}) >>
  /\ given' = Append(given, T(held[h].key))
  /\ held' = [held EXCEPT ![h] = Unreserved]
  /\ UNCHANGED << aside, wallet, todo, made, imported, phrases, backup, setup >>

ReturnKey(h) ==
  /\ Idle
  /\ held[h] # Unreserved
  /\ wallet' = [wallet EXCEPT !.pool = @ \cup {held[h].index}]
  /\ held' = [held EXCEPT ![h] = Unreserved]
  /\ UNCHANGED << file, aside, todo, made, given, imported, phrases, backup,
                  setup >>

keypoolrefill(size) ==
  /\ Calls("keypoolrefill")
  /\ ~IsLocked
  /\ Call(TopUpKeyPool(size), Missing(wallet.pool, size))
  /\ UNCHANGED << wallet, phrases, backup >>

(* GenerateNewSaplingZKey: the counter skips accounts the wallet has.      *)
z_getnewaddress ==
  LET n == CHOOSE n \in wallet.counter..(wallet.counter + MaxAccounts) :
             /\ Z(wallet.seed, n) \notin wallet.secrets
             /\ \A m \in wallet.counter..(n - 1) :
                  Z(wallet.seed, m) \in wallet.secrets
      s == Z(wallet.seed, n)
  IN  /\ Calls("z_getnewaddress")
      /\ ~IsLocked
      /\ wallet.seed # 0
      /\ n < MaxAccounts
      /\ Call(<< [Put(<<"hdchain", 0>>, n + 1) EXCEPT
                    !.mem = "counter" :> n + 1] >>
                \o Gives(<< AddKey(s, wallet.crypted) >>, s), 0)
      /\ UNCHANGED << wallet, phrases, backup >>

-----------------------------------------------------------------------------
(* Encryption. *)

(* GenerateNewSeed, plain or under the master key. *)
GenerateNewSeed(seed, crypted) ==
  << [Put(<<IF crypted THEN "chdseed" ELSE "hdseed", 0>>, seed) EXCEPT
        !.needs = TRUE, !.mem = "seed" :> seed],
     [Put(<<"hdchain", 0>>, 0) EXCEPT !.mem = "counter" :> 0] >>

(* EncryptKeys and the master key, in the one transaction of EncryptWallet;*)
(* the wallet is then locked, and unlocked again for NewKeyPool.           *)
EncryptedKeys(p) ==
  LET crypt == [r \in {<<"crypted", s>> : s \in wallet.secrets} |-> 0]
      seed == IF wallet.seed = 0 THEN NoFile
                                 ELSE <<"chdseed", 0>> :> wallet.seed
  IN  << [CloseDb EXCEPT
            !.put = crypt @@ seed @@ (<<"mkey", 1>> :> p),
            !.del = {<<"plain", s>> : s \in wallet.secrets},
            !.mem = ("crypted" :> TRUE) @@ ("unlocked" :> TRUE)
                      @@ ("phrase" :> p)] >>

NewKeyPool ==
  << [Step EXCEPT !.del = {<<"pool", i>> : i \in wallet.pool},
                  !.takes = wallet.pool] >>
    \o FlattenSeq([i \in 1..KeyPoolSize |->
         << GenerateNewKey(made + i, TRUE), WritePool(i, made + i) >>])
    \o << CloseDb >>

(* CDB::Rewrite copies the records to wallet.dat.rewrite, removes          *)
(* wallet.dat and gives the copy its name.                                 *)
Rewrite == << [Step EXCEPT !.move = "remove"], [Step EXCEPT !.move = "rename"] >>

(* The second rewriting over a copy left aside is not explored. *)
encryptwallet(p) ==
  /\ Calls("encryptwallet")
  /\ ~wallet.crypted
  /\ aside = NoFile
  /\ Call(EncryptedKeys(p) \o NewKeyPool \o << Mem("unlocked" :> FALSE) >>
            \o Rewrite, KeyPoolSize)
  /\ phrases' = {p}
  /\ UNCHANGED << wallet, backup >>

(* The passphrase must be the right one; Unlock makes a seed when the      *)
(* wallet, older than HD seeds, has none.                                  *)
walletpassphrase(p) ==
  LET n == Missing(wallet.pool, KeyPoolSize)
      draws == IF wallet.seed = 0 THEN n + 1 ELSE n
      seed == IF wallet.seed = 0 THEN GenerateNewSeed(made + n + 1, TRUE)
                                 ELSE << >>
  IN  /\ Calls("walletpassphrase")
      /\ wallet.crypted
      /\ p = wallet.phrase
      /\ Call(<< Mem("unlocked" :> TRUE) >> \o seed
                \o TopUpKeyPool(KeyPoolSize) \o << Mem("timer" :> TRUE) >>,
              draws)
      /\ UNCHANGED << wallet, phrases, backup >>

(* walletlock, and LockWallet when the time is over, which does not wait   *)
(* for the call under way.                                                 *)
LockWallet ==
  /\ wallet.up
  /\ wallet.crypted
  /\ \/ /\ Calls("walletlock")
        /\ wallet' = [wallet EXCEPT !.unlocked = FALSE]
     \/ /\ wallet.timer
        /\ wallet' = [wallet EXCEPT !.unlocked = FALSE, !.timer = FALSE]
  /\ UNCHANGED << file, aside, todo, held, made, given, imported, phrases,
                  backup, setup >>

(* A wrong passphrase leaves the wallet locked. *)
walletpassphrasechange(p, q) ==
  /\ Calls("walletpassphrasechange")
  /\ wallet.crypted
  /\ \/ /\ p = wallet.phrase
        /\ Call(<< [Put(<<"mkey", 1>>, q) EXCEPT !.mem = "phrase" :> q,
                                                  !.tells = {q}] >>, 0)
        /\ phrases' = {p, q}
        /\ UNCHANGED wallet
     \/ /\ p # wallet.phrase
        /\ wallet' = [wallet EXCEPT !.unlocked = FALSE]
        /\ Call(<< >>, 0)
        /\ UNCHANGED phrases
  /\ UNCHANGED backup

-----------------------------------------------------------------------------
(* Imports. *)

(* A key whose address was watched is watched no more: its record goes     *)
(* before the key is written, or after it when the key is encrypted.       *)
ImportKey(s) ==
  LET key == << [AddKey(s, wallet.crypted) EXCEPT !.imports = {s}] >>
      unwatch == IF s \in wallet.watch
                 THEN << [CloseDb EXCEPT !.del = {<<"watchs", s>>},
                            !.mem = "watch" :> wallet.watch \ {s}] >>
                 ELSE << >>
  IN  IF wallet.crypted THEN key \o unwatch ELSE unwatch \o key

importprivkey(s) ==
  /\ Calls("importprivkey")
  /\ s[1] = "t"
  /\ ~IsLocked
  /\ s \notin wallet.secrets
  /\ Call(SetAddressBook(s) \o ImportKey(s), 0)
  /\ UNCHANGED << wallet, phrases, backup >>

z_importkey(s) ==
  /\ Calls("z_importkey")
  /\ s[1] = "z"
  /\ ~IsLocked
  /\ s \notin wallet.secrets
  /\ Call(ImportKey(s), 0)
  /\ UNCHANGED << wallet, phrases, backup >>

(* A dump with two secrets, of which those the wallet has are skipped. *)
importwallet(s, t) ==
  /\ Calls("importwallet")
  /\ ~IsLocked
  /\ Call(FlattenSeq([i \in 1..2 |->
            IF << s, t >>[i] \in wallet.secrets THEN << >>
            ELSE ImportKey(<< s, t >>[i])]), 0)
  /\ UNCHANGED << wallet, phrases, backup >>

importaddress(s) ==
  /\ Calls("importaddress")
  /\ s[1] = "t"
  /\ s \notin wallet.secrets \cup wallet.watch
  /\ Call(SetAddressBook(s)
            \o << [Put(<<"watchs", s>>, 0) EXCEPT
                      !.mem = "watch" :> wallet.watch \cup {s}] >>, 0)
  /\ UNCHANGED << wallet, phrases, backup >>

-----------------------------------------------------------------------------
(* The steps of a call, crashes and restarts. *)

Perform ==
  LET e == Head(todo)
      c == e.put @@ Without(Current, e.del)
      throws == \/ e.needs /\ IsLocked
                \/ e.reads # 0 /\ <<"pool", e.reads>> \notin DOMAIN Current
      w == IF throws THEN wallet ELSE e.mem @@ wallet
  IN  /\ todo # << >>
      /\ todo' = IF throws THEN << >> ELSE Tail(todo)
      /\ wallet' = [w EXCEPT
           !.pool = (@ \ e.takes) \cup (IF throws THEN {} ELSE e.pools),
           !.secrets = @ \cup (IF throws THEN {} ELSE e.adds)]
      /\ file' = IF throws THEN << Current >>
                 ELSE CASE e.move = "remove" -> << NoFile >>
                        [] e.move = "rename" -> << aside >>
                        [] e.move = "" /\ e.sync -> << c >>
                        [] e.move = "" /\ ~e.sync -> Append(file, c)
      /\ aside' = CASE e.move = "remove" -> Current
                    [] e.move = "rename" -> NoFile
                    [] e.move = "" -> aside
      /\ given' = IF throws THEN given ELSE given \o e.gives
      /\ imported' = imported \cup (IF throws THEN {} ELSE e.imports)
      /\ held' = IF throws \/ e.holds = << >> THEN held
                 ELSE [held EXCEPT ![e.holds[1]] = e.holds[2]]
      /\ phrases' = IF e.tells = {} THEN phrases ELSE e.tells
      /\ UNCHANGED << made, backup, setup >>

(* BackupWallet copies the file when nobody uses it. *)
backupwallet ==
  /\ Calls("backupwallet")
  /\ backup' = [secrets |-> Kept(Current), crypted |-> wallet.crypted,
                after |-> Len(given), left |-> Cardinality(wallet.pool)]
  /\ UNCHANGED << file, aside, wallet, todo, held, made, given, imported,
                  phrases, setup >>

(* The process ends, in the middle of a call or not; after a power loss    *)
(* the file holds what it held at some point since the last checkpoint.    *)
Crash ==
  /\ wallet.up
  /\ \E c \in Range(file) : file' = << c >>
  /\ wallet' = Down
  /\ todo' = << >>
  /\ held' = [h \in Holders |-> Unreserved]
  /\ UNCHANGED << aside, made, given, imported, phrases, backup, setup >>

Loads(c) == Records(c, "plain") = {} \/ Records(c, "crypted") = {}

Loaded(c) ==
  LET crypted == Records(c, "crypted") # {}
      Value(r) == IF r \in DOMAIN c THEN c[r] ELSE 0
  IN  [up |-> TRUE, starting |-> TRUE, secrets |-> Kept(c), pool |-> PoolOf(c),
       watch |-> {r[2] : r \in Records(c, "watchs")},
       crypted |-> crypted, unlocked |-> FALSE, timer |-> FALSE,
       phrase |-> Value(<<"mkey", 1>>),
       seed |-> Value(<<IF crypted THEN "chdseed" ELSE "hdseed", 0>>),
       counter |-> Value(<<"hdchain", 0>>)]

(* IsKeyType: what -salvagewallet keeps. *)
KeyTypes == {"plain", "crypted", "hdseed", "chdseed", "mkey"}
Salvaged(c) == Without(c, {r \in DOMAIN c : r[1] \notin KeyTypes})

(* Recover renames wallet.dat and commits the records of keys to a new     *)
(* one; a crash in between leaves no wallet.dat.                           *)
Recover ==
  /\ ~wallet.up
  /\ "salvage" \in setup.calls
  /\ \/ /\ file' = << Salvaged(file[1]) >>
        /\ UNCHANGED aside
     \/ /\ aside = NoFile
        /\ file' = << NoFile >>
        /\ aside' = file[1]
  /\ setup' = [setup EXCEPT !.calls = @ \ {"salvage"}]
  /\ UNCHANGED << wallet, todo, held, made, given, imported, phrases, backup >>

LoadWallet ==
  /\ ~wallet.up
  /\ Loads(file[1])
  /\ wallet' = Loaded(file[1])
  /\ UNCHANGED << file, aside, todo, held, made, given, imported, phrases,
                  backup, setup >>

(* AppInit2 makes a seed for a wallet that has none and can take one, and  *)
(* the default key of a new wallet.                                        *)
AppInit2 ==
  LET r == ReserveKeyFromKeyPool
      fFirstRun == <<"defaultkey", 0>> \notin DOMAIN Current /\ r.index # 0
      made1 == made + IF fFirstRun THEN r.made + 1 ELSE 1
      seed == IF wallet.seed = 0 /\ ~wallet.crypted
              THEN GenerateNewSeed(made1, FALSE) ELSE << >>
      default == r.steps \o << KeepKey(r.index), Put(<<"defaultkey", 0>>, r.key) >>
                   \o SetAddressBook(T(r.key))
  IN  /\ wallet.up /\ wallet.starting /\ todo = << >>
      /\ Call(seed \o (IF fFirstRun THEN Gives(default, T(r.key)) ELSE << >>),
              (IF seed = << >> THEN 0 ELSE 1) + IF fFirstRun THEN r.made ELSE 0)
      /\ wallet' = [wallet EXCEPT !.starting = FALSE]
      /\ UNCHANGED << phrases, backup >>

NoBackup == [secrets |-> {}, crypted |-> FALSE, after |-> 0, left |-> 0]

Init ==
  /\ setup \in Setups
  /\ file = << setup.file >>
  /\ aside = NoFile
  /\ wallet = Down
  /\ todo = << >>
  /\ held = [h \in Holders |-> Unreserved]
  /\ made = setup.made
  /\ given = << >>
  /\ imported = Kept(setup.file)
  /\ phrases = setup.phrases
  /\ backup = NoBackup

Next ==
  \/ LoadWallet \/ AppInit2 \/ Perform \/ Crash \/ Recover \/ backupwallet
  \/ getnewaddress \/ z_getnewaddress
  \/ \E h \in Holders : GetReservedKey(h) \/ CReserveKey_KeepKey(h) \/ ReturnKey(h)
  \/ keypoolrefill(KeyPoolSize + 1)
  \/ LockWallet
  \/ \E p \in Phrases : encryptwallet(p) \/ walletpassphrase(p)
  \/ \E p, q \in Phrases : walletpassphrasechange(p, q)
  \/ \E s \in Imports : importprivkey(s) \/ z_importkey(s) \/ importaddress(s)
  \/ \E s, t \in Imports : importwallet(s, t)

Spec == Init /\ [][Next]_keyvars

-----------------------------------------------------------------------------
TypeOK ==
  /\ file # << >>
  /\ wallet.up => wallet.pool \subseteq Nat
  /\ made \in 0..MaxKeys

(* Whatever the moment of a crash or a power loss, LoadWallet finds either *)
(* plain or encrypted keys and never both, the master key opens with a     *)
(* passphrase the user was told or is just setting, and every key handed   *)
(* out, reserved or imported is there: in wallet.dat, or in the copy       *)
(* CDB::Rewrite or Recover was about to put in its place.                  *)
Promised ==
  Range(given) \cup imported
    \cup {T(held[h].key) : h \in {h \in Holders : held[h] # Unreserved}}

Recoverable ==
  \A c \in Range(file) :
    /\ Loads(c)
    /\ Records(c, "crypted") # {} =>
         <<"mkey", 1>> \in DOMAIN c /\ c[<<"mkey", 1>>] \in phrases
    /\ Promised \subseteq Kept(c) \cup Kept(aside)

(* No key of the pool, and no Sapling account, is handed out twice: not to *)
(* two callers, not to a caller and a miner or an operation that still     *)
(* holds it, and not again after a crash or a salvage.                     *)
HandedOutOnce ==
  /\ IsInjective(given)
  /\ \A h \in Holders : held[h] # Unreserved =>
       /\ T(held[h].key) \notin Range(given)
       /\ \A g \in Holders \ {h} : held[g] # Unreserved => held[g].key # held[h].key

(* A backup serves for the keys handed out after it too: a key it does not *)
(* hold is handed out only after as many reservations as the pool had keys *)
(* when the backup was made, until the wallet is encrypted.                *)
BackupCovers ==
  wallet.up /\ wallet.crypted = backup.crypted /\ backup.left > 0 =>
    \A i \in (backup.after + 1)..Len(given) :
      given[i][1] = "t" => given[i] \in backup.secrets
=============================================================================
