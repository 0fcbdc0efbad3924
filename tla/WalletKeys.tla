----------------------------- MODULE WalletKeys -----------------------------
(***************************************************************************)
(* The keys of a wallet: the key pool with the reservations of CReserveKey *)
(* (wallet.cpp), the key store in memory (keystore.cpp, crypter.cpp), their*)
(* records in wallet.dat (walletdb.cpp), encryption of the wallet, and     *)
(* crashes.                                                                *)
(*                                                                         *)
(* A database write outside a transaction is one step and survives a crash *)
(* of the process.  `job' is what the holder of cs_wallet is doing;        *)
(* KeepKey takes no lock.  A key is a number, in the order of generation.  *)
(***************************************************************************)
EXTENDS Integers, FiniteSets, FiniteSetsExt, Functions

CONSTANTS
    Holder,         \* the CReserveKey objects
    nTargetSize,    \* -keypool
    MaxKey          \* bound on the keys generated

ASSUME WalletKeysAssumption == nTargetSize \in Nat /\ MaxKey \in Nat

VARIABLES
    nGenerated,     \* how many keys have been made
    mapKeys,        \* the keys in memory, in the clear ...
    mapCryptedKeys, \* ... and encrypted
    fUseCrypto,
    fUnlocked,      \* vMasterKey is set
    setKeyPool,
    reserved,       \* CReserveKey: [nIndex, key]
    job,
    disk,           \* wallet.dat: "key", "ckey", "mkey" and "pool" records
    used            \* history: the keys given out for good

walletVars == <<nGenerated, mapKeys, mapCryptedKeys, fUseCrypto, fUnlocked, setKeyPool,
          reserved, job, disk, used>>

keyStore == <<nGenerated, mapKeys, mapCryptedKeys>>

NoKey == [nIndex |-> -1, key |-> 0]

Idle == [op |-> "idle"]

\* On whose behalf the pool is used, apart from the CReserveKeys: GetKeyFromPool,
\* or nobody, when it is only filled.
Taker  == "GetKeyFromPool"
Nobody == "nobody"

IsLocked == fUseCrypto /\ ~fUnlocked

HaveKey(k) == k \in IF fUseCrypto THEN mapCryptedKeys ELSE mapKeys

WritePool(d, nIndex, k) ==
    [d EXCEPT !.pool = [i \in DOMAIN @ \cup {nIndex} |-> IF i = nIndex THEN k ELSE @[i]]]

ErasePool(d, nIndex) == [d EXCEPT !.pool = Restrict(@, DOMAIN @ \ {nIndex})]

\* ReadPool and HaveKey: the key recorded under an index, 0 for the two
\* runtime_errors of ReserveKeyFromKeyPool.
ReadPool(nIndex) ==
    IF nIndex \in DOMAIN disk.pool /\ HaveKey(disk.pool[nIndex]) THEN disk.pool[nIndex] ELSE 0

-----------------------------------------------------------------------------
(* Filling the pool.                                                       *)

\* The two loops that make keys: of TopUpKeyPool while there are too few, of
\* NewKeyPool for i = 0, 1, ...
WantsKey ==
    \/ job.op = "topup" /\ Cardinality(setKeyPool) < nTargetSize + 1
    \/ job.op = "newpool" /\ job.i < nTargetSize

\* The index under which the next key is written.
NextIndex ==
    IF job.op = "newpool" THEN job.i + 1
    ELSE IF setKeyPool = {} THEN 1 ELSE Max(setKeyPool) + 1

\* GenerateNewKey: the key goes to memory and to wallet.dat, encrypted or not.
GenerateNewKey ==
    /\ WantsKey
    /\ job.key = 0
    /\ ~IsLocked
    /\ nGenerated < MaxKey
    /\ LET k == nGenerated + 1 IN
         /\ nGenerated' = k
         /\ job' = [job EXCEPT !.key = k]
         /\ IF fUseCrypto
            THEN /\ mapCryptedKeys' = mapCryptedKeys \cup {k}
                 /\ disk' = [disk EXCEPT !.ckey = @ \cup {k}]
                 /\ UNCHANGED mapKeys
            ELSE /\ mapKeys' = mapKeys \cup {k}
                 /\ disk' = [disk EXCEPT !.key = @ \cup {k}]
                 /\ UNCHANGED mapCryptedKeys
    /\ UNCHANGED <<fUseCrypto, fUnlocked, setKeyPool, reserved, used>>

\* AddKeyPubKey fails when the wallet was locked meanwhile, which takes only
\* cs_KeyStore: GenerateNewKey throws, and the operation is over.
AddKeyFails ==
    /\ WantsKey
    /\ job.key = 0
    /\ IsLocked
    /\ job' = Idle
    /\ UNCHANGED <<keyStore, fUseCrypto, fUnlocked, setKeyPool, reserved, disk, used>>

\* The rest of a round: WritePool, then the index joins setKeyPool.
AddPoolKey ==
    /\ WantsKey
    /\ job.key # 0
    /\ disk' = WritePool(disk, NextIndex, job.key)
    /\ setKeyPool' = setKeyPool \cup {NextIndex}
    /\ job' = IF job.op = "newpool" THEN [job EXCEPT !.key = 0, !.i = @ + 1]
              ELSE [job EXCEPT !.key = 0]
    /\ UNCHANGED <<keyStore, fUseCrypto, fUnlocked, reserved, used>>

-----------------------------------------------------------------------------
(* Taking keys from the pool.                                              *)

\* ReserveKeyFromKeyPool begins: TopUpKeyPool does nothing on a locked wallet.  It
\* is called for a CReserveKey that has no key yet, or by GetKeyFromPool.
BeginReserve(who) ==
    /\ job = Idle
    /\ who \in Holder => reserved[who] = NoKey
    /\ job' = [op |-> IF IsLocked THEN "take" ELSE "topup", key |-> 0, who |-> who]
    /\ UNCHANGED <<keyStore, fUseCrypto, fUnlocked, setKeyPool, reserved, disk, used>>

\* The wallet's own top-up, from keypoolrefill or walletpassphrase.
BeginTopUp ==
    /\ job = Idle
    /\ ~IsLocked
    /\ job' = [op |-> "topup", key |-> 0, who |-> Nobody]
    /\ UNCHANGED <<keyStore, fUseCrypto, fUnlocked, setKeyPool, reserved, disk, used>>

\* ReserveKeyFromKeyPool goes on: the oldest index leaves setKeyPool, and its
\* record is read.  A record that is missing, or of an unknown key, is a
\* runtime_error: a CReserveKey is left with the index (nIndex is a reference)
\* and no key.  GetKeyFromPool keeps the key at once.
TakeKey ==
    /\ job.op = "take" \/ (job.op = "topup" /\ ~WantsKey)
    /\ job' = Idle
    /\ IF job.who = Nobody \/ setKeyPool = {}
       THEN UNCHANGED <<setKeyPool, reserved, disk, used>>
       ELSE LET nIndex == Min(setKeyPool)
                key    == ReadPool(nIndex)
            IN  /\ setKeyPool' = setKeyPool \ {nIndex}
                /\ IF job.who \in Holder
                   THEN /\ reserved' = [reserved EXCEPT ![job.who] = [nIndex |-> nIndex, key |-> key]]
                        /\ UNCHANGED <<disk, used>>
                   ELSE /\ disk' = IF key = 0 THEN disk ELSE ErasePool(disk, nIndex)
                        /\ used' = used \cup ({key} \ {0})
                        /\ UNCHANGED reserved
    /\ UNCHANGED <<keyStore, fUseCrypto, fUnlocked>>

\* KeepKey without ErasePool.
KeepInMemoryOnly(h) ==
    /\ reserved[h].key # 0
    /\ used' = used \cup {reserved[h].key}
    /\ reserved' = [reserved EXCEPT ![h] = NoKey]
    /\ UNCHANGED <<keyStore, fUseCrypto, fUnlocked, setKeyPool, job, disk>>

\* CReserveKey::KeepKey, before the transaction or the block that has the key
\* leaves the node.
KeepKey(h) ==
    /\ reserved[h].key # 0
    /\ disk' = ErasePool(disk, reserved[h].nIndex)
    /\ used' = used \cup {reserved[h].key}
    /\ reserved' = [reserved EXCEPT ![h] = NoKey]
    /\ UNCHANGED <<keyStore, fUseCrypto, fUnlocked, setKeyPool, job>>

\* CReserveKey::ReturnKey, which its destructor calls too.
ReturnKey(h) ==
    /\ job = Idle
    /\ reserved[h] # NoKey
    /\ setKeyPool' = setKeyPool \cup {reserved[h].nIndex}
    /\ reserved' = [reserved EXCEPT ![h] = NoKey]
    /\ UNCHANGED <<keyStore, fUseCrypto, fUnlocked, job, disk, used>>

-----------------------------------------------------------------------------
(* Encryption, locking and crashes.                                        *)

\* EncryptWallet up to the commit: every key is encrypted in memory, and the
\* records wait in the transaction pwalletdbEncryption.
EncryptWallet ==
    /\ job = Idle
    /\ ~fUseCrypto
    /\ fUseCrypto' = TRUE
    /\ mapCryptedKeys' = mapKeys
    /\ mapKeys' = {}
    /\ job' = [op |-> "commit"]
    /\ UNCHANGED <<nGenerated, fUnlocked, setKeyPool, reserved, disk, used>>

\* The master key is not part of the transaction.
CommitKeysOnly ==
    /\ job.op = "commit"
    /\ disk' = [disk EXCEPT !.ckey = @ \cup mapCryptedKeys, !.key = @ \ mapCryptedKeys]
    /\ fUnlocked' = TRUE
    /\ job' = [op |-> "erase", left |-> setKeyPool]
    /\ UNCHANGED <<keyStore, fUseCrypto, setKeyPool, reserved, used>>

\* TxnCommit, then Lock and Unlock, after which NewKeyPool may begin.  A commit
\* that fails is an assert(false), which is a Crash.
CommitEncryption ==
    /\ job.op = "commit"
    /\ disk' = [disk EXCEPT !.mkey = TRUE, !.ckey = @ \cup mapCryptedKeys,
                            !.key = @ \ mapCryptedKeys]
    /\ fUnlocked' = TRUE
    /\ job' = [op |-> "erase", left |-> setKeyPool]
    /\ UNCHANGED <<keyStore, fUseCrypto, setKeyPool, reserved, used>>

\* NewKeyPool erases the record of every index in setKeyPool ...
EraseOldPool ==
    /\ job.op = "erase"
    /\ IF job.left # {}
       THEN /\ disk' = ErasePool(disk, Min(job.left))
            /\ job' = [job EXCEPT !.left = @ \ {Min(@)}]
            /\ UNCHANGED setKeyPool
       ELSE /\ setKeyPool' = {}
            /\ job' = [op |-> "newpool", key |-> 0, i |-> 0]
            /\ UNCHANGED disk
    /\ UNCHANGED <<keyStore, fUseCrypto, fUnlocked, reserved, used>>

\* ... and when the new keys are written EncryptWallet locks the wallet.
EndEncryption ==
    /\ job.op = "newpool"
    /\ ~WantsKey
    /\ fUnlocked' = FALSE
    /\ job' = Idle
    /\ UNCHANGED <<keyStore, fUseCrypto, setKeyPool, reserved, disk, used>>

\* walletpassphrase: Unlock, then TopUpKeyPool.
Unlock ==
    /\ job = Idle
    /\ IsLocked
    /\ mapCryptedKeys # {}
    /\ fUnlocked' = TRUE
    /\ job' = [op |-> "topup", key |-> 0, who |-> Nobody]
    /\ UNCHANGED <<keyStore, fUseCrypto, setKeyPool, reserved, disk, used>>

\* LockWallet, when the time of walletpassphrase is over: no cs_wallet.  Until
\* EncryptWallet is done no passphrase has been given.
Lock ==
    /\ fUnlocked
    /\ job.op \in {"idle", "topup", "take"}
    /\ fUnlocked' = FALSE
    /\ UNCHANGED <<keyStore, fUseCrypto, setKeyPool, reserved, job, disk, used>>

\* The process dies and starts again: LoadWallet reads the records.
Crash ==
    /\ mapKeys' = disk.key
    /\ mapCryptedKeys' = disk.ckey
    /\ fUseCrypto' = (disk.ckey # {})
    /\ fUnlocked' = FALSE
    /\ setKeyPool' = DOMAIN disk.pool
    /\ reserved' = [h \in Holder |-> NoKey]
    /\ job' = Idle
    /\ UNCHANGED <<nGenerated, disk, used>>

-----------------------------------------------------------------------------

\* A new wallet after AppInit2: GetKeyFromPool filled the pool and gave out the
\* first key, as the default key.
WalletInit ==
    /\ nGenerated = nTargetSize + 1
    /\ mapKeys = 1 .. nGenerated
    /\ mapCryptedKeys = {}
    /\ fUseCrypto = FALSE
    /\ fUnlocked = FALSE
    /\ setKeyPool = 2 .. nGenerated
    /\ reserved = [h \in Holder |-> NoKey]
    /\ job = Idle
    /\ disk = [key |-> mapKeys, ckey |-> {}, mkey |-> FALSE, pool |-> [i \in setKeyPool |-> i]]
    /\ used = {1}

WalletNext ==
    \/ BeginTopUp
    \/ \E who \in Holder \cup {Taker} : BeginReserve(who)
    \/ GenerateNewKey \/ AddKeyFails \/ AddPoolKey \/ TakeKey
    \/ \E h \in Holder : KeepKey(h) \/ ReturnKey(h)
    \/ EncryptWallet \/ CommitEncryption \/ EraseOldPool \/ EndEncryption
    \/ Unlock \/ Lock
    \/ Crash

WalletSpec == WalletInit /\ [][WalletNext]_walletVars

-----------------------------------------------------------------------------

Held == {reserved[h].key : h \in Holder} \ {0}

Available == {ReadPool(nIndex) : nIndex \in setKeyPool}

\* No key a user was given, or may still be given, is lost in a crash: its private
\* key is in wallet.dat in the clear, or encrypted beside the master key.  Before
\* EncryptWallet has committed every key is in the clear, and after it none is.
KeysRecoverable ==
    /\ used \cup Held \cup (Available \ {0})
         \subseteq IF disk.mkey THEN disk.ckey ELSE disk.key
    /\ disk.mkey => disk.key = {}
    /\ ~disk.mkey => disk.ckey = {}

\* "Take key pair from key pool so it won't be used again" (CommitTransaction): a
\* key that was given out for good is neither reserved nor available.
KeyUsedOnce == used \cap (Held \cup Available) = {}

\* Until the wallet is encrypted, and with a key pool of at least two keys, keys
\* are given out once and every index of setKeyPool can be read: the indices
\* handed out stay below the largest of setKeyPool, from where TopUpKeyPool counts.
PlainPoolSound ==
    ~fUseCrypto => KeyUsedOnce /\ 0 \notin Available

=============================================================================
