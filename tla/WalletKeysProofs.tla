-------------------------- MODULE WalletKeysProofs --------------------------
(***************************************************************************)
(* Safety of the wallet's keys for any number of reservations, any size of *)
(* the key pool and any number of keys, crashes and encryption included.   *)
(* SafeInv ties the key store in memory to wallet.dat; PoolInv is about the*)
(* pool of a wallet whose encryption has not been committed.               *)
(***************************************************************************)
EXTENDS WalletKeys, FiniteSetTheorems, WellFoundedInduction, TLAPS

\* The keys that wallet.dat can give back after a crash.
Secret == IF disk.mkey THEN disk.ckey ELSE disk.key

Types ==
  /\ nGenerated \in Nat
  /\ fUseCrypto \in BOOLEAN /\ disk.mkey \in BOOLEAN
  /\ DOMAIN disk = {"key", "ckey", "mkey", "pool"}
  /\ DOMAIN reserved = Holder
  /\ job.op \in {"idle", "topup", "take", "commit", "erase", "newpool"}
  /\ job.op \in {"topup", "take"} => DOMAIN job = {"op", "key", "who"} /\ job.key \in Nat
  /\ job.op = "newpool" => DOMAIN job = {"op", "key", "i"} /\ job.key \in Nat
  /\ job.op = "erase" => DOMAIN job = {"op", "left"}

\* Memory agrees with wallet.dat, except between the two halves of EncryptWallet,
\* where wallet.dat still has every key in the clear.
SafeInv ==
  /\ Types
  /\ Secret \subseteq 1..nGenerated
  /\ used # {} /\ used \subseteq Secret
  /\ \A h \in Holder : reserved[h].key # 0 => reserved[h].key \in Secret
  /\ IF disk.mkey THEN disk.key = {} ELSE disk.ckey = {}
  /\ fUseCrypto => mapCryptedKeys = Secret /\ (disk.mkey <=> job.op # "commit")
  /\ ~fUseCrypto => /\ mapKeys = Secret
                    /\ ~disk.mkey
                    /\ job.op \in {"idle", "topup"}

\* Until the encryption is committed: every index of setKeyPool has a record,
\* the largest index is in setKeyPool, different records have different keys
\* that were not given out, and the reservations share none.
PoolInv ==
  ~disk.mkey =>
    /\ DOMAIN disk.pool \subseteq Nat
    /\ setKeyPool \subseteq DOMAIN disk.pool
    /\ \E m \in setKeyPool : \A i \in DOMAIN disk.pool : i <= m
    /\ \A i \in DOMAIN disk.pool : disk.pool[i] \in disk.key \ used
    /\ \A i, j \in DOMAIN disk.pool : disk.pool[i] = disk.pool[j] => i = j
    /\ \A h \in Holder : reserved[h] # NoKey =>
         /\ reserved[h].nIndex \in DOMAIN disk.pool \ setKeyPool
         /\ reserved[h].key = disk.pool[reserved[h].nIndex]
    /\ \A h, g \in Holder :
         reserved[h] # NoKey /\ reserved[g] # NoKey /\ reserved[h].nIndex = reserved[g].nIndex
           => h = g
    /\ job.op = "topup" /\ job.key # 0 =>
         /\ job.key \in disk.key \ used
         /\ \A i \in DOMAIN disk.pool : disk.pool[i] # job.key
-----------------------------------------------------------------------------
\* WritePool and ErasePool change one record and nothing else of wallet.dat.
LEMMA Written ==
  ASSUME Types, NEW n, NEW k, NEW d, d = WritePool(disk, n, k)
  PROVE  /\ DOMAIN d = DOMAIN disk
         /\ d.key = disk.key /\ d.ckey = disk.ckey /\ d.mkey = disk.mkey
         /\ DOMAIN d.pool = DOMAIN disk.pool \cup {n}
         /\ d.pool[n] = k
         /\ \A i \in DOMAIN disk.pool \ {n} : d.pool[i] = disk.pool[i]
  BY DEF Types, WritePool

LEMMA Erased ==
  ASSUME Types, NEW n, NEW d, d = ErasePool(disk, n)
  PROVE  /\ DOMAIN d = DOMAIN disk
         /\ d.key = disk.key /\ d.ckey = disk.ckey /\ d.mkey = disk.mkey
         /\ DOMAIN d.pool = DOMAIN disk.pool \ {n}
         /\ \A i \in DOMAIN disk.pool \ {n} : d.pool[i] = disk.pool[i]
  BY DEF Types, ErasePool, Restrict

\* What is read from the pool is 0 or a key that wallet.dat can give back.
LEMMA ReadIsSecret ==
  ASSUME SafeInv, NEW n
  PROVE  ReadPool(n) # 0 => ReadPool(n) \in Secret
  BY DEF SafeInv, ReadPool, HaveKey

\* A set of indices that is not empty has a smallest one, which Min returns.
LEMMA MinIsLeast ==
  ASSUME NEW T \in SUBSET Nat, T # {}
  PROVE  Min(T) \in T /\ \A y \in T : Min(T) <= y
<1>1. \A x, y \in Nat : <<y, x>> \in OpToRel(<, Nat) <=> y < x
  BY DEF OpToRel
<1>2. PICK R : /\ IsWellFoundedOn(R, Nat)
               /\ \A x, y \in Nat : <<y, x>> \in R <=> y < x
  BY <1>1, NatLessThanWellFounded, Zenon
<1>3. PICK x \in T : \A y \in T : ~(<<y, x>> \in R)
  BY <1>2, WFMin, Zenon
<1>4. \A y \in T : x <= y
  <2>1. TAKE y \in T
  <2>2. x \in Nat /\ y \in Nat
    OBVIOUS
  <2>3. ~(y < x)
    BY <1>2, <1>3, <2>2, Zenon
  <2>. QED BY <2>2, <2>3
<1>. QED BY <1>4 DEF Min
-----------------------------------------------------------------------------
\* A new wallet has all its keys in the clear and has given out one.
LEMMA SafeInit ==
  WalletInit => SafeInv
<1>1. SUFFICES ASSUME WalletInit PROVE SafeInv
  OBVIOUS
<1>2. Types
  <2>1. job.op = "idle" /\ DOMAIN reserved = Holder /\ fUseCrypto = FALSE
    BY <1>1 DEF WalletInit, Idle
  <2>2. DOMAIN disk = {"key", "ckey", "mkey", "pool"} /\ disk.mkey = FALSE
    BY <1>1 DEF WalletInit
  <2>3. nGenerated \in Nat
    BY <1>1, WalletKeysAssumption DEF WalletInit
  <2>. QED BY <2>1, <2>2, <2>3 DEF Types
<1>3. Secret = 1..nGenerated /\ used = {1} /\ 1 \in 1..nGenerated
  BY <1>1, WalletKeysAssumption DEF WalletInit, Secret
<1>. QED BY <1>1, <1>2, <1>3 DEF WalletInit, SafeInv, NoKey, Idle

\* Every step of the wallet keeps the key store and wallet.dat in agreement.
LEMMA SafeStep ==
  ASSUME SafeInv, [WalletNext]_walletVars
  PROVE  SafeInv'
<1>. DEFINE SameKeys(d) == /\ DOMAIN d = DOMAIN disk
                           /\ d.key = disk.key /\ d.ckey = disk.ckey /\ d.mkey = disk.mkey
<1>a. \A n, k : SameKeys(WritePool(disk, n, k))
  BY Written DEF SafeInv
<1>b. \A n : SameKeys(ErasePool(disk, n))
  BY Erased DEF SafeInv
<1>. USE DEF SafeInv, Types, Secret
<1>1. CASE BeginTopUp
  BY <1>1 DEF BeginTopUp, Idle, keyStore, IsLocked
<1>2. ASSUME NEW who \in Holder \cup {Taker}, BeginReserve(who) PROVE SafeInv'
  BY <1>2 DEF BeginReserve, Idle, keyStore, IsLocked
<1>3. CASE GenerateNewKey
  <2>1. /\ job.op \in {"topup", "newpool"} /\ job'.op = job.op
        /\ DOMAIN job' = DOMAIN job /\ job'.key = nGenerated + 1
        /\ nGenerated' = nGenerated + 1
    BY <1>3 DEF GenerateNewKey, WantsKey
  <2>2. UNCHANGED <<fUseCrypto, reserved, used>>
    BY <1>3 DEF GenerateNewKey
  <2>3. CASE fUseCrypto
    <3>1. /\ disk'.key = disk.key /\ disk'.ckey = disk.ckey \cup {nGenerated + 1}
          /\ disk'.mkey = disk.mkey /\ DOMAIN disk' = DOMAIN disk
          /\ mapCryptedKeys' = mapCryptedKeys \cup {nGenerated + 1}
      BY <1>3, <2>3 DEF GenerateNewKey
    <3>2. disk.mkey
      BY <2>1, <2>3
    <3>. QED BY <2>1, <2>2, <2>3, <3>1, <3>2
  <2>4. CASE ~fUseCrypto
    <3>1. /\ disk'.key = disk.key \cup {nGenerated + 1} /\ disk'.ckey = disk.ckey
          /\ disk'.mkey = disk.mkey /\ DOMAIN disk' = DOMAIN disk
          /\ mapKeys' = mapKeys \cup {nGenerated + 1}
      BY <1>3, <2>4 DEF GenerateNewKey
    <3>. QED BY <2>1, <2>2, <2>4, <3>1
  <2>. QED BY <2>3, <2>4
<1>4. CASE AddKeyFails
  BY <1>4 DEF AddKeyFails, WantsKey, Idle, keyStore, IsLocked
<1>5. CASE AddPoolKey
  <2>1. SameKeys(disk')
    <3>1. disk' = WritePool(disk, NextIndex, job.key)
      BY <1>5 DEF AddPoolKey
    <3>. HIDE DEF SameKeys, SafeInv, Types, Secret
    <3>. QED BY <3>1, <1>a, Zenon
  <2>2. /\ job.op \in {"topup", "newpool"} /\ job'.op = job.op
        /\ DOMAIN job' = DOMAIN job /\ job'.key = 0
    BY <1>5 DEF AddPoolKey, WantsKey
  <2>. QED BY <1>5, <2>1, <2>2 DEF AddPoolKey, keyStore
<1>6. CASE TakeKey
  <2>1. /\ job'.op = "idle" /\ job.op \in {"topup", "take"}
        /\ UNCHANGED <<nGenerated, mapKeys, mapCryptedKeys, fUseCrypto>>
    BY <1>6 DEF TakeKey, Idle, keyStore
  <2>2. CASE UNCHANGED <<setKeyPool, reserved, disk, used>>
    BY <2>1, <2>2
  <2>. DEFINE n == Min(setKeyPool)
              k == ReadPool(n)
  <2>3. k # 0 => k \in Secret
    BY ReadIsSecret, Zenon
  <2>4. CASE /\ job.who \in Holder
             /\ reserved' = [reserved EXCEPT ![job.who] = [nIndex |-> n, key |-> k]]
             /\ UNCHANGED <<disk, used>>
    <3>. HIDE DEF k, n
    <3>. QED BY <2>1, <2>3, <2>4
  <2>5. CASE /\ disk' = IF k = 0 THEN disk ELSE ErasePool(disk, n)
             /\ used' = used \cup ({k} \ {0})
             /\ UNCHANGED reserved
    <3>1. SameKeys(disk')
      <4>1. CASE k = 0
        BY <2>5, <4>1
      <4>2. CASE k # 0
        BY <2>5, <4>2, <1>b, Zenon
      <4>. QED BY <4>1, <4>2
    <3>. HIDE DEF k, n
    <3>. QED BY <2>1, <2>3, <2>5, <3>1
  <2>. QED BY <1>6, <2>2, <2>4, <2>5 DEF TakeKey
<1>7. ASSUME NEW h \in Holder, KeepKey(h) PROVE SafeInv'
  <2>1. SameKeys(disk')
    BY <1>7, <1>b, Zenon DEF KeepKey
  <2>. QED BY <1>7, <2>1 DEF KeepKey, NoKey, keyStore
<1>8. ASSUME NEW h \in Holder, ReturnKey(h) PROVE SafeInv'
  BY <1>8 DEF ReturnKey, NoKey, keyStore
<1>9. CASE EncryptWallet
  BY <1>9 DEF EncryptWallet, Idle
<1>10. CASE CommitEncryption
  BY <1>10 DEF CommitEncryption, keyStore
<1>11. CASE EraseOldPool
  <2>1. SameKeys(disk')
    <3>1. CASE job.left # {}
      BY <1>11, <3>1, <1>b, Zenon DEF EraseOldPool
    <3>2. CASE job.left = {}
      BY <1>11, <3>2 DEF EraseOldPool
    <3>. QED BY <3>1, <3>2
  <2>2. \/ job'.op = "erase" /\ DOMAIN job' = DOMAIN job
        \/ job' = [op |-> "newpool", key |-> 0, i |-> 0]
    BY <1>11 DEF EraseOldPool
  <2>3. /\ job.op = "erase"
        /\ UNCHANGED <<nGenerated, mapKeys, mapCryptedKeys, fUseCrypto, reserved, used>>
    BY <1>11 DEF EraseOldPool, keyStore
  <2>. QED BY <2>1, <2>2, <2>3
<1>12. CASE EndEncryption
  BY <1>12 DEF EndEncryption, Idle, keyStore
<1>13. CASE Unlock
  BY <1>13 DEF Unlock, Idle, keyStore, IsLocked
<1>14. CASE Lock
  BY <1>14 DEF Lock, keyStore
<1>15. CASE Crash
  BY <1>15 DEF Crash, Idle, NoKey
<1>16. CASE UNCHANGED walletVars
  BY <1>16 DEF walletVars
<1>. QED BY <1>1, <1>2, <1>3, <1>4, <1>5, <1>6, <1>7, <1>8, <1>9, <1>10, <1>11, <1>12, <1>13,
            <1>14, <1>15, <1>16 DEF WalletNext
-----------------------------------------------------------------------------
\* In a new wallet the record of every index is its own key.
LEMMA PoolInit ==
  ASSUME WalletInit, nTargetSize # 0
  PROVE  PoolInv
<1>1. nGenerated \in Nat /\ nGenerated >= 2 /\ setKeyPool = 2..nGenerated
  BY WalletKeysAssumption DEF WalletInit
<1>2. /\ disk.key = 1..nGenerated /\ used = {1} /\ job.op = "idle"
      /\ DOMAIN disk.pool = 2..nGenerated /\ \A i \in 2..nGenerated : disk.pool[i] = i
  BY DEF WalletInit, Idle
<1>3. \A h \in Holder : reserved[h] = NoKey
  BY DEF WalletInit
<1>4. nGenerated \in setKeyPool /\ \A i \in DOMAIN disk.pool : i <= nGenerated
  BY <1>1, <1>2
<1>. QED BY <1>1, <1>2, <1>3, <1>4 DEF PoolInv

\* A key that was just made is not in the pool, and not used.
LEMMA GeneratePool ==
  ASSUME SafeInv, PoolInv, GenerateNewKey
  PROVE  PoolInv'
<1>1. SUFFICES ASSUME ~disk'.mkey PROVE PoolInv'
  BY DEF PoolInv
<1>2. ~fUseCrypto /\ ~disk.mkey
  BY <1>1 DEF SafeInv, Types, GenerateNewKey, WantsKey
<1>3. /\ disk'.key = disk.key \cup {nGenerated + 1} /\ disk'.pool = disk.pool
      /\ job'.op = "topup" /\ job'.key = nGenerated + 1
      /\ UNCHANGED <<setKeyPool, reserved, used>>
  BY <1>2 DEF SafeInv, Types, GenerateNewKey, WantsKey
<1>4. nGenerated + 1 \notin disk.key /\ used \subseteq disk.key
  BY <1>2 DEF SafeInv, Types, Secret
<1>. QED BY <1>1, <1>2, <1>3, <1>4 DEF PoolInv

\* TopUpKeyPool counts from the largest index, which is free for the new key.
LEMMA AddPool ==
  ASSUME SafeInv, PoolInv, AddPoolKey
  PROVE  PoolInv'
<1>1. SUFFICES ASSUME ~disk'.mkey PROVE PoolInv'
  BY DEF PoolInv
<1>2. ~disk.mkey /\ disk'.key = disk.key
  BY <1>1, Written DEF SafeInv, AddPoolKey
<1>3. /\ job.op = "topup" /\ job.key # 0 /\ job'.op = "topup" /\ job'.key = 0
      /\ UNCHANGED <<reserved, used>>
  BY <1>2 DEF SafeInv, Types, AddPoolKey, WantsKey
<1>4. PICK m \in setKeyPool : \A i \in DOMAIN disk.pool : i <= m
  BY <1>2 DEF PoolInv
<1>5. setKeyPool \subseteq DOMAIN disk.pool /\ DOMAIN disk.pool \subseteq Nat
  BY <1>2 DEF PoolInv
<1>6. Max(setKeyPool) \in setKeyPool /\ \A i \in setKeyPool : Max(setKeyPool) >= i
  BY <1>4, <1>5 DEF Max
<1>7. Max(setKeyPool) = m
  BY <1>4, <1>5, <1>6
<1>8. NextIndex = m + 1
  BY <1>3, <1>4, <1>7 DEF NextIndex
<1>9. /\ DOMAIN disk'.pool = DOMAIN disk.pool \cup {m + 1}
      /\ disk'.pool[m + 1] = job.key
      /\ \A i \in DOMAIN disk.pool \ {m + 1} : disk'.pool[i] = disk.pool[i]
  BY <1>8, Written DEF SafeInv, AddPoolKey
<1>10. m + 1 \notin DOMAIN disk.pool /\ m \in Nat
  BY <1>4, <1>5
<1>11. setKeyPool' = setKeyPool \cup {m + 1}
  BY <1>8 DEF AddPoolKey
<1>12. job.key \in disk.key \ used /\ \A i \in DOMAIN disk.pool : disk.pool[i] # job.key
  BY <1>2, <1>3 DEF PoolInv
<1>13. \A i \in DOMAIN disk'.pool : i <= m + 1
  BY <1>4, <1>5, <1>9, <1>10
<1>14. \A i \in DOMAIN disk'.pool : disk'.pool[i] \in disk'.key \ used'
  BY <1>2, <1>3, <1>9, <1>10, <1>12 DEF PoolInv
<1>15. \A i, j \in DOMAIN disk'.pool : disk'.pool[i] = disk'.pool[j] => i = j
  BY <1>2, <1>9, <1>10, <1>12 DEF PoolInv
<1>16. \A h \in Holder : reserved'[h] # NoKey =>
         /\ reserved'[h].nIndex \in DOMAIN disk'.pool \ setKeyPool'
         /\ reserved'[h].key = disk'.pool[reserved'[h].nIndex]
  BY <1>2, <1>3, <1>9, <1>10, <1>11 DEF PoolInv
<1>17. \A h, g \in Holder :
         reserved'[h] # NoKey /\ reserved'[g] # NoKey /\ reserved'[h].nIndex = reserved'[g].nIndex
           => h = g
  BY <1>2, <1>3 DEF PoolInv
<1>. QED BY <1>1, <1>3, <1>5, <1>9, <1>10, <1>11, <1>13, <1>14, <1>15, <1>16, <1>17
         DEF PoolInv, NoKey

\* An index that is taken is not the largest: the pool holds at least two.
LEMMA TakePool ==
  ASSUME SafeInv, PoolInv, TakeKey, nTargetSize # 0
  PROVE  PoolInv'
<1>. DEFINE n == Min(setKeyPool)
            k == ReadPool(n)
<1>1. SUFFICES ASSUME ~disk'.mkey PROVE PoolInv'
  BY DEF PoolInv
<1>2. /\ job' = Idle
      /\ \/ UNCHANGED <<setKeyPool, reserved, disk, used>>
         \/ /\ setKeyPool # {}
            /\ setKeyPool' = setKeyPool \ {n}
            /\ \/ /\ job.who \in Holder
                  /\ reserved' = [reserved EXCEPT ![job.who] = [nIndex |-> n, key |-> k]]
                  /\ UNCHANGED <<disk, used>>
               \/ /\ disk' = IF k = 0 THEN disk ELSE ErasePool(disk, n)
                  /\ used' = used \cup ({k} \ {0})
                  /\ UNCHANGED reserved
  BY Zenon DEF TakeKey
<1>3. job'.op = "idle"
  BY <1>2 DEF Idle
<1>4. CASE UNCHANGED <<setKeyPool, reserved, disk, used>>
  BY <1>1, <1>3, <1>4 DEF PoolInv
<1>5. CASE setKeyPool # {} /\ setKeyPool' = setKeyPool \ {n}
  <2>1. ~disk.mkey /\ disk'.key = disk.key
    BY <1>1, <1>2, <1>5, Erased DEF SafeInv
  <2>2. job.op = "topup" /\ ~WantsKey /\ ~fUseCrypto /\ mapKeys = disk.key
    BY <2>1 DEF SafeInv, Types, TakeKey, Secret
  <2>3. setKeyPool \subseteq DOMAIN disk.pool /\ DOMAIN disk.pool \subseteq Nat
    BY <2>1 DEF PoolInv
  <2>4. PICK m \in setKeyPool : \A i \in DOMAIN disk.pool : i <= m
    BY <2>1 DEF PoolInv
  <2>5. n \in setKeyPool /\ \A i \in setKeyPool : n <= i
    BY <1>5, <2>3, MinIsLeast
  <2>6. setKeyPool # {m}
    <3>1. Cardinality({m}) = 1
      BY FS_Singleton
    <3>2. ~(Cardinality(setKeyPool) < nTargetSize + 1)
      BY <2>2 DEF WantsKey
    <3>. QED BY <3>1, <3>2, WalletKeysAssumption
  <2>7. m \in setKeyPool'
    <3>1. PICK x \in setKeyPool : x # m
      BY <2>4, <2>6
    <3>. HIDE DEF n
    <3>. QED BY <1>5, <2>3, <2>4, <2>5, <3>1
  <2>8. k = disk.pool[n] /\ disk.pool[n] \in disk.key \ used
    BY <2>1, <2>2, <2>3, <2>5 DEF ReadPool, HaveKey, PoolInv
  <2>9. k # 0
    BY <2>1, <2>8 DEF SafeInv, Secret, Types
  <2>10. n \in Nat /\ n \in DOMAIN disk.pool /\ n \notin setKeyPool'
    BY <1>5, <2>3, <2>5
  <2>. HIDE DEF n, k
  <2>11. CASE /\ job.who \in Holder
              /\ reserved' = [reserved EXCEPT ![job.who] = [nIndex |-> n, key |-> k]]
              /\ UNCHANGED <<disk, used>>
    <3>1. DOMAIN reserved = Holder
      BY DEF SafeInv, Types
    <3>2. /\ reserved'[job.who].nIndex = n /\ reserved'[job.who].key = k
          /\ \A h \in Holder \ {job.who} : reserved'[h] = reserved[h]
      BY <2>11, <3>1
    <3>3. \A h \in Holder \ {job.who} : reserved[h] # NoKey => reserved[h].nIndex # n
      BY <2>1, <2>5 DEF PoolInv
    <3>4. \A h \in Holder : reserved'[h] # NoKey =>
            /\ reserved'[h].nIndex \in DOMAIN disk.pool \ setKeyPool'
            /\ reserved'[h].key = disk.pool[reserved'[h].nIndex]
      BY <1>5, <2>1, <2>8, <2>10, <3>2 DEF PoolInv
    <3>5. \A h, g \in Holder :
            reserved'[h] # NoKey /\ reserved'[g] # NoKey
              /\ reserved'[h].nIndex = reserved'[g].nIndex => h = g
      BY <2>1, <3>2, <3>3 DEF PoolInv
    <3>. QED BY <1>3, <1>5, <2>1, <2>3, <2>4, <2>7, <2>11, <3>4, <3>5 DEF PoolInv, NoKey
  <2>12. CASE /\ disk' = IF k = 0 THEN disk ELSE ErasePool(disk, n)
              /\ used' = used \cup ({k} \ {0})
              /\ UNCHANGED reserved
    <3>1. /\ DOMAIN disk'.pool = DOMAIN disk.pool \ {n}
          /\ \A i \in DOMAIN disk.pool \ {n} : disk'.pool[i] = disk.pool[i]
      BY <2>9, <2>12, Erased DEF SafeInv
    <3>2. \A i \in DOMAIN disk'.pool : disk'.pool[i] \in disk'.key \ used'
      BY <2>1, <2>8, <2>10, <2>12, <3>1 DEF PoolInv
    <3>3. \A i, j \in DOMAIN disk'.pool : disk'.pool[i] = disk'.pool[j] => i = j
      BY <2>1, <3>1 DEF PoolInv
    <3>4. \A h \in Holder : reserved'[h] # NoKey =>
            /\ reserved'[h].nIndex \in DOMAIN disk'.pool \ setKeyPool'
            /\ reserved'[h].key = disk'.pool[reserved'[h].nIndex]
      BY <1>5, <2>1, <2>5, <2>12, <3>1 DEF PoolInv
    <3>5. \A h, g \in Holder :
            reserved'[h] # NoKey /\ reserved'[g] # NoKey
              /\ reserved'[h].nIndex = reserved'[g].nIndex => h = g
      BY <2>1, <2>12 DEF PoolInv
    <3>. QED BY <1>3, <1>5, <2>3, <2>4, <2>7, <3>1, <3>2, <3>3, <3>4, <3>5 DEF PoolInv, NoKey
  <2>. QED BY <1>2, <2>11, <2>12, <1>4 DEF n, k
<1>. QED BY <1>2, <1>4, <1>5

\* KeepKey erases the record of the key that it gives out, in any phase.
LEMMA KeepPool ==
  ASSUME SafeInv, PoolInv, NEW h \in Holder, KeepKey(h)
  PROVE  PoolInv'
<1>. DEFINE n == reserved[h].nIndex
<1>1. SUFFICES ASSUME ~disk'.mkey PROVE PoolInv'
  BY DEF PoolInv
<1>2. /\ disk'.key = disk.key /\ disk'.mkey = disk.mkey
      /\ DOMAIN disk'.pool = DOMAIN disk.pool \ {n}
      /\ \A i \in DOMAIN disk.pool \ {n} : disk'.pool[i] = disk.pool[i]
  BY Erased DEF SafeInv, KeepKey
<1>3. reserved[h] # NoKey /\ UNCHANGED <<setKeyPool, job>>
  BY DEF KeepKey, NoKey
<1>4. reserved'[h] = NoKey /\ \A g \in Holder \ {h} : reserved'[g] = reserved[g]
  BY DEF KeepKey, SafeInv, Types
<1>5. /\ n \in DOMAIN disk.pool \ setKeyPool
      /\ used' = used \cup {disk.pool[n]}
  BY <1>1, <1>2, <1>3 DEF PoolInv, KeepKey
<1>6. \A i \in DOMAIN disk'.pool : disk'.pool[i] \in disk'.key \ used'
  BY <1>1, <1>2, <1>5 DEF PoolInv
<1>7. \A i, j \in DOMAIN disk'.pool : disk'.pool[i] = disk'.pool[j] => i = j
  BY <1>1, <1>2 DEF PoolInv
<1>8. \A g \in Holder : reserved'[g] # NoKey =>
        /\ reserved'[g].nIndex \in DOMAIN disk'.pool \ setKeyPool'
        /\ reserved'[g].key = disk'.pool[reserved'[g].nIndex]
  BY <1>1, <1>2, <1>3, <1>4 DEF PoolInv
<1>9. \A f, g \in Holder :
        reserved'[f] # NoKey /\ reserved'[g] # NoKey /\ reserved'[f].nIndex = reserved'[g].nIndex
          => f = g
  BY <1>1, <1>2, <1>4 DEF PoolInv
<1>10. job'.op = "topup" /\ job'.key # 0 =>
         /\ job'.key \in disk'.key \ used'
         /\ \A i \in DOMAIN disk'.pool : disk'.pool[i] # job'.key
  BY <1>1, <1>2, <1>3, <1>5 DEF PoolInv
<1>11. \E m \in setKeyPool' : \A i \in DOMAIN disk'.pool : i <= m
  BY <1>1, <1>2, <1>3 DEF PoolInv
<1>12. DOMAIN disk'.pool \subseteq Nat /\ setKeyPool' \subseteq DOMAIN disk'.pool
  BY <1>1, <1>2, <1>3, <1>5 DEF PoolInv
<1>. QED BY <1>6, <1>7, <1>8, <1>9, <1>10, <1>11, <1>12 DEF PoolInv, NoKey

\* ReturnKey puts back an index whose record is still there.
LEMMA ReturnPool ==
  ASSUME SafeInv, PoolInv, NEW h \in Holder, ReturnKey(h)
  PROVE  PoolInv'
<1>1. SUFFICES ASSUME ~disk'.mkey PROVE PoolInv'
  BY DEF PoolInv
<1>2. /\ UNCHANGED <<disk, used>> /\ job'.op = "idle"
      /\ setKeyPool' = setKeyPool \cup {reserved[h].nIndex}
  BY DEF ReturnKey, Idle
<1>3. reserved'[h] = NoKey /\ \A g \in Holder \ {h} : reserved'[g] = reserved[g]
  BY DEF ReturnKey, SafeInv, Types
<1>4. reserved[h] # NoKey /\ reserved[h].nIndex \in DOMAIN disk.pool
  BY <1>1, <1>2 DEF ReturnKey, PoolInv
<1>5. \A g \in Holder : reserved'[g] # NoKey =>
        /\ reserved'[g].nIndex \in DOMAIN disk'.pool \ setKeyPool'
        /\ reserved'[g].key = disk'.pool[reserved'[g].nIndex]
  BY <1>1, <1>2, <1>3, <1>4 DEF PoolInv
<1>. QED BY <1>1, <1>2, <1>3, <1>4, <1>5 DEF PoolInv, NoKey

\* A crash gives every index with a record back to setKeyPool.
LEMMA CrashPool ==
  ASSUME PoolInv, Crash
  PROVE  PoolInv'
<1>1. SUFFICES ASSUME ~disk'.mkey PROVE PoolInv'
  BY DEF PoolInv
<1>2. /\ UNCHANGED <<disk, used>> /\ job'.op = "idle" /\ setKeyPool' = DOMAIN disk.pool
      /\ \A h \in Holder : reserved'[h] = NoKey
  BY DEF Crash, Idle
<1>. QED BY <1>1, <1>2 DEF PoolInv, NoKey

\* Every step keeps the pool of a wallet that is not encrypted.
LEMMA PoolStep ==
  ASSUME SafeInv, PoolInv, [WalletNext]_walletVars, nTargetSize # 0
  PROVE  PoolInv'
<1>. DEFINE Same == UNCHANGED <<setKeyPool, reserved, disk, used>>
<1>1. ASSUME Same, job' = job \/ job'.op # "topup" \/ job'.key = 0 PROVE PoolInv'
  BY <1>1 DEF PoolInv, NoKey
<1>2. CASE BeginTopUp
  BY <1>1, <1>2 DEF BeginTopUp
<1>3. ASSUME NEW who \in Holder \cup {Taker}, BeginReserve(who) PROVE PoolInv'
  BY <1>1, <1>3 DEF BeginReserve
<1>4. CASE AddKeyFails
  BY <1>1, <1>4 DEF AddKeyFails, Idle
<1>5. CASE EncryptWallet
  BY <1>1, <1>5 DEF EncryptWallet
<1>6. CASE CommitEncryption
  BY <1>6 DEF CommitEncryption, PoolInv, SafeInv, Types
<1>7. CASE EraseOldPool
  <2>1. disk.mkey
    BY <1>7 DEF EraseOldPool, SafeInv
  <2>2. disk'.mkey = disk.mkey
    BY <1>7, Erased DEF EraseOldPool, SafeInv
  <2>. QED BY <2>1, <2>2 DEF PoolInv
<1>8. CASE EndEncryption
  BY <1>1, <1>8 DEF EndEncryption, Idle
<1>9. CASE Unlock
  BY <1>1, <1>9 DEF Unlock
<1>10. CASE Lock
  BY <1>1, <1>10 DEF Lock
<1>11. CASE UNCHANGED walletVars
  BY <1>1, <1>11 DEF walletVars
<1>. QED BY <1>2, <1>3, <1>4, <1>5, <1>6, <1>7, <1>8, <1>9, <1>10, <1>11, GeneratePool, AddPool,
            TakePool, KeepPool, ReturnPool, CrashPool DEF WalletNext
-----------------------------------------------------------------------------
\* No key that was given out, is reserved or can still be taken from the pool is lost
\* in a crash, whatever EncryptWallet, a lock or another crash interrupts.
THEOREM KeysAreRecoverable ==
  WalletSpec => []KeysRecoverable
<1>1. ASSUME SafeInv PROVE KeysRecoverable
  <2>1. \A n : ReadPool(n) # 0 => ReadPool(n) \in Secret
    BY <1>1, ReadIsSecret
  <2>. QED BY <1>1, <2>1 DEF SafeInv, KeysRecoverable, Held, Available, Secret
<1>2. SafeInv /\ [WalletNext]_walletVars => SafeInv'
  BY SafeStep
<1>. QED BY <1>1, <1>2, SafeInit, PTL DEF WalletSpec

\* Until the wallet is encrypted, and with a key pool of at least two keys, no key is
\* given out twice and every index of setKeyPool can be read, for any number of
\* reservations kept, returned or cut off by a crash.
THEOREM PlainPoolIsSound ==
  nTargetSize # 0 => (WalletSpec => []PlainPoolSound)
<1>1. SUFFICES ASSUME nTargetSize # 0 PROVE WalletSpec => []PlainPoolSound
  OBVIOUS
<1>2. ASSUME SafeInv, PoolInv PROVE PlainPoolSound
  <2>1. SUFFICES ASSUME ~fUseCrypto PROVE KeyUsedOnce /\ 0 \notin Available
    BY DEF PlainPoolSound
  <2>2. ~disk.mkey /\ mapKeys = disk.key /\ 0 \notin disk.key
    BY <1>2, <2>1 DEF SafeInv, Types, Secret
  <2>3. \A i \in setKeyPool : ReadPool(i) \in disk.key \ used
    BY <1>2, <2>1, <2>2 DEF PoolInv, ReadPool, HaveKey
  <2>4. \A h \in Holder : reserved[h].key # 0 => reserved[h].key \notin used
    BY <1>2, <2>2 DEF PoolInv, NoKey
  <2>. QED BY <2>2, <2>3, <2>4 DEF KeyUsedOnce, Held, Available
<1>3. WalletInit => SafeInv /\ PoolInv
  BY <1>1, SafeInit, PoolInit
<1>4. SafeInv /\ PoolInv /\ [WalletNext]_walletVars => SafeInv' /\ PoolInv'
  BY <1>1, SafeStep, PoolStep
<1>. QED BY <1>2, <1>3, <1>4, PTL DEF WalletSpec
=============================================================================
