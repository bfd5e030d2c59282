------------------------- MODULE StringIndexProofs --------------------------
(***************************************************************************)
(* Interned strings: no use after free, and equal strings are equal        *)
(* pointers, for any number of threads, strings and addresses.             *)
(***************************************************************************)
EXTENDS StringIndex, FiniteSetTheorems, TLAPS

\* t dropped the last reference to ptr[t] and has not freed it yet.
Deleting(t) == pc[t] \in {"delete", "unindexed"}

\* The lock of the partition: a writer is alone.
LockInv ==
  \A t, u \in Thread : pc[t] \in Writing /\ pc[u] \in Writing \cup Reading => t = u

\* string_strdupz() knows its name, and what it found is what the index holds.
FoundInv ==
  \A t \in Thread :
    /\ pc[t] \in {"search", "acquire", "retry", "insert"} => arg[t] \in Name
    /\ pc[t] \in {"acquire", "insert"} => ptr[t] = index[arg[t]]
    /\ pc[t] = "acquire" => ptr[t] # Null

\* The index holds every STRING in memory under its own name, but the one
\* that the holder of the write lock has just removed.
IndexInv ==
  /\ \A n \in Name : index[n] # Null => str[index[n]] = n
  /\ \A e \in Entry :
       str[e] # Null => \/ index[str[e]] = e
                        \/ \E t \in Thread : pc[t] = "unindexed" /\ ptr[t] = e

\* One thread at a time deletes a STRING, and nobody refers to it.
DeletingInv ==
  \A t \in Thread : Deleting(t) =>
    /\ ptr[t] \in Entry
    /\ str[ptr[t]] # Null
    /\ refcount[ptr[t]] = 0
    /\ \A u \in Thread : Deleting(u) /\ ptr[u] = ptr[t] => u = t
    /\ pc[t] = "delete" => index[str[ptr[t]]] = ptr[t]
    /\ pc[t] = "unindexed" => index[str[ptr[t]]] = Null

\* The counter is exact.
CountInv ==
  /\ IsFiniteSet(refs)
  /\ \A r \in refs : str[r[2]] # Null
  /\ \A e \in Entry : str[e] # Null => refcount[e] = Cardinality(RefsTo(e))

IInv == TypeOK /\ LockInv /\ FoundInv /\ IndexInv /\ DeletingInv /\ CountInv

(***************************************************************************)
(* A STRING that someone has a reference to has a positive counter, and    *)
(* nobody is deleting it.                                                  *)
(***************************************************************************)
LEMMA ReferredIsAlive ==
  ASSUME IInv, NEW r \in refs
  PROVE  /\ r[2] \in Entry /\ str[r[2]] # Null
         /\ refcount[r[2]] > 0
         /\ \A t \in Thread : Deleting(t) => ptr[t] # r[2]
  <1>1. r[2] \in Entry BY DEF IInv, TypeOK, Reference
  <1>2. str[r[2]] # Null BY DEF IInv, CountInv
  <1>3. r \in RefsTo(r[2]) /\ RefsTo(r[2]) \subseteq refs BY DEF RefsTo
  <1>4. IsFiniteSet(RefsTo(r[2])) BY <1>3, FS_Subset DEF IInv, CountInv
  <1>5. Cardinality(RefsTo(r[2])) \in Nat /\ Cardinality(RefsTo(r[2])) # 0
    BY <1>3, <1>4, FS_EmptySet, FS_CardinalityType
  <1>6. refcount[r[2]] > 0 BY <1>1, <1>2, <1>5 DEF IInv, CountInv
  <1> QED BY <1>1, <1>2, <1>6 DEF IInv, DeletingInv

(***************************************************************************)
(* Taking a reference adds one to the number of references to that STRING  *)
(* and to no other.                                                        *)
(***************************************************************************)
LEMMA ReferCounts ==
  ASSUME IInv, NEW t \in Thread, NEW e \in Entry, Refer(t, e)
  PROVE  /\ refs' \subseteq Reference
         /\ IsFiniteSet(refs')
         /\ Cardinality(RefsTo(e)') = Cardinality(RefsTo(e)) + 1
         /\ \A o \in Entry \ {e} : RefsTo(o)' = RefsTo(o)
         /\ \A r \in refs' : r \in refs \/ r[2] = e
         /\ refs \subseteq refs'
  <1>1. PICK s \in Slot : <<t, e, s>> \notin refs /\ refs' = refs \cup {<<t, e, s>>}
    BY DEF Refer
  <1>2. RefsTo(e)' = RefsTo(e) \cup {<<t, e, s>>} /\ <<t, e, s>> \notin RefsTo(e)
    BY <1>1 DEF RefsTo
  <1>3. \A o \in Entry \ {e} : RefsTo(o)' = RefsTo(o) BY <1>1 DEF RefsTo
  <1>4. IsFiniteSet(RefsTo(e))
    <2>1. RefsTo(e) \subseteq refs BY DEF RefsTo
    <2> QED BY <2>1, FS_Subset DEF IInv, CountInv
  <1>5. Cardinality(RefsTo(e)') = Cardinality(RefsTo(e)) + 1
    BY <1>2, <1>4, FS_AddElement
  <1>6. IsFiniteSet(refs') BY <1>1, FS_AddElement DEF IInv, CountInv
  <1> QED BY <1>1, <1>3, <1>5, <1>6 DEF IInv, TypeOK, Reference

(***************************************************************************)
(* Before string.c is used nothing is interned and no thread is inside.    *)
(***************************************************************************)
LEMMA InitIInv == Init => IInv
  <1> SUFFICES ASSUME Init PROVE IInv OBVIOUS
  <1>1. TypeOK BY DEF Init, TypeOK
  <1>2. LockInv BY DEF Init, LockInv, Reading, Writing
  <1>3. FoundInv BY DEF Init, FoundInv
  <1>4. IndexInv BY DEF Init, IndexInv
  <1>5. DeletingInv BY DEF Init, DeletingInv, Deleting
  <1>6. CountInv BY FS_EmptySet DEF Init, CountInv
  <1> QED BY <1>1, <1>2, <1>3, <1>4, <1>5, <1>6 DEF IInv

(***************************************************************************)
(* The call of string_strdupz() and the two looks into the index change    *)
(* nothing but the state of the caller.                                    *)
(***************************************************************************)
LEMMA LookStep ==
  ASSUME IInv, NEW t \in Thread,
         Search(t) \/ Insert(t) \/ \E n \in Name : Strdupz(t, n)
  PROVE  IInv'
  <1> USE DEF IInv, Goto, Points, Search, Insert, Strdupz
  <1>1. UNCHANGED <<index, str, refcount, refs>> OBVIOUS
  <1>2. TypeOK' BY DEF TypeOK, FoundInv, Reading, Writing
  <1>3. LockInv' BY DEF TypeOK, LockInv, CanRead, CanWrite, Reading, Writing
  <1>4. FoundInv' BY DEF TypeOK, FoundInv
  <1>5. IndexInv' BY DEF TypeOK, IndexInv
  <1>6. DeletingInv' BY DEF TypeOK, DeletingInv, Deleting
  <1>7. CountInv' BY <1>1 DEF CountInv, RefsTo
  <1> QED BY <1>2, <1>3, <1>4, <1>5, <1>6, <1>7

(***************************************************************************)
(* string_entry_check_and_acquire() never revives a STRING that is being   *)
(* deleted.                                                                *)
(***************************************************************************)
LEMMA AcquireStep ==
  ASSUME IInv, NEW t \in Thread, SearchAcquire(t) \/ InsertAcquire(t)
  PROVE  IInv'
  <1> USE DEF Goto
  <1>1. /\ pc[t] \in {"acquire", "insert"} /\ ptr[t] \in Entry
        /\ index[arg[t]] = ptr[t] /\ arg[t] \in Name /\ str[ptr[t]] # Null
        /\ UNCHANGED <<index, str, arg, ptr>>
        /\ CheckAndAcquire(t, "retry")
    BY NullAssumption DEF IInv, TypeOK, SearchAcquire, InsertAcquire, FoundInv, IndexInv
  <1>2. CASE refcount[ptr[t]] > 0
    <2> DEFINE e == ptr[t]
    <2>1. /\ refcount' = [refcount EXCEPT ![e] = @ + 1] /\ Refer(t, e)
          /\ pc' = [pc EXCEPT ![t] = "idle"]
      BY <1>1, <1>2 DEF CheckAndAcquire, IInv, TypeOK
    <2>2. /\ refs' \subseteq Reference /\ IsFiniteSet(refs')
          /\ Cardinality(RefsTo(e)') = Cardinality(RefsTo(e)) + 1
          /\ \A o \in Entry \ {e} : RefsTo(o)' = RefsTo(o)
          /\ \A r \in refs' : r \in refs \/ r[2] = e
      BY <1>1, <2>1, ReferCounts
    <2>3. TypeOK' BY <1>1, <2>1, <2>2 DEF IInv, TypeOK
    <2>4. LockInv' BY <2>1 DEF IInv, TypeOK, LockInv, Reading, Writing
    <2>5. FoundInv' BY <1>1, <2>1 DEF IInv, TypeOK, FoundInv
    <2>6. IndexInv' BY <1>1, <2>1 DEF IInv, TypeOK, IndexInv
    <2>7. DeletingInv' BY <1>1, <1>2, <2>1 DEF IInv, TypeOK, DeletingInv, Deleting
    <2>8. CountInv'
      <3>1. \A o \in Entry : str'[o] # Null => refcount'[o] = Cardinality(RefsTo(o)')
        <4> SUFFICES ASSUME NEW o \in Entry, str[o] # Null
                     PROVE  refcount'[o] = Cardinality(RefsTo(o)')
          BY <1>1
        <4>1. CASE o = e BY <4>1, <1>1, <2>1, <2>2 DEF IInv, TypeOK, CountInv
        <4>2. CASE o # e BY <4>2, <1>1, <2>1, <2>2 DEF IInv, TypeOK, CountInv
        <4> QED BY <4>1, <4>2
      <3>2. \A r \in refs' : str'[r[2]] # Null BY <1>1, <2>2 DEF IInv, CountInv
      <3> QED BY <2>2, <3>1, <3>2 DEF CountInv
    <2> QED BY <2>3, <2>4, <2>5, <2>6, <2>7, <2>8 DEF IInv
  <1>3. CASE ~(refcount[ptr[t]] > 0)
    <2>1. UNCHANGED <<refcount, refs>> /\ pc' = [pc EXCEPT ![t] = "retry"]
      BY <1>1, <1>3 DEF CheckAndAcquire
    <2>2. TypeOK' BY <1>1, <2>1 DEF IInv, TypeOK
    <2>3. LockInv' BY <2>1 DEF IInv, TypeOK, LockInv, Reading, Writing
    <2>4. FoundInv' BY <1>1, <2>1 DEF IInv, TypeOK, FoundInv
    <2>5. IndexInv' BY <1>1, <2>1 DEF IInv, TypeOK, IndexInv
    <2>6. DeletingInv' BY <1>1, <2>1 DEF IInv, TypeOK, DeletingInv, Deleting
    <2>7. CountInv' BY <1>1, <2>1 DEF IInv, CountInv, RefsTo
    <2> QED BY <2>2, <2>3, <2>4, <2>5, <2>6, <2>7 DEF IInv
  <1> QED BY <1>2, <1>3

(***************************************************************************)
(* string_index_insert() creates a STRING only for a name that has none.   *)
(***************************************************************************)
LEMMA CreateStep ==
  ASSUME IInv, NEW t \in Thread, InsertCreate(t)
  PROVE  IInv'
  <1> USE DEF Goto, Points
  <1>1. PICK e \in Entry :
          /\ str[e] = Null
          /\ str' = [str EXCEPT ![e] = arg[t]]
          /\ refcount' = [refcount EXCEPT ![e] = 1]
          /\ index' = [index EXCEPT ![arg[t]] = e]
          /\ ptr' = [ptr EXCEPT ![t] = e]
          /\ Refer(t, e)
    BY DEF InsertCreate
  <1>2. /\ pc[t] = "insert" /\ pc' = [pc EXCEPT ![t] = "idle"] /\ arg' = arg
        /\ arg[t] \in Name /\ index[arg[t]] = Null
    BY DEF InsertCreate, IInv, FoundInv
  <1>3. /\ refs' \subseteq Reference /\ IsFiniteSet(refs')
        /\ Cardinality(RefsTo(e)') = Cardinality(RefsTo(e)) + 1
        /\ \A o \in Entry \ {e} : RefsTo(o)' = RefsTo(o)
        /\ \A r \in refs' : r \in refs \/ r[2] = e
    BY <1>1, ReferCounts
  <1>4. RefsTo(e) = {} BY <1>1 DEF IInv, CountInv, RefsTo
  <1>5. \A u \in Thread : u # t => pc[u] \notin {"acquire", "insert", "unindexed"}
    BY <1>2 DEF IInv, LockInv, Reading, Writing
  <1>6. TypeOK' BY <1>1, <1>2, <1>3 DEF IInv, TypeOK
  <1>7. LockInv' BY <1>2 DEF IInv, TypeOK, LockInv, Reading, Writing
  <1>8. FoundInv' BY <1>1, <1>2, <1>5 DEF IInv, TypeOK, FoundInv
  <1>9. IndexInv'
    <2>1. \A n \in Name : index'[n] # Null => str'[index'[n]] = n
      BY <1>1, <1>2, NullAssumption DEF IInv, TypeOK, IndexInv
    <2>2. \A o \in Entry : str'[o] # Null => index'[str'[o]] = o
      <3> SUFFICES ASSUME NEW o \in Entry, str'[o] # Null PROVE index'[str'[o]] = o
        OBVIOUS
      <3>1. CASE o = e BY <3>1, <1>1, <1>2 DEF IInv, TypeOK
      <3>2. CASE o # e
        <4>1. str'[o] = str[o] /\ str[o] \in Name BY <3>2, <1>1 DEF IInv, TypeOK
        <4>2. index[str[o]] = o BY <4>1, <1>2, <1>5 DEF IInv, IndexInv
        <4>3. str[o] # arg[t] BY <4>2, <1>2, NullAssumption
        <4> QED BY <4>1, <4>2, <4>3, <1>1, <1>2 DEF IInv, TypeOK
      <3> QED BY <3>1, <3>2
    <2> QED BY <2>1, <2>2 DEF IndexInv
  <1>10. DeletingInv'
    <2> SUFFICES ASSUME NEW u \in Thread, Deleting(u)'
                 PROVE  /\ ptr'[u] \in Entry
                        /\ str'[ptr'[u]] # Null
                        /\ refcount'[ptr'[u]] = 0
                        /\ \A v \in Thread : Deleting(v)' /\ ptr'[v] = ptr'[u] => v = u
                        /\ pc'[u] = "delete" => index'[str'[ptr'[u]]] = ptr'[u]
                        /\ pc'[u] = "unindexed" => index'[str'[ptr'[u]]] = Null
      BY DEF DeletingInv
    <2>1. u # t /\ pc'[u] = pc[u] /\ pc[u] = "delete" /\ ptr'[u] = ptr[u]
      BY <1>1, <1>2, <1>5 DEF IInv, TypeOK, Deleting
    <2>2. /\ ptr[u] \in Entry /\ str[ptr[u]] # Null /\ refcount[ptr[u]] = 0
          /\ index[str[ptr[u]]] = ptr[u]
      BY <2>1 DEF IInv, DeletingInv, Deleting
    <2>3. ptr[u] # e /\ str[ptr[u]] # arg[t] BY <2>2, <1>1, <1>2, NullAssumption
    <2>4. \A v \in Thread : Deleting(v)' => v # t /\ Deleting(v) /\ ptr'[v] = ptr[v]
      BY <1>1, <1>2 DEF IInv, TypeOK, Deleting
    <2>5. \A v \in Thread : Deleting(v) /\ ptr[v] = ptr[u] => v = u
      BY <2>1 DEF IInv, DeletingInv, Deleting
    <2> QED BY <2>1, <2>2, <2>3, <2>4, <2>5, <1>1, <1>2 DEF IInv, TypeOK
  <1>11. CountInv'
    <2>1. Cardinality(RefsTo(e)') = 1 BY <1>3, <1>4, FS_EmptySet
    <2>2. \A o \in Entry : str'[o] # Null => refcount'[o] = Cardinality(RefsTo(o)')
      <3> SUFFICES ASSUME NEW o \in Entry, str'[o] # Null
                   PROVE  refcount'[o] = Cardinality(RefsTo(o)')
        OBVIOUS
      <3>1. CASE o = e BY <3>1, <1>1, <2>1 DEF IInv, TypeOK
      <3>2. CASE o # e BY <3>2, <1>1, <1>3 DEF IInv, TypeOK, CountInv
      <3> QED BY <3>1, <3>2
    <2>3. \A r \in refs' : str'[r[2]] # Null
      <3>1. str'[e] # Null BY <1>1, <1>2, NullAssumption DEF IInv, TypeOK
      <3>2. \A r \in refs : r[2] \in Entry /\ str[r[2]] # Null /\ r[2] # e
        BY <1>1 DEF IInv, CountInv, TypeOK, Reference
      <3> QED BY <3>1, <3>2, <1>1, <1>3 DEF IInv, TypeOK
    <2> QED BY <1>3, <2>2, <2>3 DEF CountInv
  <1> QED BY <1>6, <1>7, <1>8, <1>9, <1>10, <1>11 DEF IInv

(***************************************************************************)
(* string_dup() works on a STRING that is alive.                           *)
(***************************************************************************)
LEMMA DupStep ==
  ASSUME IInv, NEW t \in Thread, NEW e \in Entry, Dup(t, e)
  PROVE  IInv'
  <1>1. /\ UNCHANGED <<index, str, pc, arg, ptr>>
        /\ refcount' = [refcount EXCEPT ![e] = @ + 1] /\ Refer(t, e)
    BY DEF Dup
  <1>2. str[e] # Null /\ \A u \in Thread : Deleting(u) => ptr[u] # e
    <2>1. PICK s \in Slot : <<t, e, s>> \in refs BY DEF Dup
    <2> QED BY <2>1, ReferredIsAlive
  <1>3. /\ refs' \subseteq Reference /\ IsFiniteSet(refs')
        /\ Cardinality(RefsTo(e)') = Cardinality(RefsTo(e)) + 1
        /\ \A o \in Entry \ {e} : RefsTo(o)' = RefsTo(o)
        /\ \A r \in refs' : r \in refs \/ r[2] = e
    BY <1>1, ReferCounts
  <1>4. TypeOK' BY <1>1, <1>3 DEF IInv, TypeOK
  <1>5. LockInv' /\ FoundInv' /\ IndexInv' BY <1>1 DEF IInv, LockInv, FoundInv, IndexInv
  <1>6. DeletingInv' BY <1>1, <1>2 DEF IInv, TypeOK, DeletingInv, Deleting
  <1>7. CountInv'
    <2>1. \A o \in Entry : str[o] # Null => refcount'[o] = Cardinality(RefsTo(o)')
      <3> SUFFICES ASSUME NEW o \in Entry, str[o] # Null
                   PROVE  refcount'[o] = Cardinality(RefsTo(o)')
        OBVIOUS
      <3>1. CASE o = e BY <3>1, <1>1, <1>3 DEF IInv, TypeOK, CountInv
      <3>2. CASE o # e BY <3>2, <1>1, <1>3 DEF IInv, TypeOK, CountInv
      <3> QED BY <3>1, <3>2
    <2>2. \A r \in refs' : str[r[2]] # Null BY <1>2, <1>3 DEF IInv, CountInv
    <2> QED BY <1>1, <1>3, <2>1, <2>2 DEF CountInv
  <1> QED BY <1>4, <1>5, <1>6, <1>7 DEF IInv

(***************************************************************************)
(* string_freez(): exactly one thread sees the counter become zero.        *)
(***************************************************************************)
LEMMA FreezStep ==
  ASSUME IInv, NEW t \in Thread, NEW e \in Entry, Freez(t, e)
  PROVE  IInv'
  <1> USE DEF Goto, Points
  <1>1. PICK s \in Slot : <<t, e, s>> \in refs /\ refs' = refs \ {<<t, e, s>>}
    BY DEF Freez
  <1>2. /\ pc[t] = "idle" /\ UNCHANGED <<index, str, arg>>
        /\ refcount' = [refcount EXCEPT ![e] = @ - 1]
        /\ ptr' = [ptr EXCEPT ![t] = e]
        /\ pc' = [pc EXCEPT ![t] = IF refcount[e] = 1 THEN "delete" ELSE "idle"]
    BY DEF Freez
  <1>3. /\ str[e] # Null /\ refcount[e] > 0
        /\ \A u \in Thread : Deleting(u) => ptr[u] # e
    BY <1>1, ReferredIsAlive
  <1>4. index[str[e]] = e BY <1>3 DEF IInv, IndexInv, Deleting
  <1>5. TypeOK' BY <1>1, <1>2 DEF IInv, TypeOK
  <1>6. LockInv' BY <1>2 DEF IInv, TypeOK, LockInv, Reading, Writing
  <1>7. FoundInv' BY <1>2 DEF IInv, TypeOK, FoundInv
  <1>8. IndexInv' BY <1>2 DEF IInv, TypeOK, IndexInv
  <1>9. DeletingInv'
    <2>1. CASE refcount[e] = 1
      BY <2>1, <1>2, <1>3, <1>4 DEF IInv, TypeOK, DeletingInv, Deleting
    <2>2. CASE refcount[e] # 1
      BY <2>2, <1>2, <1>3 DEF IInv, TypeOK, DeletingInv, Deleting
    <2> QED BY <2>1, <2>2
  <1>10. CountInv'
    <2>1. RefsTo(e)' = RefsTo(e) \ {<<t, e, s>>} /\ <<t, e, s>> \in RefsTo(e)
      BY <1>1 DEF RefsTo
    <2>2. IsFiniteSet(RefsTo(e)) /\ IsFiniteSet(refs')
      <3>1. RefsTo(e) \subseteq refs /\ refs' \subseteq refs BY <1>1 DEF RefsTo
      <3> QED BY <3>1, FS_Subset DEF IInv, CountInv
    <2>3. Cardinality(RefsTo(e)') = Cardinality(RefsTo(e)) - 1
      BY <2>1, <2>2, FS_RemoveElement
    <2>4. \A o \in Entry \ {e} : RefsTo(o)' = RefsTo(o) BY <1>1 DEF RefsTo
    <2>5. \A o \in Entry : str[o] # Null => refcount'[o] = Cardinality(RefsTo(o)')
      <3> SUFFICES ASSUME NEW o \in Entry, str[o] # Null
                   PROVE  refcount'[o] = Cardinality(RefsTo(o)')
        OBVIOUS
      <3>1. CASE o = e BY <3>1, <1>2, <2>3 DEF IInv, TypeOK, CountInv
      <3>2. CASE o # e BY <3>2, <1>2, <2>4 DEF IInv, TypeOK, CountInv
      <3> QED BY <3>1, <3>2
    <2>6. \A r \in refs' : str[r[2]] # Null BY <1>1 DEF IInv, CountInv
    <2> QED BY <1>2, <2>2, <2>5, <2>6 DEF CountInv
  <1> QED BY <1>5, <1>6, <1>7, <1>8, <1>9, <1>10 DEF IInv

(***************************************************************************)
(* string_index_delete() removes from the index the STRING it frees.       *)
(***************************************************************************)
LEMMA DeleteStep ==
  ASSUME IInv, NEW t \in Thread, Delete(t)
  PROVE  IInv'
  <1> DEFINE e == ptr[t]
             n == str[ptr[t]]
  <1>1. /\ pc[t] = "delete" /\ CanWrite /\ pc' = [pc EXCEPT ![t] = "unindexed"]
        /\ index' = [index EXCEPT ![n] = Null]
        /\ UNCHANGED <<str, refcount, refs, arg, ptr>>
    BY DEF Delete, Goto
  <1>2. /\ e \in Entry /\ n \in Name /\ index[n] = e /\ refcount[e] = 0
        /\ \A u \in Thread : Deleting(u) /\ ptr[u] = e => u = t
    BY <1>1 DEF IInv, TypeOK, DeletingInv, Deleting
  <1>3. \A u \in Thread : pc[u] \notin {"acquire", "insert", "unindexed"}
    BY <1>1 DEF CanWrite, Reading, Writing
  <1>4. TypeOK' BY <1>1, <1>2 DEF IInv, TypeOK, Writing
  <1>5. LockInv' BY <1>1 DEF IInv, TypeOK, LockInv, CanWrite, Reading, Writing
  <1>6. FoundInv' BY <1>1, <1>3 DEF IInv, TypeOK, FoundInv
  <1>7. IndexInv'
    <2>1. \A m \in Name : index'[m] # Null => str'[index'[m]] = m
      BY <1>1, <1>2 DEF IInv, TypeOK, IndexInv
    <2>2. ASSUME NEW o \in Entry, str[o] # Null, o # e PROVE index'[str[o]] = o
      <3>1. index[str[o]] = o /\ str[o] \in Name BY <2>2, <1>3 DEF IInv, TypeOK, IndexInv
      <3>2. str[o] # n BY <3>1, <2>2, <1>2
      <3> QED BY <3>1, <3>2, <1>1 DEF IInv, TypeOK
    <2>3. pc'[t] = "unindexed" /\ ptr'[t] = e BY <1>1 DEF IInv, TypeOK
    <2> QED BY <1>1, <2>1, <2>2, <2>3 DEF IndexInv
  <1>8. DeletingInv'
    <2> SUFFICES ASSUME NEW u \in Thread, Deleting(u)'
                 PROVE  /\ ptr'[u] \in Entry
                        /\ str'[ptr'[u]] # Null
                        /\ refcount'[ptr'[u]] = 0
                        /\ \A v \in Thread : Deleting(v)' /\ ptr'[v] = ptr'[u] => v = u
                        /\ pc'[u] = "delete" => index'[str'[ptr'[u]]] = ptr'[u]
                        /\ pc'[u] = "unindexed" => index'[str'[ptr'[u]]] = Null
      BY DEF DeletingInv
    <2>1. \A v \in Thread : Deleting(v)' => Deleting(v) BY <1>1 DEF IInv, TypeOK, Deleting
    <2>2. /\ ptr[u] \in Entry /\ str[ptr[u]] # Null /\ refcount[ptr[u]] = 0
          /\ \A v \in Thread : Deleting(v) /\ ptr[v] = ptr[u] => v = u
          /\ pc[u] = "delete" => index[str[ptr[u]]] = ptr[u]
      BY <2>1 DEF IInv, DeletingInv
    <2>3. CASE u = t BY <2>1, <2>2, <2>3, <1>1, <1>2 DEF IInv, TypeOK
    <2>4. CASE u # t
      <3>1. pc'[u] = "delete" /\ pc[u] = "delete"
        BY <2>4, <1>1, <1>3 DEF IInv, TypeOK, Deleting
      <3>2. str[ptr[u]] # n /\ str[ptr[u]] \in Name
        BY <2>2, <2>4, <3>1, <1>1, <1>2 DEF IInv, TypeOK, Deleting
      <3> QED BY <2>1, <2>2, <3>1, <3>2, <1>1 DEF IInv, TypeOK
    <2> QED BY <2>3, <2>4
  <1>9. CountInv' BY <1>1 DEF IInv, CountInv, RefsTo
  <1> QED BY <1>4, <1>5, <1>6, <1>7, <1>8, <1>9 DEF IInv

(***************************************************************************)
(* string_index_delete() frees memory that nothing points to.              *)
(***************************************************************************)
LEMMA FreeStep ==
  ASSUME IInv, NEW t \in Thread, DeleteFree(t)
  PROVE  IInv'
  <1> DEFINE e == ptr[t]
  <1>1. /\ pc[t] = "unindexed" /\ pc' = [pc EXCEPT ![t] = "idle"]
        /\ str' = [str EXCEPT ![e] = Null]
        /\ UNCHANGED <<index, refcount, refs, arg, ptr>>
    BY DEF DeleteFree, Goto
  <1>2. /\ e \in Entry /\ str[e] \in Name /\ index[str[e]] = Null
        /\ \A u \in Thread : Deleting(u) /\ ptr[u] = e => u = t
    BY <1>1 DEF IInv, TypeOK, DeletingInv, Deleting
  <1>3. \A m \in Name : index[m] # e
    BY <1>2, NullAssumption DEF IInv, TypeOK, IndexInv
  <1>4. \A r \in refs : r[2] # e /\ r[2] \in Entry
    BY <1>1, ReferredIsAlive DEF Deleting
  <1>5. TypeOK' BY <1>1 DEF IInv, TypeOK
  <1>6. LockInv' BY <1>1 DEF IInv, TypeOK, LockInv, Reading, Writing
  <1>7. FoundInv' BY <1>1 DEF IInv, TypeOK, FoundInv
  <1>8. IndexInv'
    <2>1. \A m \in Name : index'[m] # Null => str'[index'[m]] = m
      BY <1>1, <1>3 DEF IInv, TypeOK, IndexInv
    <2>2. ASSUME NEW o \in Entry, str'[o] # Null
          PROVE  \/ index'[str'[o]] = o
                 \/ \E u \in Thread : pc'[u] = "unindexed" /\ ptr'[u] = o
      <3>1. o # e /\ str'[o] = str[o] BY <2>2, <1>1, <1>2 DEF IInv, TypeOK
      <3>2. CASE index[str[o]] = o BY <3>1, <3>2, <1>1
      <3>3. CASE \E u \in Thread : pc[u] = "unindexed" /\ ptr[u] = o
        BY <3>1, <3>3, <1>1 DEF IInv, TypeOK
      <3> QED BY <2>2, <3>1, <3>2, <3>3 DEF IInv, IndexInv
    <2> QED BY <2>1, <2>2 DEF IndexInv
  <1>9. DeletingInv' BY <1>1, <1>2 DEF IInv, TypeOK, DeletingInv, Deleting
  <1>10. CountInv' BY <1>1, <1>4 DEF IInv, TypeOK, CountInv, RefsTo
  <1> QED BY <1>5, <1>6, <1>7, <1>8, <1>9, <1>10 DEF IInv

(***************************************************************************)
(* Every step of string.c preserves the invariant.                         *)
(***************************************************************************)
LEMMA NextStep == IInv /\ [Next]_vars => IInv'
  <1> SUFFICES ASSUME IInv, [Next]_vars PROVE IInv' OBVIOUS
  <1>1. CASE UNCHANGED vars
    BY <1>1 DEF vars, IInv, TypeOK, LockInv, FoundInv, IndexInv, DeletingInv, Deleting,
                CountInv, RefsTo
  <1>2. CASE Next
    BY <1>2, LookStep, AcquireStep, CreateStep, DupStep, FreezStep, DeleteStep, FreeStep
       DEF Next, Locked, Unlocking
  <1> QED BY <1>1, <1>2

(***************************************************************************)
(* string_strdupz(), string_dup(), string_freez(): counters are exact and  *)
(* freed memory is not touched.                                            *)
(***************************************************************************)
THEOREM NoUseAfterFreeHolds == Spec => []NoUseAfterFree
  <1>1. IInv => NoUseAfterFree
    <2> SUFFICES ASSUME IInv PROVE NoUseAfterFree OBVIOUS
    <2>1. ASSUME NEW t \in Thread, ptr[t] # Null,
                 pc[t] \in {"acquire", "insert", "delete", "unindexed"}
          PROVE  str[ptr[t]] # Null
      <3>1. CASE Deleting(t) BY <3>1 DEF IInv, DeletingInv
      <3>2. CASE ~Deleting(t)
        <4>1. arg[t] \in Name /\ ptr[t] = index[arg[t]]
          BY <2>1, <3>2 DEF Deleting, IInv, FoundInv
        <4> QED BY <4>1, <2>1, NullAssumption DEF IInv, IndexInv
      <3> QED BY <3>1, <3>2
    <2> QED BY <2>1 DEF NoUseAfterFree, IInv, CountInv
  <1> QED BY InitIInv, NextStep, <1>1, PTL DEF Spec

(***************************************************************************)
(* string.c: strings can be compared by address.                           *)
(***************************************************************************)
THEOREM InternedHolds == Spec => []Interned
  <1>1. IInv => Interned
    <2> SUFFICES ASSUME IInv, NEW r \in refs, NEW q \in refs, str[r[2]] = str[q[2]]
                 PROVE  r[2] = q[2]
      BY DEF Interned
    <2>1. \A o \in refs : index[str[o[2]]] = o[2]
      BY ReferredIsAlive DEF IInv, IndexInv, Deleting
    <2> QED BY <2>1
  <1> QED BY InitIInv, NextStep, <1>1, PTL DEF Spec
=============================================================================
