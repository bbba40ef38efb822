------------------------------ MODULE WalkProofs ------------------------------
(***************************************************************************)
(* The walks that turn the folder part of a path into an id, for paths of  *)
(* any length and folders of any depth (DescendPath).  A walk is compared  *)
(* with another one step by step; the steps up to which they agree are a   *)
(* set of numbers that has 0 and, with a number, the next one.             *)
(***************************************************************************)
EXTENDS DatabaseStorageProofs, WellFoundedInduction

-----------------------------------------------------------------------------
(***************************************************************************)
(* Sets of natural numbers.                                                *)
(***************************************************************************)
LEMMA LeastNumber ==
    ASSUME NEW T, T \subseteq Nat, T # {}
    PROVE  \E m \in T : \A n \in T : m <= n
  <1> DEFINE R == OpToRel(<, Nat)
  <1>1. IsWellFoundedOn(R, Nat)
    BY NatLessThanWellFounded
  <1>2. \A x, y \in Nat : <<y, x>> \in R <=> y < x
    BY DEF OpToRel
  <1> HIDE DEF R
  <1>3. PICK m \in T : \A n \in T : ~(<<n, m>> \in R)
    BY <1>1, WFMin
  <1>4. ASSUME NEW n \in T
        PROVE  m <= n
    <2>1. m \in Nat /\ n \in Nat /\ ~(n < m)
      BY <1>2, <1>3
    <2> QED BY <2>1
  <1> QED BY <1>4

\* A set that has 0, and with a number the next one, has all of them.
LEMMA Upwards ==
    ASSUME NEW n \in Nat, NEW S, 0 \in S, \A i \in 1 .. n : i - 1 \in S => i \in S
    PROVE  \A i \in 0 .. n : i \in S
  <1> DEFINE T == (0 .. n) \ S
  <1>1. SUFFICES ASSUME T # {} PROVE FALSE
    OBVIOUS
  <1>2. PICK m \in T : \A i \in T : m <= i
    <2>1. T \subseteq Nat
      OBVIOUS
    <2> QED BY <1>1, <2>1, LeastNumber
  <1>3. m \in 1 .. n /\ m - 1 \in 0 .. n /\ ~(m <= m - 1)
    BY <1>2
  <1>4. m - 1 \in S
    BY <1>2, <1>3
  <1> QED BY <1>2, <1>3, <1>4

-----------------------------------------------------------------------------
(***************************************************************************)
(* Walks.                                                                  *)
(***************************************************************************)
\* Where a walk goes from the folder whose children are keyed by key[1].
StepTo(table, key) ==
    IF key \in DOMAIN table /\ table[key].type = FOLDER
    THEN ReadBigEndian(table[key].id) ELSE NoFolder

\* The first n steps of a walk are at.
IsWalk(table, path, form, n, at) ==
    at = [ i \in 0 .. n |-> IF i = 0 THEN ROOT_FSID ELSE StepTo(table, <<at[i - 1], form[path[i]]>>) ]

LEMMA WalkSteps ==
    ASSUME NEW table, NEW path, NEW form, NEW n \in Nat, NEW at, IsWalk(table, path, form, n, at)
    PROVE  /\ at[0] = ROOT_FSID
           /\ \A i \in 1 .. n : at[i] = StepTo(table, <<at[i - 1], form[path[i]]>>)
  <1>1. \A i \in 0 .. n :
          at[i] = IF i = 0 THEN ROOT_FSID ELSE StepTo(table, <<at[i - 1], form[path[i]]>>)
    BY DEF IsWalk
  <1>2. 0 \in 0 .. n /\ \A i \in 1 .. n : i \in 0 .. n /\ i # 0
    OBVIOUS
  <1> QED BY <1>1, <1>2

LEMMA WalkExtends ==
    ASSUME NEW table, NEW path, NEW form, NEW n \in Nat, NEW old, IsWalk(table, path, form, n, old)
    PROVE  \E new : IsWalk(table, path, form, n + 1, new)
  <1> DEFINE on  == StepTo(table, <<old[n], form[path[n + 1]]>>)
             new == [ j \in 0 .. n + 1 |-> IF j = n + 1 THEN on ELSE old[j] ]
  <1>1. /\ old[0] = ROOT_FSID
        /\ \A j \in 1 .. n : old[j] = StepTo(table, <<old[j - 1], form[path[j]]>>)
    <2>1. old[0] = ROOT_FSID
      BY WalkSteps
    <2>2. \A j \in 1 .. n : old[j] = StepTo(table, <<old[j - 1], form[path[j]]>>)
      BY WalkSteps
    <2> QED BY <2>1, <2>2
  <1>2. new[n + 1] = on /\ new[0] = ROOT_FSID /\ \A j \in 0 .. n : new[j] = old[j]
    BY <1>1
  <1>3. new = [ j \in 0 .. n + 1 |-> new[j] ]
    OBVIOUS
  <1> HIDE DEF new
  <1>4. ASSUME NEW j \in 0 .. n + 1
        PROVE  new[j] = IF j = 0 THEN ROOT_FSID ELSE StepTo(table, <<new[j - 1], form[path[j]]>>)
    <2>1. CASE j = 0
      BY <1>2, <2>1
    <2>2. CASE j = n + 1
      <3>1. j # 0 /\ j - 1 = n /\ n \in 0 .. n
        BY <2>2
      <3>2. new[j] = StepTo(table, <<old[n], form[path[j]]>>) /\ new[j - 1] = old[n]
        BY <1>2, <2>2, <3>1
      <3> QED BY <3>1, <3>2
    <2>3. CASE j \in 1 .. n
      <3>1. j \in 0 .. n /\ j - 1 \in 0 .. n /\ j # 0
        BY <2>3
      <3>2. new[j] = old[j] /\ new[j - 1] = old[j - 1]
        BY <1>2, <3>1
      <3> QED BY <1>1, <2>3, <3>1, <3>2
    <2> QED BY <2>1, <2>2, <2>3
  <1>5. IsWalk(table, path, form, n + 1, new)
    BY <1>3, <1>4, Zenon DEF IsWalk
  <1> QED BY <1>5

\* Every path can be walked.
LEMMA WalkExists ==
    ASSUME NEW table, NEW path, NEW form, NEW n \in Nat
    PROVE  \E at : IsWalk(table, path, form, n, at)
  <1> DEFINE S == { i \in 0 .. n : \E at : IsWalk(table, path, form, i, at) }
  <1>1. 0 \in S
    <2> DEFINE stay == [ i \in 0 .. 0 |-> ROOT_FSID ]
    <2>1. IsWalk(table, path, form, 0, stay)
      BY DEF IsWalk
    <2> QED BY <2>1
  <1>2. ASSUME NEW i \in 1 .. n, i - 1 \in S
        PROVE  i \in S
    <2>1. PICK old : IsWalk(table, path, form, i - 1, old)
      BY <1>2
    <2>2. i - 1 \in Nat /\ i - 1 + 1 = i
      OBVIOUS
    <2> HIDE DEF S
    <2>3. \E new : IsWalk(table, path, form, i - 1 + 1, new)
      BY <2>1, <2>2, WalkExtends
    <2> QED BY <2>2, <2>3 DEF S
  <1> HIDE DEF S
  <1>3. n \in S
    BY <1>1, <1>2, Upwards
  <1> QED BY <1>3 DEF S

BeginAlike(path, other, k) == \A i \in 1 .. k : path[i] = other[i]

\* There is one walk of a path, and it depends on the beginning of the path.
LEMMA WalkUnique ==
    ASSUME NEW table, NEW path, NEW other, NEW form, NEW m \in Nat, NEW n \in Nat,
           NEW k \in Nat, k <= m, k <= n, BeginAlike(path, other, k),
           NEW at, IsWalk(table, path, form, m, at),
           NEW bt, IsWalk(table, other, form, n, bt)
    PROVE  at[k] = bt[k]
  <1> DEFINE S == { i \in 0 .. k : at[i] = bt[i] }
  <1>1. /\ at[0] = ROOT_FSID /\ bt[0] = ROOT_FSID
        /\ \A i \in 1 .. m : at[i] = StepTo(table, <<at[i - 1], form[path[i]]>>)
        /\ \A i \in 1 .. n : bt[i] = StepTo(table, <<bt[i - 1], form[other[i]]>>)
    <2>1. at[0] = ROOT_FSID /\ bt[0] = ROOT_FSID
      BY WalkSteps
    <2>2. \A i \in 1 .. m : at[i] = StepTo(table, <<at[i - 1], form[path[i]]>>)
      BY WalkSteps
    <2>3. \A i \in 1 .. n : bt[i] = StepTo(table, <<bt[i - 1], form[other[i]]>>)
      BY WalkSteps
    <2> QED BY <2>1, <2>2, <2>3
  <1>2. 0 \in S
    BY <1>1
  <1>3. \A i \in 1 .. k : i - 1 \in S => i \in S
    <2>1. \A i \in 1 .. k : i \in 1 .. m /\ i \in 1 .. n /\ i \in 0 .. k /\ path[i] = other[i]
      BY DEF BeginAlike
    <2> QED BY <1>1, <2>1
  <1> HIDE DEF S
  <1>4. k \in S
    BY <1>2, <1>3, Upwards
  <1> QED BY <1>4 DEF S

\* DescendPath is the end of the walk.
LEMMA WalkEnds ==
    ASSUME NEW table, NEW path, NEW form, Len(path) \in Nat,
           NEW at, IsWalk(table, path, form, Len(path), at)
    PROVE  DescendPath(table, path, form) = at[Len(path)]
  <1> DEFINE IsFolder(key) == key \in DOMAIN table /\ table[key].type = FOLDER
             Walk(f) == [ i \in 0 .. Len(path) |->
                            IF i = 0 THEN ROOT_FSID
                            ELSE LET key == <<f[i - 1], form[path[i]]>>
                                 IN  IF IsFolder(key) THEN ReadBigEndian(table[key].id)
                                     ELSE NoFolder ]
             walk == CHOOSE f : f = Walk(f)
  <1>1. DescendPath(table, path, form) = walk[Len(path)]
    BY Zenon DEF DescendPath
  <1>2. \A f : f = Walk(f) <=> IsWalk(table, path, form, Len(path), f)
    BY Zenon DEF IsWalk, StepTo
  <1>3. walk = Walk(walk)
    <2> HIDE DEF Walk
    <2> QED BY <1>2
  <1> HIDE DEF Walk, walk
  <1>4. walk[Len(path)] = at[Len(path)]
    <2>1. IsWalk(table, path, form, Len(path), walk)
      BY <1>2, <1>3
    <2>2. Len(path) <= Len(path) /\ BeginAlike(path, path, Len(path))
      BY DEF BeginAlike
    <2> QED BY <2>1, <2>2, WalkUnique
  <1> QED BY <1>1, <1>4
-----------------------------------------------------------------------------
(***************************************************************************)
(* The walk of descend_path and those of make_directory, upload and list.  *)
(***************************************************************************)
\* A folder is found under a key with a parent, and a name in form KD.
LEMMA FolderKeys ==
    ASSUME TypeOK, RowsOK, NEW key, StepTo(fs, key) # NoFolder
    PROVE  key \in DOMAIN fs /\ key \in FileSystemId \X Name /\ key[1] # NoFolder /\ Nfkd[key[2]] = key[2]
  <1>1. key \in DOMAIN fs /\ key \in FileSystemId \X Name /\ fs[key].name \in Name
    BY DEF StepTo, TypeOK, FsTypeOK, FsRecordKey, FsRecordValue
  <1>2. key[1] # NoFolder
    BY <1>1 DEF FileSystemId, NoFolder
  <1>3. key[2] = Nfkd[fs[key].name]
    BY <1>1 DEF RowsOK, NamesLeadBack, MakeKey
  <1> QED BY <1>1, <1>2, <1>3, NameAssumption

LEMMA WalksMeet ==
    ASSUME TypeOK, RowsOK, NEW dir \in Dir,
           NEW form \in [Name -> Name], \A name \in Name : Nfkd[form[name]] = Nfkd[name]
    PROVE  DescendPath(fs, dir, form) \in {NoFolder, DescendPath(fs, dir, Nfkd)}
  <1> DEFINE n == Len(dir)
  <1>1. n \in Nat /\ \A i \in 1 .. n : dir[i] \in Name
    BY DirAssumption
  <1>2. PICK at : IsWalk(fs, dir, form, n, at)
    BY <1>1, WalkExists
  <1>3. PICK bt : IsWalk(fs, dir, Nfkd, n, bt)
    BY <1>1, WalkExists
  <1>4. DescendPath(fs, dir, form) = at[n] /\ DescendPath(fs, dir, Nfkd) = bt[n]
    BY <1>1, <1>2, <1>3, WalkEnds
  <1> HIDE DEF n
  <1>5. at[0] = ROOT_FSID /\ bt[0] = ROOT_FSID
    BY <1>1, <1>2, <1>3, WalkSteps
  <1>6. \A i \in 1 .. n : at[i] = StepTo(fs, <<at[i - 1], form[dir[i]]>>)
    BY <1>1, <1>2, WalkSteps
  <1>7. \A i \in 1 .. n : bt[i] = StepTo(fs, <<bt[i - 1], Nfkd[dir[i]]>>)
    BY <1>1, <1>3, WalkSteps
  <1> DEFINE S == { i \in 0 .. n : at[i] \in {NoFolder, bt[i]} }
  <1>8. 0 \in S
    BY <1>1, <1>5
  <1>9. ASSUME NEW i \in 1 .. n, i - 1 \in S
        PROVE  i \in S
    <2>1. SUFFICES ASSUME at[i] # NoFolder PROVE at[i] = bt[i]
      BY <1>1
    <2> DEFINE key == <<at[i - 1], form[dir[i]]>>
    <2>2. StepTo(fs, key) # NoFolder
      BY <1>6, <2>1
    <2>3. key[1] # NoFolder /\ Nfkd[key[2]] = key[2]
      <3> HIDE DEF key
      <3> QED BY <2>2, FolderKeys
    <2>4. at[i - 1] # NoFolder /\ Nfkd[form[dir[i]]] = form[dir[i]]
      BY <2>3
    <2>5. Nfkd[form[dir[i]]] = Nfkd[dir[i]]
      BY <1>1
    <2>6. at[i - 1] = bt[i - 1] /\ form[dir[i]] = Nfkd[dir[i]]
      BY <1>9, <2>4, <2>5
    <2> QED BY <1>6, <1>7, <2>6
  <1> HIDE DEF S
  <1>10. n \in S
    BY <1>1, <1>8, <1>9, Upwards
  <1> QED BY <1>4, <1>10 DEF S

\* Two walks that find a folder for one path find the same one, however deep.
THEOREM WalksFindTheSame == Spec => []WalksAgree
  <1>1. TypeOK /\ RowsOK => WalksAgree
    <2> SUFFICES ASSUME TypeOK, RowsOK, NEW dir \in Dir, NEW form \in {AsSent, Nfkc}
                 PROVE  DescendPath(fs, dir, form) \in {NoFolder, DescendPath(fs, dir, Nfkd)}
      BY DEF WalksAgree
    <2>1. form \in [Name -> Name] /\ \A name \in Name : Nfkd[form[name]] = Nfkd[name]
      BY NameAssumption DEF AsSent
    <2> QED BY <2>1, WalksMeet
  <1> QED BY <1>1, TypeCorrect, RowInvariance, PTL
-----------------------------------------------------------------------------
(***************************************************************************)
(* Moves.                                                                  *)
(***************************************************************************)
\* The keys of a walk are looked up from where its beginning ends.
LEMMA WalkBeginnings ==
    ASSUME NEW dir \in Dir, NEW at, IsWalk(fs, dir, Nfkd, Len(dir), at), NEW i \in 1 .. Len(dir)
    PROVE  <<at[i - 1], Nfkd[dir[i]]>> \in WalkedKeys(dir)
  <1> DEFINE part == SubSeq(dir, 1, i - 1)
             m    == i - 1
  <1>1. dir \in Seq(Name) /\ Len(dir) \in Nat /\ m \in Nat /\ m <= Len(dir)
    BY DirAssumption
  <1>2. Len(part) = m /\ \A j \in 1 .. m : part[j] = dir[j]
    BY <1>1
  <1>3. PICK bt : IsWalk(fs, part, Nfkd, m, bt)
    BY <1>1, WalkExists
  <1>4. DescendPath(fs, part, Nfkd) = bt[m]
    <2> HIDE DEF part, m
    <2> QED BY <1>1, <1>2, <1>3, WalkEnds
  <1>5. bt[m] = at[m]
    <2> HIDE DEF part, m
    <2>1. m <= m /\ BeginAlike(part, dir, m)
      BY <1>1, <1>2 DEF BeginAlike
    <2> QED BY <1>1, <1>3, <2>1, WalkUnique
  <1> QED BY <1>4, <1>5 DEF WalkedKeys

KeepsAllBut(table, source) ==
    \A key \in DOMAIN fs \ {source} : key \in DOMAIN table /\ table[key] = fs[key]

\* A walk that does not pass by a key that is removed finds the same folder
\* afterwards.
LEMMA WalkStays ==
    ASSUME TypeOK, RowsOK, NEW dir \in Dir, DescendPath(fs, dir, Nfkd) # NoFolder,
           NEW table, NEW source, source \notin WalkedKeys(dir), KeepsAllBut(table, source)
    PROVE  DescendPath(table, dir, Nfkd) = DescendPath(fs, dir, Nfkd)
  <1> DEFINE n == Len(dir)
  <1>1. n \in Nat
    BY DirAssumption
  <1>2. PICK at : IsWalk(fs, dir, Nfkd, n, at)
    BY <1>1, WalkExists
  <1>3. PICK bt : IsWalk(table, dir, Nfkd, n, bt)
    BY <1>1, WalkExists
  <1>4. DescendPath(fs, dir, Nfkd) = at[n] /\ DescendPath(table, dir, Nfkd) = bt[n]
    BY <1>1, <1>2, <1>3, WalkEnds
  <1>5. \A i \in 1 .. n : <<at[i - 1], Nfkd[dir[i]]>> \in WalkedKeys(dir)
    BY <1>2, WalkBeginnings
  <1> HIDE DEF n
  <1>6. at[0] = ROOT_FSID /\ bt[0] = ROOT_FSID
    BY <1>1, <1>2, <1>3, WalkSteps
  <1>7. \A i \in 1 .. n : at[i] = StepTo(fs, <<at[i - 1], Nfkd[dir[i]]>>)
    BY <1>1, <1>2, WalkSteps
  <1>8. \A i \in 1 .. n : bt[i] = StepTo(table, <<bt[i - 1], Nfkd[dir[i]]>>)
    BY <1>1, <1>3, WalkSteps
  <1> DEFINE S == { i \in 0 .. n : at[i] = NoFolder \/ bt[i] = at[i] }
  <1>9. 0 \in S
    BY <1>1, <1>6
  <1>10. ASSUME NEW i \in 1 .. n, i - 1 \in S
         PROVE  i \in S
    <2>1. SUFFICES ASSUME at[i] # NoFolder PROVE bt[i] = at[i]
      BY <1>1
    <2> DEFINE key == <<at[i - 1], Nfkd[dir[i]]>>
    <2>2. StepTo(fs, key) # NoFolder /\ at[i] = StepTo(fs, key)
      BY <1>7, <2>1
    <2>3. key \in DOMAIN fs /\ key[1] # NoFolder
      <3> HIDE DEF key
      <3> QED BY <2>2, FolderKeys
    <2>4. bt[i - 1] = at[i - 1]
      BY <1>10, <2>3
    <2>5. bt[i] = StepTo(table, key)
      BY <1>8, <2>4
    <2>6. key # source
      BY <1>5
    <2> HIDE DEF key
    <2>7. key \in DOMAIN table /\ table[key] = fs[key]
      BY <2>3, <2>6 DEF KeepsAllBut
    <2> QED BY <2>2, <2>3, <2>5, <2>7 DEF StepTo
  <1> HIDE DEF S
  <1>11. n \in S
    <2>1. \A i \in 1 .. n : i - 1 \in S => i \in S
      BY <1>10
    <2> QED BY <1>1, <1>9, <2>1, Upwards
  <1> QED BY <1>4, <1>11 DEF S

LEMMA MovedStep ==
    ASSUME TypeOK, RowsOK, reply' = Reply("move", "ok"),
           NEW dir \in Dir, NEW name \in Name, IsPresent(dir, name),
           NEW toDir \in Dir, NEW toName \in Name,
           TargetKey(dir, name) \notin WalkedKeys(toDir),
           Move(dir, name, {}, toDir, toName)
    PROVE  LET dest == MakeKey(DescendPath(fs', toDir, Nfkd), toName)
           IN  /\ DescendPath(fs', toDir, Nfkd) \in FileSystemId
               /\ dest \in DOMAIN fs'
               /\ fs'[dest].id = fs[TargetKey(dir, name)].id
  <1> DEFINE source == TargetKey(dir, name)
             dest   == TargetKey(toDir, toName)
  <1>1. Reply("move", "ok") # Reply("move", "error")
    BY DEF Reply
  <1>2. /\ DescendPath(fs, toDir, Nfkd) \in FileSystemId
        /\ dest \notin DOMAIN fs \ {source}
        /\ fs' = Moved(source, dest, toName)
    BY <1>1, Zenon DEF Move, Refuse
  <1>3. source \in DOMAIN fs /\ fs[source] \in FsRecordValue
    BY DEF IsPresent, TypeOK, FsTypeOK
  <1> HIDE DEF source, dest
  <1>4. /\ DOMAIN fs' = (DOMAIN fs \ {source}) \cup {dest}
        /\ fs'[dest] = [fs[source] EXCEPT !.name = toName]
        /\ \A key \in DOMAIN fs \ {source} : fs'[key] = fs[key]
    BY <1>2 DEF Moved, Insert, Remove
  <1>5. fs'[dest].id = fs[source].id
    BY <1>3, <1>4 DEF FsRecordValue
  <1>6. DescendPath(fs', toDir, Nfkd) = DescendPath(fs, toDir, Nfkd)
    <2>1. DescendPath(fs, toDir, Nfkd) # NoFolder
      BY <1>2, RadixAssumption DEF FileSystemId, NoFolder
    <2>2. source \notin WalkedKeys(toDir)
      BY DEF source
    <2>3. KeepsAllBut(fs', source)
      BY <1>4 DEF KeepsAllBut
    <2> QED BY <2>1, <2>2, <2>3, WalkStays
  <1>7. MakeKey(DescendPath(fs', toDir, Nfkd), toName) = dest
    BY <1>6 DEF dest, TargetKey
  <1> QED BY <1>2, <1>4, <1>5, <1>6, <1>7 DEF source

\* A moved object is found at its destination, however deep source and destination
\* are, unless the destination lies below it.
THEOREM MovedObjectsAreFound == Spec => MovedIsFound
  <1>1. TypeOK /\ RowsOK =>
          [ reply' = Reply("move", "ok") =>
              \A dir \in Dir, name \in Name :
                IsPresent(dir, name) => \A toDir \in Dir, toName \in Name :
                  /\ TargetKey(dir, name) \notin WalkedKeys(toDir)
                  /\ Move(dir, name, {}, toDir, toName)
                  => LET dest == MakeKey(DescendPath(fs', toDir, Nfkd), toName)
                     IN  /\ DescendPath(fs', toDir, Nfkd) \in FileSystemId
                         /\ dest \in DOMAIN fs'
                         /\ fs'[dest].id = fs[TargetKey(dir, name)].id ]_vars
    BY MovedStep
  <1> QED BY <1>1, TypeCorrect, RowInvariance, PTL DEF MovedIsFound

=============================================================================
