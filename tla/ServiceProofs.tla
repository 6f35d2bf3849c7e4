-------------------------- MODULE ServiceProofs ---------------------------
(***************************************************************************)
(* Proofs about the services behind the agent commands, in the order of    *)
(* MCServices.  The connection: however its calls fail, whenever it is     *)
(* cancelled and wherever the process ends, a status of Connected is the   *)
(* truth, the catalog shown is that of the account stored, and the adapter *)
(* implements ProviderAccount.  The stream: whatever the fragments, the    *)
(* events handed on are those of the whole response.  The source: what is  *)
(* sent of a file, a folder or a link is all of it, whatever is in it.     *)
(***************************************************************************)
EXTENDS Credentials, ProviderStream, SourceCapture, DataLemmas

---------------------------------------------------------------------------
(* The connection.                                                         *)

AnyAccount == Account \cup {NoAccount}
Credential == [Kind -> AnyAccount]
CatalogRow == [generation : Nat, account : AnyAccount, entries : SUBSET Model,
               current : BOOLEAN, rejected : SUBSET Model,
               selected : Model \cup {RequiresExplicitChoice}]

(* The steps of an operation: before it has taken its snapshot or after it *)
(* has let go of it, with the snapshot still equal to what is stored,      *)
(* writing, deleting, and on the way back                                  *)
FreePC   == {"idle", "device", "fresh", "http", "begin", "rmBegin", "streaming", "read",
             "fetching", "done"}
SnapPC   == {"seal", "unmark", "unseal", "rmSeal"}
WritePC  == {"write", "commit", "invalidate"}
RemovePC == {"rmDelete", "rmUnmark", "rmInvalidate"}
UndoPC   == {"undo", "undoMark", "undoSeal", "failed"}
HeldPC   == SnapPC \cup WritePC \cup RemovePC \cup UndoPC
ConnectPC == {"device", "begin", "seal", "unmark", "unseal", "done"} \cup WritePC \cup UndoPC

Operation == [by : {"none", "connect", "disconnect", "send", "catalog", "fetch"},
              pc : FreePC \cup HeldPC, account : AnyAccount, keep : BOOLEAN,
              force : BOOLEAN, token : BOOLEAN, snap : Credential, mark : BOOLEAN,
              prior : AnyAccount, changed : BOOLEAN, todo : Seq(Kind), done : Seq(Kind),
              restore : BOOLEAN, markBack : BOOLEAN, sealBack : BOOLEAN,
              committed : BOOLEAN, whole : BOOLEAN]

CredTypes ==
  /\ cred \in Credential /\ catalog \in CatalogRow /\ op \in Operation
  /\ marker \in BOOLEAN /\ seal \in BOOLEAN /\ flag \in BOOLEAN /\ connecting \in BOOLEAN
  /\ slot \in {"none", "armed", "cancelled"}
  /\ gate \in {"free", "busy", "stream", "reject", "fetch"}
  /\ choice \in Model \cup {NoModel}
  /\ owner \in AnyAccount /\ cut \in {"no", "torn", "uninvalidated"}

(* Who does what: only a connect waits for the user, and has an account    *)
(* from then on; only a connect or a disconnect that is under way, or a    *)
(* send, has the gate                                                      *)
Roles ==
  /\ op.by \in {"connect", "disconnect", "send"} => gate # "free"
  /\ connecting = (op.by = "connect")
  /\ slot \in {"armed", "cancelled"} => connecting
  /\ op.by = "none" => op.pc = "idle"
  /\ At("device") => op.by = "connect" /\ op.account = NoAccount
  /\ op.by = "connect" =>
       /\ op.pc \in ConnectPC /\ ~op.keep
       /\ ~At("device") => op.account \in Account
  /\ op.by \in {"none", "disconnect"} => op.pc \in {"idle", "rmBegin", "rmSeal"} \cup RemovePC \cup UndoPC

(* A change is under way only while the snapshot is held, and its commit   *)
(* stands until it is invalidated or undone                                *)
Phases ==
  /\ op.changed => op.pc \in HeldPC /\ (At("seal") \/ seal)
  /\ op.committed => op.changed /\ op.pc \in {"invalidate"} \cup UndoPC
                     /\ (op.pc \in UndoPC => op.markBack)
  /\ At("invalidate") => op.committed
  /\ op.pc \in {"seal"} \cup RemovePC => op.changed

(* What is said of the account: a marker has an owner, and the owner is    *)
(* that of the beginning unless a connect has committed, after which it    *)
(* cannot be cancelled                                                     *)
Owners ==
  /\ marker => owner \in Account
  /\ op.mark => op.prior \in Account
  /\ op.by = "connect" => owner = op.prior \/ (owner = op.account /\ slot = "none")
  /\ op.by # "none" /\ ~op.committed /\ (op.by = "connect" => ~At("done")) => owner = op.prior
  /\ op.by # "connect" => (op.by # "none" => owner = op.prior)
  /\ At("undoSeal") => owner = op.prior
  /\ At("invalidate") /\ op.by = "connect" => owner = op.account

(* A refresh begins under the marker, with the account of the marker       *)
Refreshes ==
  op.by # "connect" =>
    /\ op.pc \in {"fresh", "http", "begin"} =>
         marker /\ (cut # "torn" => \A k \in Kind : cred[k] = owner)
    /\ op.pc \in {"begin", "seal", "unmark", "unseal"} \cup WritePC =>
         /\ op.pc # "begin" => op.mark
         /\ cut # "torn" => op.account = owner /\ ~op.changed
    /\ op.committed => cut = "torn"
    /\ op.pc \in {"read", "fetching"} => (cut # "torn" => cred["access"] = cred["account"])

Elems(s) == {s[i] : i \in 1 .. Len(s)}
Needed   == IF op.keep THEN {"access", "account"} ELSE Kind

(* The values still to be written or deleted, and those that have been     *)
Queued ==
  /\ op.pc \in SnapPC \cup {"device", "fresh", "http", "begin", "rmBegin"} => op.done = <<>>
  /\ op.pc \in {"seal", "unmark", "write", "rmSeal", "rmDelete"} => op.todo # <<>>
  /\ op.pc \in {"seal", "unmark", "write"} => Needed \subseteq Elems(op.done) \cup Elems(op.todo)

(* What has been stored, against the snapshot                              *)
Snapshots ==
  /\ op.pc \in HeldPC /\ cut # "torn" /\ op.mark => \A k \in Kind : op.snap[k] \in {op.prior, NoAccount}
  /\ op.pc \in SnapPC => cred = op.snap /\ marker = op.mark
  /\ op.pc \in {"undoMark", "undoSeal"} => cred = op.snap
  /\ op.pc \in WritePC \cup RemovePC => \A k \in Kind \ Elems(op.done) : cred[k] = op.snap[k]
  /\ At("undo") /\ op.whole => \A k \in Kind \ Elems(op.todo) : cred[k] = op.snap[k]
  /\ op.pc \in {"write", "commit", "rmInvalidate"} => ~marker
  /\ op.pc \in {"rmDelete", "rmUnmark"} => marker = op.mark
  /\ op.pc \in RemovePC => \A k \in Kind : cred[k] \in {op.snap[k], NoAccount}
  /\ op.pc \in UndoPC /\ ~op.committed /\ marker =>
       op.mark /\ \A k \in Kind : cred[k] \in {op.snap[k], NoAccount}
  /\ At("undoSeal") /\ marker => op.mark

Written ==
  /\ op.pc \in WritePC => \A k \in Elems(op.done) : cred[k] = op.account
  /\ op.pc \in {"commit", "invalidate"} => Needed \subseteq Elems(op.done)
  /\ At("done") => cred["access"] = op.account /\ cred["account"] = op.account

(* The values under the marker are the owner's, unless a committed change  *)
(* is being undone                                                         *)
Intact ==
  marker /\ cut # "torn" /\ (op.committed => At("invalidate")) =>
    \A k \in Kind : cred[k] \in {owner, NoAccount}

(* The models kept are those of the account stored, or, while a change is  *)
(* under way, of the account in the snapshot                               *)
Followed ==
  /\ cut = "no" /\ Snapshot(catalog) # {} =>
       catalog.account = IF op.changed THEN op.snap["account"] ELSE cred["account"]
  /\ ~op.changed /\ op.pc \in {"unmark", "write", "commit"} \cup UndoPC =>
       /\ cred["account"] = op.snap["account"]
       /\ op.pc \notin UndoPC => op.snap["account"] = op.account

CredInv ==
  /\ CredTypes /\ Roles /\ Phases /\ Owners /\ Refreshes
  /\ Queued /\ Snapshots /\ Written /\ Intact /\ Followed


---------------------------------------------------------------------------
(* Sequences of values and what is in them                                 *)

LEMMA ElemsOf ==
  ASSUME NEW s \in Seq(Kind)
  PROVE  /\ Elems(s) \subseteq Kind /\ (s = <<>> => Elems(s) = {})
         /\ \A k \in Kind : Append(s, k) \in Seq(Kind) /\ Elems(Append(s, k)) = Elems(s) \cup {k}
         /\ s # <<>> => /\ Head(s) \in Kind /\ Tail(s) \in Seq(Kind)
                        /\ Elems(s) = {Head(s)} \cup Elems(Tail(s))
                        /\ Len(s) = 1 => Tail(s) = <<>>
                        /\ Len(s) # 1 => Tail(s) # <<>>
<1>1. Len(s) \in Nat /\ \A i \in 1 .. Len(s) : s[i] \in Kind
  BY LenProperties, ElementOfSeq
<1>2. Elems(s) \subseteq Kind /\ (s = <<>> => Elems(s) = {})
  BY <1>1, EmptySeq DEF Elems
<1>3. ASSUME NEW k \in Kind PROVE Append(s, k) \in Seq(Kind) /\ Elems(Append(s, k)) = Elems(s) \cup {k}
  <2>1. /\ Append(s, k) \in Seq(Kind) /\ Len(Append(s, k)) = Len(s) + 1
        /\ \A i \in 1 .. Len(s) : Append(s, k)[i] = s[i]
        /\ Append(s, k)[Len(s) + 1] = k
    BY AppendProperties
  <2> QED BY <1>1, <2>1 DEF Elems
<1>4. ASSUME s # <<>>
      PROVE  /\ Head(s) \in Kind /\ Tail(s) \in Seq(Kind)
             /\ Elems(s) = {Head(s)} \cup Elems(Tail(s))
             /\ Len(s) = 1 => Tail(s) = <<>>
             /\ Len(s) # 1 => Tail(s) # <<>>
  <2>1. /\ Head(s) \in Kind /\ Tail(s) \in Seq(Kind) /\ Len(Tail(s)) = Len(s) - 1
        /\ \A i \in 1 .. Len(Tail(s)) : Tail(s)[i] = s[i + 1]
    BY <1>4, HeadTailProperties
  <2>2. Head(s) = s[1] /\ Len(s) >= 1
    BY <1>1, <1>4, EmptySeq
  <2>3. Elems(s) = {Head(s)} \cup Elems(Tail(s))
    <3>1. ASSUME NEW x \in Elems(s) PROVE x \in {Head(s)} \cup Elems(Tail(s))
      <4>1. PICK i \in 1 .. Len(s) : x = s[i]
        BY DEF Elems
      <4>2. CASE i = 1
        BY <2>2, <4>1, <4>2
      <4>3. CASE i # 1
        <5>1. i - 1 \in 1 .. Len(Tail(s)) /\ (i - 1) + 1 = i
          BY <1>1, <2>1, <4>3
        <5>2. Tail(s)[i - 1] = s[i]
          BY <2>1, <5>1
        <5> QED BY <4>1, <5>1, <5>2 DEF Elems
      <4> QED BY <4>2, <4>3
    <3>2. ASSUME NEW x \in Elems(Tail(s)) PROVE x \in Elems(s)
      <4>1. PICK i \in 1 .. Len(Tail(s)) : x = Tail(s)[i]
        BY DEF Elems
      <4>2. i + 1 \in 1 .. Len(s) /\ x = s[i + 1]
        BY <1>1, <2>1, <4>1
      <4> QED BY <4>2 DEF Elems
    <3>3. Head(s) \in Elems(s)
      BY <1>1, <2>2 DEF Elems
    <3> QED BY <3>1, <3>2, <3>3
  <2>4. PICK t : t = Tail(s)
    OBVIOUS
  <2>5. t \in Seq(Kind) /\ Len(t) = Len(s) - 1
    BY <2>1, <2>4
  <2>6. Len(<<>>) = 0 /\ (t # <<>> => Len(t) \in Nat \ {0})
    BY <2>5, EmptySeq
  <2>7. (Len(s) = 1 => t = <<>>) /\ (Len(s) # 1 => t # <<>>)
    BY <1>1, <2>5, <2>6
  <2> QED BY <2>1, <2>3, <2>4, <2>7
<1> QED BY <1>2, <1>3, <1>4

LEMMA ReversedElems ==
  ASSUME NEW s \in Seq(Kind)
  PROVE  Reversed(s) \in Seq(Kind) /\ Elems(Reversed(s)) = Elems(s)
<1>1. Len(s) \in Nat /\ \A i \in 1 .. Len(s) : s[i] \in Kind
  BY LenProperties, ElementOfSeq
<1> DEFINE n == Len(s)
           r == Reversed(s)
<1>2. r \in [1 .. n -> Kind] /\ \A i \in 1 .. n : r[i] = s[n + 1 - i]
  BY <1>1 DEF Reversed
<1>3. r \in Seq(Kind)
  BY <1>1, <1>2, SeqDef
<1>4. Len(r) = n
  BY <1>1, <1>2, <1>3, LenProperties
<1> HIDE DEF n, r
<1>5. n \in Nat /\ Elems(s) = {s[i] : i \in 1 .. n} /\ Elems(r) = {r[i] : i \in 1 .. n}
  BY <1>1, <1>4 DEF Elems, n
<1>6. ASSUME NEW x \in Elems(s) PROVE x \in Elems(r)
  <2>1. PICK i \in 1 .. n : x = s[i]
    BY <1>5
  <2>2. n + 1 - i \in 1 .. n /\ n + 1 - (n + 1 - i) = i
    BY <1>5
  <2>3. r[n + 1 - i] = s[i]
    BY <1>2, <2>2
  <2> QED BY <1>5, <2>1, <2>2, <2>3
<1>7. ASSUME NEW x \in Elems(r) PROVE x \in Elems(s)
  <2>1. PICK i \in 1 .. n : x = r[i]
    BY <1>5
  <2>2. n + 1 - i \in 1 .. n
    BY <1>5
  <2> QED BY <1>2, <1>5, <2>1, <2>2
<1> QED BY <1>3, <1>6, <1>7 DEF r

LEMMA Orders ==
  /\ \A keep \in BOOLEAN :
       /\ WriteOrder(keep) \in Seq(Kind) /\ WriteOrder(keep) # <<>>
       /\ Elems(WriteOrder(keep)) = IF keep THEN {"access", "account"} ELSE Kind
  /\ DeleteOrder \in Seq(Kind) /\ DeleteOrder # <<>>
<1>1. <<"access", "account">> \in Seq(Kind) /\ Len(<<"access", "account">>) = 2
  BY DEF Kind
<1>2. Elems(<<"access", "account">>) = {"access", "account"}
  BY <1>1 DEF Elems
<1>3. <<"refresh", "access", "account">> \in Seq(Kind) /\ Len(<<"refresh", "access", "account">>) = 3
  BY DEF Kind
<1>4. Elems(<<"refresh", "access", "account">>) = Kind
  BY <1>3 DEF Elems, Kind
<1>5. DeleteOrder \in Seq(Kind) /\ DeleteOrder # <<>>
  BY DEF DeleteOrder, Kind
<1> QED BY <1>1, <1>2, <1>3, <1>4, <1>5, EmptySeq DEF WriteOrder

LEMMA NoOpType == NoOp \in Operation /\ NoCred \in Credential
<1>1. NoCred \in Credential
  BY DEF NoCred, Credential, AnyAccount
<1>2. <<>> \in Seq(Kind)
  BY EmptySeq
<1> QED BY <1>1, <1>2 DEF NoOp, Operation, FreePC, AnyAccount


---------------------------------------------------------------------------
(* The catalog                                                             *)

Narrows(c, d) == c \in CatalogRow /\ c.account = d.account /\ Snapshot(c) \subseteq Snapshot(d)

LEMMA CatalogSteps ==
  ASSUME NEW c \in CatalogRow
  PROVE  /\ Narrows(InvalidateCatalog(c), c) /\ Snapshot(InvalidateCatalog(c)) = {}
         /\ Narrows(ScrubCatalog(c), c) /\ Narrows(Touch(c), c)
         /\ Narrows([c EXCEPT !.current = FALSE], c)
         /\ \A m \in Model : Narrows([c EXCEPT !.selected = m], c)
         /\ \A m \in Model : \A sealed \in BOOLEAN : Narrows(RejectModel(c, m, sealed), c)
         /\ \A a \in AnyAccount : \A models \in SUBSET Model :
              /\ ReplaceSnapshot(c, c.generation, a, models) \in CatalogRow
              /\ ReplaceSnapshot(c, c.generation, a, models).account = a
<1>1. Narrows(InvalidateCatalog(c), c) /\ Snapshot(InvalidateCatalog(c)) = {}
  <2> DEFINE d == InvalidateCatalog(c)
  <2>1. c.generation + 1 \in Nat
    BY DEF CatalogRow
  <2>2. d \in CatalogRow /\ d.account = c.account /\ d.entries = {}
    BY <2>1 DEF InvalidateCatalog, CatalogRow
  <2> QED BY <2>2 DEF Narrows, Snapshot
<1>2. Narrows(ScrubCatalog(c), c) /\ Narrows(Touch(c), c) /\ Narrows([c EXCEPT !.current = FALSE], c)
  BY DEF ScrubCatalog, Touch, Narrows, CatalogRow, Snapshot
<1>3. ASSUME NEW m \in Model PROVE Narrows([c EXCEPT !.selected = m], c)
  BY <1>3 DEF Narrows, CatalogRow, Snapshot
<1>4. ASSUME NEW m \in Model, NEW sealed \in BOOLEAN PROVE Narrows(RejectModel(c, m, sealed), c)
  <2> DEFINE d == [c EXCEPT !.rejected = @ \cup {m}]
             e == [d EXCEPT !.selected = RequiresExplicitChoice]
  <2>1. d \in CatalogRow /\ d.account = c.account /\ Snapshot(d) \subseteq Snapshot(c)
    BY <1>4 DEF CatalogRow, Snapshot
  <2>2. e \in CatalogRow /\ e.account = d.account /\ Snapshot(e) = Snapshot(d)
    BY <2>1 DEF CatalogRow, Snapshot
  <2>3. RejectModel(c, m, sealed) \in {d, e}
    BY DEF RejectModel
  <2> QED BY <2>1, <2>2, <2>3 DEF Narrows
<1>5. ASSUME NEW a \in AnyAccount, NEW models \in SUBSET Model
      PROVE  /\ ReplaceSnapshot(c, c.generation, a, models) \in CatalogRow
             /\ ReplaceSnapshot(c, c.generation, a, models).account = a
  BY <1>5 DEF ReplaceSnapshot, CatalogRow
<1> QED BY <1>1, <1>2, <1>3, <1>4, <1>5

---------------------------------------------------------------------------
(* What is left when an operation is over                                  *)

Rest ==
  /\ marker => owner \in Account
  /\ marker /\ cut # "torn" => \A k \in Kind : cred[k] \in {owner, NoAccount}
  /\ cut = "no" /\ Snapshot(catalog) # {} => catalog.account = cred["account"]

StoredTypes ==
  /\ cred \in Credential /\ catalog \in CatalogRow /\ marker \in BOOLEAN /\ seal \in BOOLEAN
  /\ flag \in BOOLEAN /\ choice \in Model \cup {NoModel}
  /\ owner \in AnyAccount /\ cut \in {"no", "torn", "uninvalidated"}

AtRest ==
  /\ StoredTypes /\ Rest /\ op = NoOp /\ connecting = FALSE /\ slot = "none"
  /\ gate \in {"free", "busy", "stream", "reject", "fetch"}

LEMMA RestInv == AtRest => CredInv
<1> SUFFICES ASSUME AtRest PROVE CredInv
  OBVIOUS
<1>1. op \in Operation /\ op.by = "none" /\ op.pc = "idle" /\ ~op.changed /\ ~op.committed /\ ~op.mark
  BY NoOpType DEF NoOp, AtRest
<1>2. CredTypes
  BY <1>1 DEF StoredTypes, CredTypes, AtRest
<1>3. Roles /\ Phases /\ Owners /\ Refreshes
  BY <1>1 DEF Roles, Phases, Owners, Refreshes, At, Rest, WritePC, RemovePC, AtRest
<1>4. Queued /\ Snapshots /\ Written
  BY <1>1 DEF Queued, Snapshots, Written, At, HeldPC, SnapPC, WritePC, RemovePC, UndoPC
<1>5. Intact /\ Followed
  BY <1>1 DEF Intact, Followed, Rest, UndoPC, Kind, AtRest
<1> QED BY <1>2, <1>3, <1>4, <1>5 DEF CredInv

LEMMA RestInvNext == AtRest' => CredInv'
BY RestInv, PTL

(* An operation that lets go of profile_lock                               *)
LetsGo == op' = NoOp /\ connecting' = FALSE /\ slot' = "none"
          /\ gate' \in {"free", "busy", "stream", "reject", "fetch"}

LEMMA EndsLetGo ==
  ASSUME CredInv, Ends("free") \/ Ends("stream") \/ Ends("reject") \/ Ends("fetch")
  PROVE  LetsGo
BY DEF LetsGo, Ends, CredInv, CredTypes, Roles

LEMMA EndsInv ==
  ASSUME LetsGo, StoredTypes', Rest'
  PROVE  CredInv'
BY RestInvNext DEF AtRest, LetsGo

(* Where nothing has been changed yet, and after all of it is back         *)
LEMMA RestsHere ==
  ASSUME CredInv, op.pc \in FreePC \cup SnapPC \cup {"undoSeal"}
  PROVE  Rest
<1>1. marker => owner \in Account
  BY DEF CredInv, Owners
<1>2. marker /\ cut # "torn" => \A k \in Kind : cred[k] \in {owner, NoAccount}
  <2>1. CASE At("undoSeal")
    BY <2>1 DEF CredInv, Snapshots, Owners, HeldPC, UndoPC, At
  <2>2. CASE ~At("undoSeal")
    BY <2>2 DEF CredInv, Intact, Phases, FreePC, SnapPC, UndoPC, At
  <2> QED BY <2>1, <2>2
<1>3. cut = "no" /\ Snapshot(catalog) # {} => catalog.account = cred["account"]
  BY DEF CredInv, Followed, Phases, Snapshots, FreePC, HeldPC, SnapPC, UndoPC, WritePC, RemovePC, Kind, At
<1> QED BY <1>1, <1>2, <1>3 DEF Rest

LEMMA QuietEnd ==
  ASSUME CredInv, op.pc \in FreePC \cup SnapPC \cup {"undoSeal"},
         LetsGo, UNCHANGED <<cred, marker, catalog, owner, cut, choice>>,
         seal' \in BOOLEAN, flag' \in BOOLEAN
  PROVE  CredInv'
<1>1. Rest'
  BY RestsHere DEF Rest
<1>2. StoredTypes'
  BY DEF StoredTypes, CredInv, CredTypes
<1> QED BY <1>1, <1>2, EndsInv

(* An operation that goes no further                                       *)
LEMMA BrokenRests ==
  ASSUME CredInv, cut' = Broken, UNCHANGED <<marker, owner>>, Narrows(catalog', catalog),
         \/ cred' = cred
         \/ op.changed /\ \A k \in Kind : cred'[k] \in {cred[k], NoAccount}
  PROVE  Rest' /\ cut' \in {"no", "torn", "uninvalidated"}
<1>1. op.changed \in BOOLEAN /\ op.committed \in BOOLEAN /\ cut \in {"no", "torn", "uninvalidated"}
  BY DEF CredInv, CredTypes, Operation
<1>2. cut' \in {"no", "torn", "uninvalidated"}
  BY <1>1 DEF Broken
<1>3. cut' # "torn" => cut # "torn" /\ (op.committed => At("invalidate"))
  BY <1>1 DEF Broken
<1>4. cut' = "no" => cut = "no" /\ ~op.changed
  BY <1>1, <1>3 DEF Broken
<1>5. marker' => owner' \in Account
  BY DEF CredInv, Owners
<1>6. marker' /\ cut' # "torn" => \A k \in Kind : cred'[k] \in {owner', NoAccount}
  <2>1. marker' /\ cut' # "torn" => \A k \in Kind : cred[k] \in {owner, NoAccount}
    BY <1>3 DEF CredInv, Intact
  <2> QED BY <2>1
<1>7. cut' = "no" /\ Snapshot(catalog') # {} => catalog'.account = cred'["account"]
  <2>1. cut' = "no" /\ Snapshot(catalog) # {} => catalog.account = cred["account"]
    BY <1>4 DEF CredInv, Followed
  <2> QED BY <1>4, <2>1 DEF Narrows
<1> QED BY <1>2, <1>5, <1>6, <1>7 DEF Rest

LEMMA SameCatalog ==
  ASSUME CredInv
  PROVE  Narrows(catalog, catalog)
BY DEF CredInv, CredTypes, Narrows

---------------------------------------------------------------------------
(* The first steps of an operation                                         *)

LEMMA ConnectedNow ==
  ASSUME CredInv, op = NoOp, ConnectionStatus = "connected"
  PROVE  marker /\ (cut # "torn" => \A k \in Kind : cred[k] = owner)
<1>1. marker /\ \A k \in Kind : cred[k] # NoAccount
  BY DEF ConnectionStatus
<1>2. ~op.committed
  BY DEF NoOp
<1> QED BY <1>1, <1>2 DEF CredInv, Intact

LEMMA BeginInv ==
  ASSUME CredInv, op = NoOp, op' \in Operation, UNCHANGED <<stored, choice, history>>,
         op'.by # "none", op'.pc \in {"device", "rmBegin", "fresh", "streaming"},
         op'.prior = owner, ~op'.changed, ~op'.committed, ~op'.mark, op'.done = <<>>,
         flag' \in BOOLEAN, connecting' \in BOOLEAN, slot' \in {"none", "armed", "cancelled"},
         gate' \in {"free", "busy", "stream", "reject", "fetch"}, Roles',
         At("fresh")' => op'.by # "connect" /\ marker /\ (cut # "torn" => \A k \in Kind : cred[k] = owner)
  PROVE  CredInv'
<1>1. CredTypes'
  BY DEF CredInv, CredTypes, stored, history
<1>2. Phases' /\ Owners'
  BY DEF CredInv, Phases, Owners, At, RemovePC, stored, history
<1>3. Refreshes'
  BY DEF Refreshes, At, WritePC, stored, history
<1>4. Queued' /\ Snapshots' /\ Written'
  BY DEF Queued, Snapshots, Written, At, HeldPC, SnapPC, WritePC, RemovePC, UndoPC
<1>5. op.pc \in FreePC
  BY DEF NoOp, FreePC
<1>6. Intact' /\ Followed'
  BY <1>5, RestsHere DEF Rest, Intact, Followed, UndoPC, stored, history
<1> QED BY <1>1, <1>2, <1>3, <1>4, <1>6 DEF CredInv

LEMMA FreeInv ==
  ASSUME CredInv, op.pc \in FreePC, op.by # "none", op.by = "connect" => ~At("done"),
         op' \in Operation, op'.pc \in FreePC \ {"done"},
         op'.by = op.by, op'.prior = op.prior, op'.changed = op.changed,
         op'.committed = op.committed, op'.mark = op.mark,
         UNCHANGED <<stored, connecting, slot, gate, choice, history>>, flag' \in BOOLEAN,
         Roles', Refreshes', Queued'
  PROVE  CredInv'
<1>1. CredTypes'
  BY DEF CredInv, CredTypes, stored, history
<1>2. ~op.changed /\ ~op.committed
  BY DEF CredInv, Phases, FreePC, HeldPC, SnapPC, WritePC, RemovePC, UndoPC
<1>3. Phases' /\ Owners'
  BY <1>2 DEF CredInv, Phases, Owners, At, stored, history, FreePC, RemovePC
<1>4. Snapshots' /\ Written'
  BY DEF Snapshots, Written, At, HeldPC, SnapPC, WritePC, RemovePC, UndoPC, FreePC
<1>5. Intact' /\ Followed'
  BY <1>2, RestsHere DEF Rest, Intact, Followed, UndoPC, FreePC, stored, history
<1> QED BY <1>1, <1>3, <1>4, <1>5 DEF CredInv

LEMMA ConnectBeginInv == CredInv /\ ConnectBegin => CredInv'
<1> SUFFICES ASSUME CredInv, ConnectBegin PROVE CredInv'
  OBVIOUS
<1>1. op = NoOp /\ op'.by = "connect" /\ op'.pc = "device" /\ op'.prior = owner /\ op'.account = NoAccount
      /\ ~op'.keep /\ ~op'.changed /\ ~op'.committed /\ ~op'.mark /\ op'.done = <<>>
  BY DEF ConnectBegin, Begins, NoOp
<1>2. op' \in Operation
  BY NoOpType DEF ConnectBegin, Begins, Operation, CredInv, CredTypes, FreePC
<1>3. Roles'
  BY <1>1 DEF ConnectBegin, Roles, At, ConnectPC
<1> QED BY <1>1, <1>2, <1>3, BeginInv DEF ConnectBegin, CredInv, CredTypes, At, bounds

LEMMA DisconnectBeginInv == CredInv /\ DisconnectBegin => CredInv'
<1> SUFFICES ASSUME CredInv, DisconnectBegin PROVE CredInv'
  OBVIOUS
<1>1. op = NoOp /\ op'.by = "disconnect" /\ op'.pc = "rmBegin" /\ op'.prior = owner
      /\ ~op'.changed /\ ~op'.committed /\ ~op'.mark /\ op'.done = <<>>
  BY DEF DisconnectBegin, Begins, NoOp
<1>2. op' \in Operation
  BY NoOpType DEF DisconnectBegin, Begins, Operation, CredInv, CredTypes, FreePC
<1>3. Roles'
  BY <1>1 DEF DisconnectBegin, CredInv, Roles, At, NoOp
<1> QED BY <1>1, <1>2, <1>3, BeginInv DEF DisconnectBegin, CredInv, CredTypes, At

LEMMA SendBeginInv == CredInv /\ SendBegin => CredInv'
<1> SUFFICES ASSUME CredInv, SendBegin PROVE CredInv'
  OBVIOUS
<1>1. op = NoOp /\ op'.by = "send" /\ op'.pc = "fresh" /\ op'.prior = owner
      /\ ~op'.changed /\ ~op'.committed /\ ~op'.mark /\ op'.done = <<>>
  BY DEF SendBegin, Begins, NoOp
<1>2. op' \in Operation
  BY NoOpType DEF SendBegin, Begins, Operation, CredInv, CredTypes, FreePC
<1>3. Roles'
  BY <1>1 DEF SendBegin, CredInv, Roles, At, NoOp
<1>4. marker /\ (cut # "torn" => \A k \in Kind : cred[k] = owner)
  BY <1>1, ConnectedNow DEF SendBegin
<1> QED BY <1>1, <1>2, <1>3, <1>4, BeginInv DEF SendBegin, CredInv, CredTypes, At

LEMMA CatalogBeginInv ==
  ASSUME CredInv, NEW force \in BOOLEAN, CatalogBegin(force)
  PROVE  CredInv'
<1>1. op = NoOp /\ op'.by = "catalog" /\ op'.pc = "fresh" /\ op'.prior = owner
      /\ ~op'.changed /\ ~op'.committed /\ ~op'.mark /\ op'.done = <<>>
  BY DEF CatalogBegin, NoOp
<1>2. op' \in Operation
  BY NoOpType DEF CatalogBegin, Operation, CredInv, CredTypes, FreePC
<1>3. Roles'
  BY <1>1 DEF CatalogBegin, CredInv, Roles, At, NoOp
<1>4. marker /\ (cut # "torn" => \A k \in Kind : cred[k] = owner)
  BY <1>1, ConnectedNow DEF CatalogBegin
<1> QED BY <1>1, <1>2, <1>3, <1>4, BeginInv DEF CatalogBegin, CredInv, CredTypes, At

(* A gate let go of with profile_lock free                                 *)
LEMMA GateInv ==
  ASSUME CredInv, op = NoOp, UNCHANGED <<cred, marker, seal, connecting, slot, op, flag, choice, history>>,
         gate' \in {"free", "fetch"}, Narrows(catalog', catalog)
  PROVE  CredInv'
<1>1. op.pc \in FreePC /\ op.by = "none"
  BY DEF NoOp, FreePC
<1>2. Rest'
  BY <1>1, RestsHere DEF Rest, history, Narrows
<1>3. StoredTypes'
  BY DEF StoredTypes, CredInv, CredTypes, history, Narrows
<1>4. slot' = "none" /\ connecting' = FALSE
  BY <1>1 DEF CredInv, Roles, CredTypes
<1>5. AtRest'
  BY <1>2, <1>3, <1>4 DEF AtRest
<1> QED BY <1>5, RestInvNext

LEMMA FetchBeginInv == CredInv /\ FetchBegin => CredInv'
<1> SUFFICES ASSUME CredInv, FetchBegin PROVE CredInv'
  OBVIOUS
<1>1. CASE ConnectionStatus = "connected"
  <2>1. op = NoOp /\ op'.by = "fetch" /\ op'.pc = "fresh" /\ op'.prior = owner
        /\ ~op'.changed /\ ~op'.committed /\ ~op'.mark /\ op'.done = <<>>
    BY <1>1 DEF FetchBegin, NoOp
  <2>2. op' \in Operation
    <3>1. op' = [NoOp EXCEPT !.by = "fetch", !.pc = "fresh", !.force = TRUE, !.prior = owner]
      BY <1>1 DEF FetchBegin
    <3>2. owner \in AnyAccount /\ "fresh" \in FreePC
      BY DEF CredInv, CredTypes, FreePC
    <3>3. NoOp \in Operation
      BY NoOpType
    <3> QED BY <3>1, <3>2, <3>3 DEF Operation
  <2>3. Roles'
    BY <1>1, <2>1 DEF FetchBegin, CredInv, Roles, At, NoOp
  <2>4. marker /\ (cut # "torn" => \A k \in Kind : cred[k] = owner)
    BY <1>1, <2>1, ConnectedNow
  <2> QED BY <1>1, <2>1, <2>2, <2>3, <2>4, BeginInv DEF FetchBegin, CredInv, CredTypes, At
<1>2. CASE ConnectionStatus # "connected"
  BY <1>2, SameCatalog, GateInv DEF FetchBegin, stored
<1> QED BY <1>1, <1>2

LEMMA StreamBeginInv == CredInv /\ StreamBegin => CredInv'
<1> SUFFICES ASSUME CredInv, StreamBegin PROVE CredInv'
  OBVIOUS
<1>1. CASE cred["access"] = NoAccount \/ cred["account"] = NoAccount
  BY <1>1, SameCatalog, GateInv DEF StreamBegin, stored
<1>2. CASE ~(cred["access"] = NoAccount \/ cred["account"] = NoAccount)
  <2>1. op = NoOp /\ op'.by = "send" /\ op'.pc = "streaming" /\ op'.prior = owner
        /\ ~op'.changed /\ ~op'.committed /\ ~op'.mark /\ op'.done = <<>>
    BY <1>2 DEF StreamBegin, Begins, NoOp
  <2>2. op' \in Operation
    <3>1. op' = [NoOp EXCEPT !.by = "send", !.pc = "streaming", !.prior = owner]
      BY <1>2 DEF StreamBegin, Begins
    <3>2. owner \in AnyAccount
      BY DEF CredInv, CredTypes
    <3> QED BY <3>1, <3>2, NoOpType DEF Operation, FreePC
  <2>3. Roles'
    BY <1>2, <2>1 DEF StreamBegin, CredInv, Roles, At, NoOp
  <2> QED BY <1>2, <2>1, <2>2, <2>3, BeginInv DEF StreamBegin, CredInv, CredTypes, At
<1> QED BY <1>1, <1>2

LEMMA DeviceCodeInv == CredInv /\ DeviceCode => CredInv'
<1> SUFFICES ASSUME CredInv, DeviceCode PROVE CredInv'
  OBVIOUS
<1>1. op.pc = "device" /\ op.pc \in FreePC /\ op.by = "connect"
  BY DEF DeviceCode, At, FreePC, CredInv, Roles
<1>2. CASE Ends("free")
  BY <1>1, <1>2, EndsLetGo, QuietEnd DEF DeviceCode, stored, history, CredInv, CredTypes
<1>3. CASE /\ \E a \in Account : op' = [op EXCEPT !.pc = "begin", !.account = a]
           /\ UNCHANGED <<connecting, slot, gate>>
  <2>1. PICK a \in Account : op' = [op EXCEPT !.pc = "begin", !.account = a]
    BY <1>3
  <2>2. op' \in Operation /\ op'.pc = "begin" /\ op'.by = op.by /\ op'.prior = op.prior
        /\ op'.changed = op.changed /\ op'.committed = op.committed /\ op'.mark = op.mark /\ op'.done = op.done
        /\ op'.account = a /\ op'.keep = op.keep
    BY <2>1 DEF CredInv, CredTypes, Operation, FreePC, AnyAccount
  <2>3. ~op.keep
    BY <1>1 DEF CredInv, Roles
  <2>4. Roles' /\ Refreshes' /\ Queued'
    BY <1>1, <1>3, <2>2, <2>3 DEF CredInv, Roles, Refreshes, Queued, At, ConnectPC
  <2> QED BY <1>1, <1>3, <2>2, <2>4, FreeInv DEF DeviceCode, FreePC, At, CredInv, CredTypes
<1> QED BY <1>2, <1>3 DEF DeviceCode

---------------------------------------------------------------------------
(* The refresh, the stream and the catalog                                 *)

LEMMA FreshInv == CredInv /\ Fresh => CredInv'
<1> SUFFICES ASSUME CredInv, Fresh PROVE CredInv'
  OBVIOUS
<1>1. op.pc = "fresh" /\ op.pc \in FreePC /\ op.by \notin {"connect", "none", "disconnect"}
  BY DEF Fresh, At, FreePC, CredInv, Roles, ConnectPC, WritePC, UndoPC, RemovePC
<1>2. flag' \in BOOLEAN
  BY DEF Fresh, CredInv, CredTypes
<1>3. Ends("free") \/ Ends("stream") \/ Goes("http") \/ Goes("read")
  BY DEF Fresh
<1>4. CASE Ends("free")
  BY <1>1, <1>2, <1>4, EndsLetGo, QuietEnd DEF Fresh, stored, history, CredInv, CredTypes
<1>5. CASE Ends("stream")
  BY <1>1, <1>2, <1>5, EndsLetGo, QuietEnd DEF Fresh, stored, history, CredInv, CredTypes
<1>6. CASE Goes("http") \/ Goes("read")
  <2>1. op' \in Operation /\ op'.pc \in {"http", "read"} /\ op'.by = op.by /\ op'.prior = op.prior
        /\ op'.changed = op.changed /\ op'.committed = op.committed /\ op'.mark = op.mark /\ op'.done = op.done
    BY <1>6 DEF Goes, CredInv, CredTypes, Operation, FreePC
  <2>2. UNCHANGED <<connecting, slot, gate>>
    BY <1>6 DEF Goes
  <2>3. Roles'
    BY <1>1, <2>1, <2>2 DEF CredInv, Roles, At
  <2>4. ~op.committed
    BY <1>1 DEF CredInv, Phases, UndoPC
  <2>5. Refreshes' /\ Queued'
    BY <1>1, <2>1, <2>4 DEF Fresh, CredInv, Refreshes, Queued, SnapPC, At, WritePC, Kind, stored, history
  <2> QED BY <1>1, <1>2, <2>1, <2>2, <2>3, <2>5, FreeInv DEF Fresh, FreePC
<1> QED BY <1>3, <1>4, <1>5, <1>6

LEMMA HttpInv == CredInv /\ Http => CredInv'
<1> SUFFICES ASSUME CredInv, Http PROVE CredInv'
  OBVIOUS
<1>1. op.pc = "http" /\ op.pc \in FreePC /\ op.by \notin {"connect", "none", "disconnect"}
  BY DEF Http, At, FreePC, CredInv, Roles, ConnectPC, WritePC, UndoPC, RemovePC
<1>2. flag' \in BOOLEAN
  BY DEF Http, CredInv, CredTypes
<1>3. ~op.committed /\ ~op.changed
  BY <1>1 DEF CredInv, Phases, UndoPC, HeldPC, SnapPC, WritePC, RemovePC
<1>4. CASE Ends("free")
  BY <1>1, <1>2, <1>4, EndsLetGo, QuietEnd DEF Http, stored, history, CredInv, CredTypes
<1>5. ASSUME op' = [op EXCEPT !.pc = "rmBegin", !.restore = FALSE], UNCHANGED <<connecting, slot, gate>>
      PROVE  CredInv'
  <2>1. op' \in Operation /\ op'.pc = "rmBegin" /\ op'.by = op.by /\ op'.prior = op.prior
        /\ op'.changed = op.changed /\ op'.committed = op.committed /\ op'.mark = op.mark /\ op'.done = op.done
    BY <1>5 DEF CredInv, CredTypes, Operation, FreePC
  <2>2. Roles' /\ Refreshes' /\ Queued'
    BY <1>1, <1>3, <1>5, <2>1 DEF CredInv, Roles, Refreshes, Queued, At, WritePC
  <2> QED BY <1>1, <1>2, <1>5, <2>1, <2>2, FreeInv DEF Http, FreePC
<1>6. ASSUME NEW keep \in BOOLEAN, UNCHANGED <<connecting, slot, gate>>,
             op' = [op EXCEPT !.pc = "begin", !.account = cred["refresh"], !.keep = keep]
      PROVE  CredInv'
  <2>1. cred["refresh"] \in AnyAccount
    BY DEF CredInv, CredTypes, Credential, Kind
  <2>2. op' \in Operation /\ op'.pc = "begin" /\ op'.by = op.by /\ op'.prior = op.prior
        /\ op'.changed = op.changed /\ op'.committed = op.committed /\ op'.mark = op.mark /\ op'.done = op.done
        /\ op'.account = cred["refresh"]
    BY <1>6, <2>1 DEF CredInv, CredTypes, Operation, FreePC
  <2>3. Roles'
    BY <1>1, <1>6, <2>2 DEF CredInv, Roles, At
  <2>4. marker /\ (cut # "torn" => \A k \in Kind : cred[k] = owner)
    BY <1>1 DEF CredInv, Refreshes
  <2>5. Refreshes' /\ Queued'
    BY <1>1, <1>3, <2>2, <2>4 DEF Http, CredInv, Refreshes, Queued, At, WritePC, Kind, stored, history
  <2> QED BY <1>1, <1>2, <1>6, <2>2, <2>3, <2>5, FreeInv DEF Http, FreePC
<1> QED BY <1>4, <1>5, <1>6 DEF Http

LEMMA StreamEndInv == CredInv /\ StreamEnd => CredInv'
<1> SUFFICES ASSUME CredInv, StreamEnd PROVE CredInv'
  OBVIOUS
<1>1. op.pc \in FreePC
  BY DEF StreamEnd, At, FreePC
<1>2. flag' \in BOOLEAN
  BY DEF StreamEnd, CredInv, CredTypes
<1>3. Ends("free") \/ Ends("reject")
  BY DEF StreamEnd
<1> QED BY <1>1, <1>2, <1>3, EndsLetGo, QuietEnd DEF StreamEnd, stored, history, CredInv, CredTypes

LEMMA CatalogReadInv == CredInv /\ CatalogRead => CredInv'
<1> SUFFICES ASSUME CredInv, CatalogRead PROVE CredInv'
  OBVIOUS
<1>1. op.pc = "read" /\ op.pc \in FreePC /\ op.by \notin {"connect", "none", "disconnect"}
  BY DEF CatalogRead, At, FreePC, CredInv, Roles, ConnectPC, WritePC, UndoPC, RemovePC
<1>2. flag' \in BOOLEAN
  BY DEF CatalogRead, CredInv, CredTypes
<1>3. CASE Ends("free")
  BY <1>1, <1>2, <1>3, EndsLetGo, QuietEnd DEF CatalogRead, stored, history, CredInv, CredTypes
<1>4. CASE Goes("fetching")
  <2>1. op' \in Operation /\ op'.pc = "fetching" /\ op'.by = op.by /\ op'.prior = op.prior
        /\ op'.changed = op.changed /\ op'.committed = op.committed /\ op'.mark = op.mark /\ op'.done = op.done
    BY <1>4 DEF Goes, CredInv, CredTypes, Operation, FreePC
  <2>2. UNCHANGED <<connecting, slot, gate>>
    BY <1>4 DEF Goes
  <2>3. Roles'
    BY <1>1, <2>1, <2>2 DEF CredInv, Roles, At
  <2>4. ~op.committed
    BY <1>1 DEF CredInv, Phases, UndoPC
  <2>5. Refreshes' /\ Queued'
    BY <1>1, <2>1, <2>4 DEF CatalogRead, CredInv, Refreshes, Queued, SnapPC, At, WritePC, Kind, stored, history
  <2> QED BY <1>1, <1>2, <2>1, <2>2, <2>3, <2>5, FreeInv DEF CatalogRead, FreePC, At
<1> QED BY <1>3, <1>4 DEF CatalogRead

LEMMA CatalogFetchInv == CredInv /\ CatalogFetch => CredInv'
<1> SUFFICES ASSUME CredInv, CatalogFetch PROVE CredInv'
  OBVIOUS
<1>1. op.pc = "fetching" /\ op.pc \in FreePC /\ op.by # "connect"
  BY DEF CatalogFetch, At, FreePC, CredInv, Roles, ConnectPC, WritePC, UndoPC, RemovePC
<1>2. catalog \in CatalogRow /\ cred["access"] \in AnyAccount
  BY DEF CredInv, CredTypes, Credential, Kind
<1>3. \/ Narrows(catalog', catalog)
      \/ catalog' \in CatalogRow /\ catalog'.account = cred["access"]
  <2>1. CASE catalog' = catalog
    BY <2>1, SameCatalog
  <2>2. CASE catalog' = Touch(catalog)
    BY <1>2, <2>2, CatalogSteps
  <2>3. ASSUME NEW models \in SUBSET Model,
               catalog' = ReplaceSnapshot(catalog, catalog.generation, cred["access"], models)
        PROVE  catalog' \in CatalogRow /\ catalog'.account = cred["access"]
    BY <1>2, <2>3, CatalogSteps
  <2> QED BY <2>1, <2>2, <2>3 DEF CatalogFetch
<1>4. cut # "torn" => cred["access"] = cred["account"]
  BY <1>1 DEF CredInv, Refreshes
<1>5. Rest
  BY <1>1, RestsHere
<1>6. Rest'
  BY <1>3, <1>4, <1>5 DEF Rest, Narrows, CatalogFetch, history
<1>7. StoredTypes'
  BY <1>3 DEF StoredTypes, CredInv, CredTypes, CatalogFetch, history, Narrows
<1> QED BY <1>6, <1>7, EndsLetGo, EndsInv DEF CatalogFetch

---------------------------------------------------------------------------
(* The steps that do not take profile_lock                                 *)

LEMMA CancelSendInv == CredInv /\ CancelSend => CredInv'
<1> SUFFICES ASSUME CredInv, CancelSend PROVE CredInv'
  OBVIOUS
<1>1. /\ op' \in Operation /\ op'.pc = op.pc /\ op'.by = op.by /\ op'.prior = op.prior
      /\ op'.changed = op.changed /\ op'.committed = op.committed /\ op'.mark = op.mark
      /\ op'.account = op.account /\ op'.keep = op.keep /\ op'.snap = op.snap /\ op'.todo = op.todo
      /\ op'.done = op.done /\ op'.markBack = op.markBack /\ op'.whole = op.whole
  BY DEF CancelSend, CredInv, CredTypes, Operation
<1>2. CredTypes' /\ Roles'
  BY <1>1 DEF CancelSend, CredInv, CredTypes, Roles, At, stored, history
<1>3. Phases' /\ Owners' /\ Refreshes'
  BY <1>1 DEF CancelSend, CredInv, Phases, Owners, Refreshes, At, stored, history
<1>4. Queued' /\ Snapshots' /\ Written'
  BY <1>1 DEF CancelSend, CredInv, Queued, Snapshots, Written, Needed, At, stored, history
<1>5. Intact' /\ Followed'
  BY <1>1 DEF CancelSend, CredInv, Intact, Followed, At, stored, history
<1> QED BY <1>2, <1>3, <1>4, <1>5 DEF CredInv

LEMMA CancelConnectInv == CredInv /\ CancelConnect => CredInv'
<1> SUFFICES ASSUME CredInv, CancelConnect PROVE CredInv'
  OBVIOUS
<1>1. CredTypes' /\ Roles'
  BY DEF CancelConnect, CredInv, CredTypes, Roles, At, stored, history
<1>2. Phases' /\ Owners' /\ Refreshes'
  BY DEF CancelConnect, CredInv, Phases, Owners, Refreshes, At, stored, history
<1>3. Queued' /\ Snapshots' /\ Written' /\ Intact' /\ Followed'
  BY DEF CancelConnect, CredInv, Queued, Snapshots, Written, Intact, Followed, Needed, At, stored, history
<1> QED BY <1>1, <1>2, <1>3 DEF CredInv

(* What ages, rejects or selects a model                                   *)
LEMMA CatalogTouchedInv ==
  ASSUME CredInv, UNCHANGED <<cred, marker, seal, connecting, slot, op, flag, history>>,
         gate' = gate \/ gate' = "fetch", choice' \in Model \cup {NoModel}, Narrows(catalog', catalog)
  PROVE  CredInv'
<1>1. CredTypes'
  BY DEF CredInv, CredTypes, Narrows, history
<1>2. Roles' /\ Phases' /\ Owners' /\ Refreshes'
  BY DEF CredInv, Roles, Phases, Owners, Refreshes, At, history
<1>3. Queued' /\ Snapshots' /\ Written' /\ Intact' /\ Followed'
  BY DEF CredInv, Queued, Snapshots, Written, Intact, Followed, Needed, At, Narrows, history
<1> QED BY <1>1, <1>2, <1>3 DEF CredInv

LEMMA CatalogStepsInv ==
  CredInv /\ (SelectWrite \/ CatalogAges \/ \E m \in Model : ApplyRejection(m) \/ SelectBegin(m)) => CredInv'
<1>1. ASSUME CredInv PROVE catalog \in CatalogRow /\ seal \in BOOLEAN /\ choice \in Model \cup {NoModel}
  BY <1>1 DEF CredInv, CredTypes
<1>2. ASSUME CredInv, SelectWrite PROVE CredInv'
  <2>1. Narrows(catalog', catalog)
    BY <1>1, <1>2, CatalogSteps, SameCatalog DEF SelectWrite
  <2> QED BY <1>2, <2>1, CatalogTouchedInv DEF SelectWrite, holder
<1>3. ASSUME CredInv, CatalogAges PROVE CredInv'
  BY <1>1, <1>3, CatalogSteps, CatalogTouchedInv DEF CatalogAges, holder
<1>4. ASSUME CredInv, NEW m \in Model, ApplyRejection(m) PROVE CredInv'
  BY <1>1, <1>4, CatalogSteps, CatalogTouchedInv DEF ApplyRejection
<1>5. ASSUME CredInv, NEW m \in Model, SelectBegin(m) PROVE CredInv'
  BY <1>5, SameCatalog, CatalogTouchedInv DEF SelectBegin, holder, stored
<1> QED BY <1>2, <1>3, <1>4, <1>5

LEMMA ProcessRestartsInv == CredInv /\ ProcessRestarts => CredInv'
<1> SUFFICES ASSUME CredInv, ProcessRestarts PROVE CredInv'
  OBVIOUS
<1>1. Rest' /\ cut' \in {"no", "torn", "uninvalidated"}
  BY BrokenRests, SameCatalog DEF ProcessRestarts, stored
<1>2. StoredTypes'
  BY <1>1 DEF StoredTypes, CredInv, CredTypes, ProcessRestarts, stored
<1>3. AtRest'
  BY <1>1, <1>2 DEF AtRest, ProcessRestarts
<1> QED BY <1>3, RestInvNext

---------------------------------------------------------------------------
(* Storing the tokens                                                      *)

LEMMA PersistBeginInv == CredInv /\ PersistBegin => CredInv'
<1> SUFFICES ASSUME CredInv, PersistBegin PROVE CredInv'
  OBVIOUS
<1>1. op.pc = "begin" /\ op.pc \in FreePC /\ op.by \notin {"none", "disconnect"}
  BY DEF PersistBegin, At, FreePC, CredInv, Roles, UndoPC, RemovePC
<1>2. CASE Ends("free")
  BY <1>1, <1>2, EndsLetGo, QuietEnd DEF PersistBegin, stored, history, CredInv, CredTypes
<1> DEFINE changed == cred["account"] # op.account
<1>3. CASE /\ op' = [op EXCEPT !.pc = IF changed THEN "seal" ELSE "unmark",
                       !.snap = cred, !.mark = marker, !.changed = changed,
                       !.todo = WriteOrder(op.keep)]
           /\ UNCHANGED <<connecting, slot, gate>>
  <2>1. cred \in Credential /\ marker \in BOOLEAN /\ op.keep \in BOOLEAN
    BY DEF CredInv, CredTypes, Operation
  <2>2. WriteOrder(op.keep) \in Seq(Kind) /\ WriteOrder(op.keep) # <<>>
        /\ Needed = Elems(WriteOrder(op.keep))
    BY <2>1, Orders DEF Needed
  <2>3. op' \in Operation
    <3> DEFINE n == IF changed THEN "seal" ELSE "unmark"
               kinds == WriteOrder(op.keep)
    <3>1. op' = [op EXCEPT !.pc = n, !.snap = cred, !.mark = marker, !.changed = changed,
                           !.todo = kinds]
      BY <1>3
    <3>2. n \in FreePC \cup HeldPC /\ kinds \in Seq(Kind) /\ changed \in BOOLEAN
      BY <2>2 DEF HeldPC, SnapPC
    <3>3. op \in Operation
      BY DEF CredInv, CredTypes
    <3> HIDE DEF n, kinds, changed
    <3> QED BY <2>1, <3>1, <3>2, <3>3 DEF Operation
  <2>4. /\ op'.pc = (IF changed THEN "seal" ELSE "unmark") /\ op'.snap = cred /\ op'.mark = marker
        /\ op'.changed = changed /\ op'.by = op.by /\ op'.prior = op.prior /\ op'.account = op.account
        /\ op'.keep = op.keep /\ op'.committed = op.committed
        /\ op'.todo = WriteOrder(op.keep) /\ op'.done = op.done
    BY <1>3 DEF CredInv, CredTypes, Operation
  <2>5. ~op.committed
    BY <1>1 DEF CredInv, Phases, UndoPC
  <2>6. UNCHANGED <<cred, marker, seal, catalog, owner, cut, connecting, slot, gate, flag, choice>>
    BY <1>3 DEF PersistBegin, stored, history
  <2> HIDE DEF changed
  <2>7. op'.pc \in {"seal", "unmark"} /\ (At("seal")' <=> op'.changed)
    BY <2>1, <2>3, <2>4 DEF At, Operation
  <2>8. CredTypes'
    BY <2>3, <2>6 DEF CredInv, CredTypes
  <2>9. Roles'
    BY <1>1, <2>4, <2>6, <2>7 DEF CredInv, Roles, At, ConnectPC
  <2>10. Phases'
    BY <2>4, <2>5, <2>7 DEF Phases, At, HeldPC, SnapPC, RemovePC
  <2>11. owner = op.prior
    BY <1>1, <2>5 DEF CredInv, Owners, At
  <2>12. Owners'
    BY <2>4, <2>6, <2>7, <2>11 DEF CredInv, Owners, At
  <2>13. Refreshes'
    <3>1. op.by # "connect" => marker /\ (cut # "torn" => op.account = owner /\ ~changed)
      BY <1>1 DEF CredInv, Refreshes, changed, Kind
    <3> QED BY <2>4, <2>5, <2>6, <2>7, <3>1 DEF Refreshes, At
  <2>14. Rest
    BY <1>1, RestsHere
  <2>15. Snapshots' /\ Written'
    BY <2>4, <2>6, <2>7, <2>11, <2>14 DEF Rest, Snapshots, Written, At, HeldPC, SnapPC, WritePC, RemovePC, UndoPC
  <2>16. Intact'
    BY <2>6, <2>14 DEF Intact, Rest
  <2>17. Followed'
    BY <2>4, <2>6, <2>7, <2>14 DEF Followed, Rest, changed, UndoPC
  <2>18. Queued'
    BY <1>1, <2>2, <2>4, <2>7 DEF CredInv, Queued, Needed
  <2> QED BY <2>8, <2>9, <2>10, <2>12, <2>13, <2>15, <2>16, <2>17, <2>18 DEF CredInv
<1> QED BY <1>2, <1>3 DEF PersistBegin

(* A step along which only pc of the operation changes                     *)
LEMMA GoesTo ==
  ASSUME CredInv, NEW pc \in FreePC \cup HeldPC, Goes(pc)
  PROVE  /\ op' \in Operation /\ op'.pc = pc /\ op'.by = op.by /\ op'.prior = op.prior
         /\ op'.changed = op.changed /\ op'.committed = op.committed /\ op'.mark = op.mark
         /\ op'.account = op.account /\ op'.keep = op.keep /\ op'.snap = op.snap /\ op'.todo = op.todo
         /\ op'.done = op.done /\ op'.markBack = op.markBack /\ op'.whole = op.whole
         /\ UNCHANGED <<connecting, slot, gate>>
BY DEF CredInv, CredTypes, Operation, Goes

LEMMA PersistSealInv == CredInv /\ PersistSeal => CredInv'
<1> SUFFICES ASSUME CredInv, PersistSeal PROVE CredInv'
  OBVIOUS
<1>1. op.pc = "seal" /\ op.pc \in SnapPC /\ op.by \notin {"none", "disconnect"}
  BY DEF PersistSeal, At, SnapPC, CredInv, Roles, UndoPC, RemovePC
<1>2. CASE Ends("free") /\ UNCHANGED seal
  BY <1>1, <1>2, EndsLetGo, QuietEnd DEF PersistSeal, history, CredInv, CredTypes
<1>3. CASE seal' = TRUE /\ Goes("unmark")
  <2> DEFINE n == "unmark"
  <2>1. n \in FreePC \cup HeldPC /\ Goes(n)
    BY <1>3 DEF HeldPC, SnapPC
  <2> HIDE DEF n
  <2>2. /\ op' \in Operation /\ op'.pc = n /\ op'.by = op.by /\ op'.prior = op.prior
        /\ op'.changed = op.changed /\ op'.committed = op.committed /\ op'.mark = op.mark
        /\ op'.account = op.account /\ op'.keep = op.keep /\ op'.snap = op.snap
        /\ op'.todo = op.todo /\ op'.done = op.done /\ UNCHANGED <<connecting, slot, gate>>
    BY <2>1, GoesTo
  <2>3. op'.pc = "unmark"
    BY <2>2 DEF n
  <2>4. UNCHANGED <<cred, marker, catalog, owner, cut, flag, choice>> /\ seal' = TRUE
    BY <1>3 DEF PersistSeal, history
  <2>5. op.changed /\ ~op.committed
    BY <1>1 DEF CredInv, Phases, UndoPC
  <2>6. CredTypes' /\ Roles'
    BY <1>1, <2>2, <2>3, <2>4 DEF CredInv, CredTypes, Roles, At, ConnectPC
  <2>7. Phases' /\ Owners'
    BY <1>1, <2>2, <2>3, <2>4, <2>5 DEF CredInv, Phases, Owners, At, HeldPC, SnapPC, RemovePC
  <2>8. Refreshes'
    BY <1>1, <2>2, <2>3, <2>4, <2>5 DEF CredInv, Refreshes, At
  <2>9. Queued' /\ Snapshots' /\ Written'
    BY <1>1, <2>2, <2>3, <2>4 DEF CredInv, Queued, Needed, Snapshots, Written, At, HeldPC, SnapPC, WritePC, RemovePC, UndoPC
  <2>10. Intact' /\ Followed'
    BY <1>1, <2>2, <2>3, <2>4, <2>5 DEF CredInv, Intact, Followed
  <2> QED BY <2>6, <2>7, <2>8, <2>9, <2>10 DEF CredInv
<1> QED BY <1>2, <1>3 DEF PersistSeal

LEMMA PersistUnmarkInv == CredInv /\ PersistUnmark => CredInv'
<1> SUFFICES ASSUME CredInv, PersistUnmark PROVE CredInv'
  OBVIOUS
<1>1. op.pc = "unmark" /\ op.pc \in SnapPC /\ op.by \notin {"none", "disconnect"}
  BY DEF PersistUnmark, At, SnapPC, CredInv, Roles, UndoPC, RemovePC
<1>2. \/ UNCHANGED marker /\ Ends("free")
      \/ UNCHANGED marker /\ Goes("unseal")
      \/ marker' = FALSE /\ Goes("write")
  BY DEF PersistUnmark
<1>3. CASE UNCHANGED marker /\ Ends("free")
  BY <1>1, <1>3, EndsLetGo, QuietEnd DEF PersistUnmark, history, CredInv, CredTypes
<1>4. CASE UNCHANGED marker /\ Goes("unseal")
  <2>1. /\ op' \in Operation /\ op'.by = op.by /\ op'.prior = op.prior
        /\ op'.changed = op.changed /\ op'.committed = op.committed /\ op'.mark = op.mark
        /\ op'.account = op.account /\ op'.keep = op.keep /\ op'.snap = op.snap
        /\ op'.done = op.done /\ op'.pc = "unseal" /\ UNCHANGED <<connecting, slot, gate>>
    BY <1>4 DEF Goes, CredInv, CredTypes, Operation, HeldPC, SnapPC
  <2>2. UNCHANGED <<cred, marker, seal, catalog, owner, cut, flag, choice>>
    BY <1>4 DEF PersistUnmark, history
  <2>3. ~op.committed
    BY <1>1 DEF CredInv, Phases, UndoPC
  <2>4. CredTypes' /\ Roles'
    BY <1>1, <2>1, <2>2 DEF CredInv, CredTypes, Roles, At, ConnectPC
  <2>5. Phases' /\ Owners'
    BY <1>1, <2>1, <2>2, <2>3 DEF CredInv, Phases, Owners, At, HeldPC, SnapPC, RemovePC
  <2>6. Refreshes'
    BY <1>1, <2>1, <2>2, <2>3 DEF CredInv, Refreshes, At
  <2>7. Queued' /\ Snapshots' /\ Written'
    BY <1>1, <2>1, <2>2 DEF CredInv, Queued, Snapshots, Written, At, HeldPC, SnapPC, WritePC, RemovePC, UndoPC
  <2>8. Intact' /\ Followed'
    BY <1>1, <2>1, <2>2, <2>3 DEF CredInv, Intact, Followed, UndoPC
  <2> QED BY <2>4, <2>5, <2>6, <2>7, <2>8 DEF CredInv
<1>5. CASE marker' = FALSE /\ Goes("write")
  <2>1. /\ op' \in Operation /\ op'.by = op.by /\ op'.prior = op.prior
        /\ op'.changed = op.changed /\ op'.committed = op.committed /\ op'.mark = op.mark
        /\ op'.account = op.account /\ op'.keep = op.keep /\ op'.snap = op.snap
        /\ op'.todo = op.todo /\ op'.done = op.done
        /\ op'.pc = "write" /\ UNCHANGED <<connecting, slot, gate>>
    BY <1>5 DEF Goes, CredInv, CredTypes, Operation, HeldPC, WritePC
  <2>2. UNCHANGED <<cred, seal, catalog, owner, cut, flag, choice>> /\ marker' = FALSE
    BY <1>5 DEF PersistUnmark, history
  <2>3. ~op.committed
    BY <1>1 DEF CredInv, Phases, UndoPC
  <2>4. CredTypes' /\ Roles'
    BY <1>1, <2>1, <2>2 DEF CredInv, CredTypes, Roles, At, ConnectPC, WritePC
  <2>5. Phases' /\ Owners'
    BY <1>1, <2>1, <2>2, <2>3 DEF CredInv, Phases, Owners, At, HeldPC, WritePC, RemovePC
  <2>6. Refreshes'
    BY <1>1, <2>1, <2>2, <2>3 DEF CredInv, Refreshes, At, WritePC
  <2>7. Snapshots'
    BY <1>1, <2>1, <2>2 DEF CredInv, Snapshots, At, HeldPC, SnapPC, WritePC, RemovePC, UndoPC
  <2>8. op.done = <<>> /\ Elems(op.done) = {}
    BY <1>1, EmptySeq, ElemsOf DEF CredInv, Queued
  <2>9. Intact' /\ Followed'
    BY <1>1, <2>1, <2>2, <2>3 DEF CredInv, Intact, Followed, UndoPC
  <2>10. Queued' /\ Written'
    BY <1>1, <2>1, <2>2, <2>8 DEF CredInv, Queued, Written, Needed, At, SnapPC, WritePC
  <2> QED BY <2>4, <2>5, <2>6, <2>7, <2>9, <2>10 DEF CredInv
<1> QED BY <1>2, <1>3, <1>4, <1>5

LEMMA PersistUnsealInv == CredInv /\ PersistUnseal => CredInv'
<1> SUFFICES ASSUME CredInv, PersistUnseal PROVE CredInv'
  OBVIOUS
<1>1. op.pc \in SnapPC
  BY DEF PersistUnseal, At, SnapPC
<1>2. seal' \in BOOLEAN
  BY DEF PersistUnseal, CredInv, CredTypes
<1> QED BY <1>1, <1>2, EndsLetGo, QuietEnd DEF PersistUnseal, history, CredInv, CredTypes

(* The way back begins                                                     *)
LEMMA UndoBeginsInv ==
  ASSUME CredInv, op.pc \in WritePC \cup RemovePC,
         NEW done \in Seq(Kind), NEW markBack \in BOOLEAN, NEW sealBack \in BOOLEAN,
         UndoBegins(done, markBack, sealBack), op.committed => markBack,
         UNCHANGED <<marker, seal, catalog, choice, history>>, flag' \in BOOLEAN,
         cred' \in Credential, \A k \in Kind \ Elems(done) : cred'[k] = op.snap[k],
         ~op.committed /\ marker => op.mark /\ \A k \in Kind : cred'[k] \in {op.snap[k], NoAccount},
         ~op.changed => cred'["account"] = op.snap["account"]
  PROVE  CredInv'
<1>1. Reversed(done) \in Seq(Kind) /\ Elems(Reversed(done)) = Elems(done)
  BY ReversedElems
<1>2. op' \in Operation
  BY <1>1 DEF UndoBegins, CredInv, CredTypes, Operation, HeldPC, UndoPC
<1>3. /\ op'.pc = "undo" /\ op'.by = op.by /\ op'.prior = op.prior /\ op'.account = op.account
      /\ op'.keep = op.keep /\ op'.snap = op.snap /\ op'.mark = op.mark /\ op'.changed = op.changed
      /\ op'.committed = op.committed /\ op'.markBack = markBack /\ op'.todo = Reversed(done)
      /\ UNCHANGED <<connecting, slot, gate>>
  BY DEF UndoBegins, CredInv, CredTypes, Operation
<1>4. UNCHANGED <<marker, seal, catalog, choice, owner, cut>>
  BY DEF history
<1>5. op.pc \notin {"done", "seal", "undoSeal", "device"}
  BY DEF WritePC, RemovePC
<1>6. CredTypes'
  BY <1>2, <1>3, <1>4 DEF CredInv, CredTypes
<1>7. Roles'
  BY <1>3, <1>5 DEF CredInv, Roles, At, ConnectPC, UndoPC, WritePC, RemovePC
<1>8. Phases'
  BY <1>3, <1>4, <1>5 DEF CredInv, Phases, At, HeldPC, UndoPC, RemovePC
<1>9. Owners'
  BY <1>3, <1>4, <1>5 DEF CredInv, Owners, At
<1>10. Refreshes'
  BY <1>3, <1>4 DEF CredInv, Refreshes, At, WritePC
<1>11. Queued' /\ Written'
  BY <1>3 DEF Queued, Written, At, SnapPC, WritePC
<1>12. op.mark /\ cut # "torn" => \A k \in Kind : op.snap[k] \in {op.prior, NoAccount}
  BY DEF CredInv, Snapshots, HeldPC
<1>13. Snapshots'
  BY <1>1, <1>3, <1>4, <1>12 DEF Snapshots, At, HeldPC, SnapPC, WritePC, RemovePC, UndoPC
<1>14. ~op.committed => owner = op.prior
  BY <1>5 DEF CredInv, Owners, Roles, At, WritePC, RemovePC
<1>15. Intact'
  BY <1>3, <1>4, <1>12, <1>14 DEF Intact, At
<1>16. ~op.changed => cred["account"] = op.snap["account"]
  BY DEF CredInv, Followed, Phases, WritePC, RemovePC, At
<1>17. Followed'
  BY <1>3, <1>4, <1>16 DEF CredInv, Followed, UndoPC
<1> QED BY <1>6, <1>7, <1>8, <1>9, <1>10, <1>11, <1>13, <1>15, <1>17 DEF CredInv

LEMMA PersistWriteInv == CredInv /\ PersistWrite => CredInv'
<1> SUFFICES ASSUME CredInv, PersistWrite PROVE CredInv'
  OBVIOUS
<1>1. op.pc = "write" /\ op.pc \in WritePC /\ op.by \notin {"none", "disconnect"}
  BY DEF PersistWrite, At, WritePC, CredInv, Roles, UndoPC, RemovePC
<1>2. op.todo \in Seq(Kind) /\ op.done \in Seq(Kind) /\ op.todo # <<>> /\ op.account \in AnyAccount
      /\ cred \in Credential /\ op.changed \in BOOLEAN
  BY <1>1 DEF CredInv, CredTypes, Operation, Queued
<1>3. PICK kind \in Kind : kind = Head(op.todo)
  BY <1>2, ElemsOf
<1>4. PICK ok \in BOOLEAN :
        LET done == IF ok THEN Append(op.done, kind) ELSE op.done IN
        /\ cred' = IF ok THEN [cred EXCEPT ![kind] = op.account] ELSE cred
        /\ IF ~ok \/ Cancelled THEN UndoBegins(done, TRUE, op.changed)
           ELSE /\ op' = [op EXCEPT !.pc = IF Len(op.todo) = 1 THEN "commit" ELSE "write",
                                    !.todo = Tail(op.todo), !.done = done]
                /\ UNCHANGED <<connecting, slot, gate>>
  BY <1>3 DEF PersistWrite
<1>5. PICK done \in Seq(Kind) : done = IF ok THEN Append(op.done, kind) ELSE op.done
  BY <1>2, ElemsOf
<1>6. Elems(done) = Elems(op.done) \cup (IF ok THEN {kind} ELSE {})
  BY <1>2, <1>5, ElemsOf
<1>7. cred' \in Credential /\ \A k \in Kind : cred'[k] = IF ok /\ k = kind THEN op.account ELSE cred[k]
  BY <1>2, <1>4 DEF Credential
<1>8. \A k \in Kind \ Elems(done) : cred'[k] = op.snap[k]
  BY <1>1, <1>6, <1>7 DEF CredInv, Snapshots
<1>9. ~marker /\ ~op.committed
  BY <1>1 DEF CredInv, Snapshots, Phases, UndoPC
<1>10. ~op.changed => cred["account"] = op.snap["account"] /\ op.snap["account"] = op.account
  BY <1>1 DEF CredInv, Followed, UndoPC
<1>11. ~op.changed => cred'["account"] = op.snap["account"]
  BY <1>7, <1>10 DEF Kind
<1>12. UNCHANGED <<marker, seal, catalog, owner, cut, flag, choice>>
  BY DEF PersistWrite, history
<1>13. CASE UndoBegins(done, TRUE, op.changed)
  BY <1>1, <1>2, <1>5, <1>7, <1>8, <1>9, <1>11, <1>12, <1>13, UndoBeginsInv DEF history, CredInv, CredTypes
<1>14. CASE /\ ok
            /\ op' = [op EXCEPT !.pc = IF Len(op.todo) = 1 THEN "commit" ELSE "write",
                                    !.todo = Tail(op.todo), !.done = done]
            /\ UNCHANGED <<connecting, slot, gate>>
  <2>1. Tail(op.todo) \in Seq(Kind) /\ Elems(op.todo) = {kind} \cup Elems(Tail(op.todo))
        /\ (Len(op.todo) = 1 => Tail(op.todo) = <<>>) /\ (Len(op.todo) # 1 => Tail(op.todo) # <<>>)
    BY <1>2, <1>3, ElemsOf
  <2>2. op' \in Operation
    BY <1>14, <2>1 DEF CredInv, CredTypes, Operation, HeldPC, WritePC
  <2>3. /\ op'.pc = (IF Len(op.todo) = 1 THEN "commit" ELSE "write") /\ op'.todo = Tail(op.todo)
        /\ op'.done = done /\ op'.by = op.by /\ op'.prior = op.prior
        /\ op'.changed = op.changed /\ op'.committed = op.committed /\ op'.mark = op.mark
        /\ op'.account = op.account /\ op'.keep = op.keep /\ op'.snap = op.snap
    BY <1>14 DEF CredInv, CredTypes, Operation
  <2>4. op'.pc \in {"write", "commit"} /\ (At("write")' => op'.todo # <<>>)
        /\ (At("commit")' => op'.todo = <<>>)
    BY <2>1, <2>3 DEF At
  <2>5. CredTypes'
    BY <1>7, <1>12, <1>14, <2>2 DEF CredInv, CredTypes
  <2>6. Roles'
    BY <1>1, <1>14, <2>3, <2>4 DEF CredInv, Roles, At, ConnectPC, WritePC
  <2>7. Phases' /\ Owners'
    BY <1>1, <1>9, <1>12, <1>14, <2>3, <2>4 DEF CredInv, Phases, Owners, At, HeldPC, WritePC, RemovePC
  <2>8. Refreshes'
    BY <1>1, <1>9, <1>12, <2>3, <2>4 DEF CredInv, Refreshes, At, WritePC
  <2>9. Elems(op.todo) \cup Elems(op.done) = Elems(op'.todo) \cup Elems(op'.done)
    BY <1>6, <1>14, <2>1, <2>3
  <2>10. Needed' = Needed /\ (At("commit")' => Elems(op'.todo) = {})
    BY <2>2, <2>3, <2>4, ElemsOf DEF Needed, Operation
  <2>11. Queued'
    BY <1>1, <2>4, <2>9, <2>10 DEF CredInv, Queued, At, SnapPC
  <2>12. \A k \in Elems(done) : cred'[k] = op.account
    BY <1>1, <1>2, <1>6, <1>7, ElemsOf DEF CredInv, Written
  <2>13. Written'
    BY <1>1, <2>3, <2>4, <2>9, <2>10, <2>12 DEF CredInv, Queued, Written, At, WritePC
  <2>14. Snapshots'
    BY <1>1, <1>8, <1>12, <2>3, <2>4 DEF CredInv, Snapshots, At, HeldPC, SnapPC, WritePC, RemovePC, UndoPC
  <2>15. Intact'
    BY <1>9, <1>12 DEF Intact
  <2>16. Followed'
    BY <1>1, <1>10, <1>11, <1>12, <2>3, <2>4 DEF CredInv, Followed, UndoPC
  <2> QED BY <2>5, <2>6, <2>7, <2>8, <2>11, <2>13, <2>14, <2>15, <2>16 DEF CredInv
<1> QED BY <1>4, <1>5, <1>13, <1>14

LEMMA PersistCommitInv == CredInv /\ PersistCommit => CredInv'
<1> SUFFICES ASSUME CredInv, PersistCommit PROVE CredInv'
  OBVIOUS
<1>1. op.pc = "commit" /\ op.pc \in WritePC /\ op.by \notin {"none", "disconnect"}
  BY DEF PersistCommit, At, WritePC, CredInv, Roles, UndoPC, RemovePC
<1>2. op.done \in Seq(Kind) /\ op.account \in AnyAccount /\ cred \in Credential /\ op.changed \in BOOLEAN
  BY DEF CredInv, CredTypes, Operation
<1>3. ~marker /\ ~op.committed /\ owner = op.prior
  BY <1>1 DEF CredInv, Snapshots, Phases, Owners, UndoPC, At
<1>4. \A k \in Kind \ Elems(op.done) : cred[k] = op.snap[k]
  BY <1>1 DEF CredInv, Snapshots
<1>5. CASE UndoBegins(op.done, TRUE, op.changed) /\ UNCHANGED <<marker, history>>
  <2>1. ~op.changed => cred["account"] = op.snap["account"]
    BY <1>1 DEF CredInv, Followed
  <2> QED BY <1>1, <1>2, <1>3, <1>4, <1>5, <2>1, UndoBeginsInv DEF PersistCommit, CredInv, CredTypes
<1>6. CASE /\ marker' = TRUE
           /\ OwnerFollows
           /\ slot' = IF op.by = "connect" THEN "none" ELSE slot
           /\ op' = [op EXCEPT !.pc = IF op.changed THEN "invalidate" ELSE "done",
                               !.committed = op.changed]
           /\ UNCHANGED <<connecting, gate>>
  <2>1. op' \in Operation
    BY <1>2, <1>6 DEF CredInv, CredTypes, Operation, FreePC, HeldPC, WritePC
  <2>2. /\ op'.pc = (IF op.changed THEN "invalidate" ELSE "done") /\ op'.committed = op.changed
        /\ op'.by = op.by /\ op'.prior = op.prior /\ op'.changed = op.changed /\ op'.mark = op.mark
        /\ op'.account = op.account /\ op'.keep = op.keep /\ op'.snap = op.snap
        /\ op'.todo = op.todo /\ op'.done = op.done
    BY <1>6 DEF CredInv, CredTypes, Operation
  <2>3. /\ op.by = "connect" => owner' = op.account /\ slot' = "none"
        /\ op.by # "connect" => owner' = owner /\ slot' = slot /\ cut' = cut
        /\ cut' = cut \/ (cut = "torn" /\ ~op.changed /\ cut' = "uninvalidated")
        /\ marker' /\ UNCHANGED <<connecting, gate>>
    BY <1>6 DEF OwnerFollows, history
  <2>4. UNCHANGED <<cred, seal, catalog, flag, choice>>
    BY DEF PersistCommit
  <2>5. op.by = "connect" => op.account \in Account /\ ~op.keep
    BY <1>1 DEF CredInv, Roles, At
  <2>6. op.by # "connect" => op.mark /\ (cut # "torn" => op.account = owner /\ ~op.changed)
    BY <1>1 DEF CredInv, Refreshes
  <2>7. \A k \in Elems(op.done) : cred[k] = op.account
    BY <1>1 DEF CredInv, Written
  <2>8. Needed \subseteq Elems(op.done)
    BY <1>1 DEF CredInv, Written
  <2>9. CredTypes'
    BY <1>2, <2>1, <2>3, <2>4 DEF CredInv, CredTypes
  <2>10. Roles'
    BY <1>1, <2>2, <2>3 DEF CredInv, CredTypes, Roles, At, ConnectPC, WritePC
  <2>11. Phases'
    BY <1>1, <2>2, <2>4 DEF CredInv, Phases, At, HeldPC, WritePC, UndoPC, RemovePC
  <2>12. Owners'
    BY <1>1, <1>3, <2>2, <2>3, <2>5, <2>6 DEF CredInv, Owners, At
  <2>13. Refreshes'
    BY <2>2, <2>3, <2>6 DEF Refreshes, At, WritePC
  <2>14. Needed' = Needed
    BY <2>2 DEF Needed
  <2>15. Queued'
    BY <2>2 DEF Queued, SnapPC
  <2>16. {"access", "account"} \subseteq Needed
    BY DEF Needed, Kind
  <2>17. Written'
    BY <2>2, <2>4, <2>7, <2>8, <2>14, <2>16 DEF Written, At, WritePC
  <2>18. op.mark /\ cut # "torn" => \A k \in Kind : op.snap[k] \in {op.prior, NoAccount}
    BY <1>1 DEF CredInv, Snapshots, HeldPC
  <2>19. Snapshots'
    BY <1>4, <2>2, <2>3, <2>4, <2>18 DEF Snapshots, At, HeldPC, SnapPC, WritePC, RemovePC, UndoPC
  <2>20. Intact'
    <3>1. CASE op.by = "connect"
      BY <2>3, <2>4, <2>5, <2>7, <2>8, <3>1 DEF Intact, Needed
    <3>2. CASE op.by # "connect"
      BY <1>3, <1>4, <2>3, <2>4, <2>6, <2>7, <2>18, <3>2 DEF Intact
    <3> QED BY <3>1, <3>2
  <2>21. Followed'
    BY <2>2, <2>3, <2>4 DEF CredInv, Followed, UndoPC
  <2> QED BY <2>9, <2>10, <2>11, <2>12, <2>13, <2>15, <2>17, <2>19, <2>20, <2>21 DEF CredInv
<1> QED BY <1>5, <1>6 DEF PersistCommit

LEMMA PersistInvalidateInv == CredInv /\ PersistInvalidate => CredInv'
<1> SUFFICES ASSUME CredInv, PersistInvalidate PROVE CredInv'
  OBVIOUS
<1>1. op.pc = "invalidate" /\ op.pc \in WritePC /\ op.by \notin {"none", "disconnect"}
  BY DEF PersistInvalidate, At, WritePC, CredInv, Roles, UndoPC, RemovePC
<1>2. op.done \in Seq(Kind) /\ op.account \in AnyAccount /\ cred \in Credential /\ catalog \in CatalogRow
  BY DEF CredInv, CredTypes, Operation
<1>3. op.committed /\ op.changed
  BY <1>1 DEF CredInv, Phases, At
<1>4. CASE UndoBegins(op.done, TRUE, TRUE) /\ UNCHANGED <<catalog, seal, cut>>
  <2>1. \A k \in Kind \ Elems(op.done) : cred[k] = op.snap[k]
    BY <1>1 DEF CredInv, Snapshots
  <2>2. UNCHANGED history
    BY <1>4 DEF PersistInvalidate, history
  <2> QED BY <1>1, <1>2, <1>3, <1>4, <2>1, <2>2, UndoBeginsInv DEF PersistInvalidate, CredInv, CredTypes
<1>5. CASE /\ Invalidates /\ cut' = IF op.by = "connect" \/ cut # "torn" THEN "no" ELSE cut
           /\ op' = [op EXCEPT !.pc = "done", !.changed = FALSE, !.committed = FALSE]
           /\ UNCHANGED <<connecting, slot, gate>>
  <2>1. op' \in Operation
    BY <1>5 DEF CredInv, CredTypes, Operation, FreePC
  <2>2. /\ op'.pc = "done" /\ ~op'.committed /\ ~op'.changed /\ op'.by = op.by /\ op'.prior = op.prior
        /\ op'.mark = op.mark /\ op'.account = op.account /\ op'.keep = op.keep
    BY <1>5 DEF CredInv, CredTypes, Operation
  <2>3. catalog' \in CatalogRow /\ Snapshot(catalog') = {} /\ seal' = FALSE
    BY <1>2, <1>5, CatalogSteps DEF Invalidates, Narrows
  <2>4. UNCHANGED <<cred, marker, flag, choice, owner, connecting, slot, gate>>
    BY <1>5 DEF PersistInvalidate
  <2>5. cut' \in {"no", "torn", "uninvalidated"} /\ (op.by # "connect" => cut' = cut)
    <3>1. op.by # "connect" => cut = "torn"
      BY <1>3 DEF CredInv, Refreshes
    <3> QED BY <1>5, <3>1 DEF CredInv, CredTypes
  <2>6. \A k \in Elems(op.done) : cred[k] = op.account
    BY <1>1 DEF CredInv, Written
  <2>7. Needed \subseteq Elems(op.done)
    BY <1>1 DEF CredInv, Written
  <2>8. {"access", "account"} \subseteq Needed
    BY DEF Needed, Kind
  <2>9. CredTypes'
    BY <2>1, <2>3, <2>4, <2>5 DEF CredInv, CredTypes
  <2>10. Roles'
    BY <1>1, <2>2, <2>4 DEF CredInv, Roles, At, ConnectPC
  <2>11. Phases' /\ Queued'
    BY <2>2 DEF Phases, Queued, At, RemovePC, SnapPC
  <2>12. Owners'
    BY <1>1, <2>2, <2>4 DEF CredInv, Owners, At
  <2>13. Refreshes'
    BY <2>2 DEF Refreshes, At, WritePC
  <2>14. Snapshots'
    BY <2>2 DEF Snapshots, At, HeldPC, SnapPC, WritePC, RemovePC, UndoPC
  <2>15. Written'
    BY <2>2, <2>4, <2>6, <2>7, <2>8 DEF Written, At, WritePC
  <2>16. Intact'
    <3>1. CASE op.by = "connect"
      <4>1. owner = op.account /\ ~op.keep
        BY <1>1, <3>1 DEF CredInv, Owners, Roles, At
      <4> QED BY <2>4, <2>6, <2>7, <4>1 DEF Intact, Needed
    <3>2. CASE op.by # "connect"
      BY <1>3, <2>5, <3>2 DEF Intact, CredInv, Refreshes
    <3> QED BY <3>1, <3>2
  <2>17. Followed'
    BY <2>2, <2>3 DEF Followed, UndoPC
  <2> QED BY <2>9, <2>10, <2>11, <2>12, <2>13, <2>14, <2>15, <2>16, <2>17 DEF CredInv
<1> QED BY <1>4, <1>5 DEF PersistInvalidate

LEMMA PersistDoneInv == CredInv /\ PersistDone => CredInv'
<1> SUFFICES ASSUME CredInv, PersistDone PROVE CredInv'
  OBVIOUS
<1>1. op.pc = "done" /\ op.pc \in FreePC /\ op.by \notin {"none", "disconnect"}
  BY DEF PersistDone, At, FreePC, CredInv, Roles, UndoPC, RemovePC
<1>2. flag' \in BOOLEAN
  BY DEF PersistDone
<1>3. CASE Ends("fetch") \/ Ends("stream")
  BY <1>1, <1>2, <1>3, EndsLetGo, QuietEnd DEF PersistDone, stored, history, CredInv, CredTypes
<1>4. CASE Goes("read") /\ op.by # "connect"
  <2>1. op' \in Operation /\ op'.pc = "read" /\ op'.by = op.by /\ op'.prior = op.prior
        /\ op'.changed = op.changed /\ op'.committed = op.committed /\ op'.mark = op.mark
    BY <1>4 DEF Goes, CredInv, CredTypes, Operation, FreePC
  <2>2. UNCHANGED <<connecting, slot, gate>>
    BY <1>4 DEF Goes
  <2>3. Roles'
    BY <1>1, <1>4, <2>1, <2>2 DEF CredInv, Roles, At
  <2>4. ~op.committed
    BY <1>1 DEF CredInv, Phases, UndoPC
  <2>5. cred["access"] = cred["account"]
    BY <1>1 DEF CredInv, Written, At
  <2>6. Refreshes' /\ Queued'
    BY <2>1, <2>4, <2>5 DEF PersistDone, Refreshes, Queued, At, WritePC, SnapPC, stored, history
  <2> QED BY <1>1, <1>2, <1>4, <2>1, <2>2, <2>3, <2>6, FreeInv DEF PersistDone, FreePC
<1> QED BY <1>3, <1>4 DEF PersistDone

---------------------------------------------------------------------------
(* The way back                                                            *)

(* A step on the way back that leaves what is stored alone                 *)
LEMMA UndoMovesInv ==
  ASSUME CredInv, op.pc \in UndoPC, op' \in Operation, op'.pc \in {"undoMark", "undoSeal", "failed"},
         op'.by = op.by, op'.prior = op.prior, op'.changed = op.changed, op'.mark = op.mark,
         op'.committed = op.committed, op'.account = op.account, op'.keep = op.keep,
         op'.snap = op.snap, op'.markBack = op.markBack,
         UNCHANGED <<cred, seal, catalog, flag, choice, cut, connecting, slot, gate>>,
         marker' \in BOOLEAN, owner' \in AnyAccount,
         UNCHANGED <<marker, owner>> \/ (marker' = op.mark /\ owner' = op.prior /\ cred = op.snap),
         op'.pc \in {"undoMark", "undoSeal"} => cred = op.snap,
         At("undoSeal")' => owner' = op.prior /\ (marker' => op.mark)
  PROVE  CredInv'
<1>1. op.by # "none" /\ op.pc \notin {"done", "invalidate", "device", "seal"}
  BY DEF CredInv, Roles, UndoPC
<1>2. CredTypes'
  BY DEF CredInv, CredTypes
<1>3. Roles'
  BY <1>1 DEF CredInv, Roles, At, ConnectPC, UndoPC
<1>4. Phases'
  BY <1>1 DEF CredInv, Phases, At, HeldPC, UndoPC, RemovePC
<1>5. Owners'
  BY <1>1 DEF CredInv, Owners, At
<1>6. Refreshes' /\ Queued' /\ Written'
  BY DEF CredInv, Refreshes, Queued, Written, At, WritePC, SnapPC
<1>7. op.mark /\ cut # "torn" => \A k \in Kind : op.snap[k] \in {op.prior, NoAccount}
  BY DEF CredInv, Snapshots, HeldPC
<1>8. op.committed \in BOOLEAN /\ (~op.committed /\ marker' => op.mark /\ \A k \in Kind : cred[k] \in {op.snap[k], NoAccount})
  BY DEF CredInv, CredTypes, Operation, Snapshots
<1>9. Snapshots'
  BY <1>7, <1>8 DEF Snapshots, At, HeldPC, SnapPC, WritePC, RemovePC, UndoPC
<1>10. ~op.committed => owner' = op.prior
  BY <1>1 DEF CredInv, Owners, At
<1>11. Intact'
  BY <1>7, <1>8, <1>10 DEF Intact, At
<1>12. Followed'
  BY DEF CredInv, Followed, UndoPC
<1> QED BY <1>2, <1>3, <1>4, <1>5, <1>6, <1>9, <1>11, <1>12 DEF CredInv

LEMMA UndoValueInv == CredInv /\ UndoValue => CredInv'
<1> SUFFICES ASSUME CredInv, UndoValue PROVE CredInv'
  OBVIOUS
<1>1. op.pc = "undo" /\ op.pc \in UndoPC /\ op.by # "none"
  BY DEF UndoValue, At, UndoPC, CredInv, Roles
<1>2. op.todo \in Seq(Kind) /\ op.snap \in Credential /\ cred \in Credential /\ op.whole \in BOOLEAN
      /\ op.committed \in BOOLEAN /\ op.markBack \in BOOLEAN
  BY DEF CredInv, CredTypes, Operation
<1>3. UNCHANGED <<marker, seal, catalog, flag, choice, owner, cut>>
  BY DEF UndoValue, history
<1>4. CASE op.todo = <<>>
  <2>1. Goes(UndoNext(op.whole)) /\ UNCHANGED cred
    BY <1>4 DEF UndoValue
  <2>2. /\ UndoNext(op.whole) \in {"undoMark", "undoSeal", "failed"}
        /\ UndoNext(op.whole) # "failed" => op.whole
        /\ UndoNext(op.whole) = "undoSeal" => ~op.markBack
    BY <1>2 DEF UndoNext
  <2>3. PICK n \in {"undoMark", "undoSeal", "failed"} : n = UndoNext(op.whole)
    BY <2>2
  <2>4. n \in FreePC \cup HeldPC /\ Goes(n)
    BY <2>1, <2>3 DEF HeldPC, UndoPC
  <2>5. /\ op' \in Operation /\ op'.pc = n /\ op'.by = op.by /\ op'.prior = op.prior
        /\ op'.changed = op.changed /\ op'.committed = op.committed /\ op'.mark = op.mark
        /\ op'.account = op.account /\ op'.keep = op.keep /\ op'.snap = op.snap
        /\ op'.markBack = op.markBack /\ UNCHANGED <<connecting, slot, gate>>
    BY <2>4, GoesTo
  <2>6. n # "failed" => cred = op.snap
    <3>1. Elems(op.todo) = {}
      BY <1>2, <1>4, ElemsOf
    <3>2. op.whole => \A k \in Kind : cred[k] = op.snap[k]
      BY <1>1, <3>1 DEF CredInv, Snapshots, At
    <3> QED BY <1>2, <2>2, <2>3, <3>2 DEF Credential
  <2>7. n = "undoSeal" => ~op.committed
    BY <1>1, <2>2, <2>3 DEF CredInv, Phases
  <2>8. ~op.committed => owner = op.prior /\ (marker => op.mark)
    BY <1>1 DEF CredInv, Owners, Snapshots, At
  <2>9. /\ op'.pc \in {"undoMark", "undoSeal", "failed"}
        /\ op'.pc \in {"undoMark", "undoSeal"} => cred = op.snap
        /\ At("undoSeal")' => owner' = op.prior /\ (marker' => op.mark)
    BY <1>3, <2>5, <2>6, <2>7, <2>8 DEF At
  <2>10. marker' \in BOOLEAN /\ owner' \in AnyAccount
    BY <1>3 DEF CredInv, CredTypes
  <2> QED BY <1>1, <1>3, <2>1, <2>5, <2>9, <2>10, UndoMovesInv
<1>5. CASE op.todo # <<>>
  <2>1. PICK kind \in Kind : kind = Head(op.todo)
    BY <1>2, <1>5, ElemsOf
  <2>2. PICK ok \in BOOLEAN :
          /\ cred' = IF ok THEN [cred EXCEPT ![kind] = op.snap[kind]] ELSE cred
          /\ op' = [op EXCEPT !.todo = Tail(op.todo), !.whole = op.whole /\ ok]
          /\ UNCHANGED <<connecting, slot, gate>>
    BY <1>5, <2>1 DEF UndoValue
  <2>3. Tail(op.todo) \in Seq(Kind) /\ Elems(op.todo) = {kind} \cup Elems(Tail(op.todo))
    BY <1>2, <1>5, <2>1, ElemsOf
  <2>4. op' \in Operation
    <3> DEFINE rest == Tail(op.todo)
               all == op.whole /\ ok
    <3>1. op' = [op EXCEPT !.todo = rest, !.whole = all]
      BY <2>2
    <3>2. rest \in Seq(Kind) /\ all \in BOOLEAN
      BY <2>3
    <3>3. op \in Operation
      BY DEF CredInv, CredTypes
    <3> HIDE DEF rest, all
    <3> QED BY <3>1, <3>2, <3>3 DEF Operation
  <2>5. /\ op'.pc = "undo" /\ op'.by = op.by /\ op'.prior = op.prior
        /\ op'.changed = op.changed /\ op'.committed = op.committed /\ op'.mark = op.mark
        /\ op'.account = op.account /\ op'.keep = op.keep /\ op'.snap = op.snap
        /\ op'.markBack = op.markBack /\ op'.todo = Tail(op.todo) /\ op'.whole = (op.whole /\ ok)
    BY <1>1, <2>2 DEF CredInv, CredTypes, Operation
  <2>6. cred' \in Credential /\ \A k \in Kind : cred'[k] = IF ok /\ k = kind THEN op.snap[k] ELSE cred[k]
    BY <1>2, <2>2 DEF Credential
  <2>7. CredTypes'
    BY <1>3, <2>2, <2>4, <2>6 DEF CredInv, CredTypes
  <2>8. Roles'
    BY <1>1, <2>2, <2>5 DEF CredInv, Roles, At
  <2>9. Phases' /\ Owners'
    BY <1>1, <1>3, <2>2, <2>5 DEF CredInv, Phases, Owners, At
  <2>10. Refreshes' /\ Queued' /\ Written'
    BY <1>3, <2>5 DEF CredInv, Refreshes, Queued, Written, At, WritePC, SnapPC
  <2>11. op.mark /\ cut # "torn" => \A k \in Kind : op.snap[k] \in {op.prior, NoAccount}
    BY <1>1 DEF CredInv, Snapshots, HeldPC
  <2>12. ~op.committed /\ marker => op.mark /\ \A k \in Kind : cred'[k] \in {op.snap[k], NoAccount}
    BY <1>1, <2>6 DEF CredInv, Snapshots
  <2>13. op'.whole => \A k \in Kind \ Elems(op'.todo) : cred'[k] = op.snap[k]
    <3>1. op.whole => \A k \in Kind \ Elems(op.todo) : cred[k] = op.snap[k]
      BY <1>1 DEF CredInv, Snapshots, At
    <3>2. ASSUME op.whole /\ ok, NEW k \in Kind \ Elems(Tail(op.todo))
          PROVE  cred'[k] = op.snap[k]
      <4>1. CASE k = kind
        BY <2>6, <3>2, <4>1
      <4>2. CASE k # kind
        BY <2>3, <2>6, <3>1, <3>2, <4>2
      <4> QED BY <4>1, <4>2
    <3> QED BY <2>5, <3>2
  <2>14. Snapshots'
    BY <1>3, <2>5, <2>11, <2>12, <2>13 DEF Snapshots, At, HeldPC, SnapPC, WritePC, RemovePC, UndoPC
  <2>15. ~op.committed => owner = op.prior
    BY <1>1 DEF CredInv, Owners, At
  <2>16. Intact'
    BY <1>3, <2>5, <2>11, <2>12, <2>15 DEF Intact, At
  <2>17. ~op.changed => cred["account"] = op.snap["account"] /\ cred'["account"] = op.snap["account"]
    BY <1>1, <2>6 DEF CredInv, Followed, Kind
  <2>18. Followed'
    BY <1>3, <2>5, <2>17 DEF CredInv, Followed, UndoPC
  <2> QED BY <2>7, <2>8, <2>9, <2>10, <2>14, <2>16, <2>18 DEF CredInv
<1> QED BY <1>4, <1>5

LEMMA UndoMarkInv == CredInv /\ UndoMark => CredInv'
<1> SUFFICES ASSUME CredInv, UndoMark PROVE CredInv'
  OBVIOUS
<1>1. op.pc = "undoMark" /\ op.pc \in UndoPC
  BY DEF UndoMark, At, UndoPC
<1>2. cred = op.snap /\ op.mark \in BOOLEAN /\ op.prior \in AnyAccount
      /\ marker \in BOOLEAN /\ owner \in AnyAccount
  BY <1>1 DEF CredInv, CredTypes, Operation, Snapshots
<1>3. \/ Goes("undoSeal") /\ marker' = op.mark /\ owner' = op.prior
      \/ Goes("failed") /\ UNCHANGED <<marker, owner>>
  BY DEF UndoMark
<1>4. PICK n \in {"undoSeal", "failed"} : Goes(n) /\ (n = "undoSeal" => marker' = op.mark /\ owner' = op.prior)
  BY <1>3
<1>5. n \in FreePC \cup HeldPC
  BY DEF HeldPC, UndoPC
<1>6. /\ op' \in Operation /\ op'.pc = n /\ op'.by = op.by /\ op'.prior = op.prior
      /\ op'.changed = op.changed /\ op'.committed = op.committed /\ op'.mark = op.mark
      /\ op'.account = op.account /\ op'.keep = op.keep /\ op'.snap = op.snap
      /\ op'.markBack = op.markBack /\ UNCHANGED <<connecting, slot, gate>>
  BY <1>4, <1>5, GoesTo
<1>7. /\ op'.pc \in {"undoMark", "undoSeal", "failed"} /\ marker' \in BOOLEAN /\ owner' \in AnyAccount
      /\ UNCHANGED <<marker, owner>> \/ (marker' = op.mark /\ owner' = op.prior /\ cred = op.snap)
      /\ At("undoSeal")' => owner' = op.prior /\ (marker' => op.mark)
  BY <1>2, <1>3, <1>4, <1>6 DEF At
<1>8. UNCHANGED <<cred, seal, catalog, flag, choice, cut>>
  BY DEF UndoMark
<1> QED BY <1>1, <1>2, <1>6, <1>7, <1>8, UndoMovesInv

LEMMA UndoSealInv == CredInv /\ UndoSeal => CredInv'
<1> SUFFICES ASSUME CredInv, UndoSeal PROVE CredInv'
  OBVIOUS
<1>1. op.pc = "undoSeal" /\ op.pc \in UndoPC
  BY DEF UndoSeal, At, UndoPC
<1>2. UNCHANGED <<cred, marker, catalog, flag, choice, owner, cut>> /\ seal' \in BOOLEAN
  BY DEF UndoSeal, history, CredInv, CredTypes
<1>3. CASE Ends("free")
  BY <1>1, <1>2, <1>3, EndsLetGo, QuietEnd DEF CredInv, CredTypes
<1>4. CASE UNCHANGED seal /\ Goes("failed")
  <2>1. /\ op' \in Operation /\ op'.pc = "failed" /\ op'.by = op.by /\ op'.prior = op.prior
        /\ op'.changed = op.changed /\ op'.committed = op.committed /\ op'.mark = op.mark
        /\ op'.account = op.account /\ op'.keep = op.keep /\ op'.snap = op.snap
        /\ op'.markBack = op.markBack /\ UNCHANGED <<connecting, slot, gate>>
    BY <1>4 DEF Goes, CredInv, CredTypes, Operation, HeldPC, UndoPC
  <2>2. marker' \in BOOLEAN /\ owner' \in AnyAccount
    BY <1>2 DEF CredInv, CredTypes
  <2> QED BY <1>1, <1>2, <1>4, <2>1, <2>2, UndoMovesInv DEF At
<1> QED BY <1>3, <1>4 DEF UndoSeal

LEMMA UndoFailedInv == CredInv /\ UndoFailed => CredInv'
<1> SUFFICES ASSUME CredInv, UndoFailed PROVE CredInv'
  OBVIOUS
<1>1. catalog \in CatalogRow
  BY DEF CredInv, CredTypes
<1>2. Narrows(catalog', catalog)
  BY <1>1, CatalogSteps, SameCatalog DEF UndoFailed
<1>3. Rest' /\ cut' \in {"no", "torn", "uninvalidated"}
  BY <1>2, BrokenRests DEF UndoFailed
<1>4. StoredTypes'
  BY <1>2, <1>3 DEF StoredTypes, CredInv, CredTypes, UndoFailed, Narrows
<1> QED BY <1>3, <1>4, EndsLetGo, EndsInv DEF UndoFailed

---------------------------------------------------------------------------
(* The removal                                                             *)

LEMMA RemoveBeginInv == CredInv /\ RemoveBegin => CredInv'
<1> SUFFICES ASSUME CredInv, RemoveBegin PROVE CredInv'
  OBVIOUS
<1>1. op.pc = "rmBegin" /\ op.pc \in FreePC /\ op.by \notin {"none", "connect"}
  BY DEF RemoveBegin, At, FreePC, CredInv, Roles, UndoPC, WritePC, ConnectPC
<1>2. CASE Ends("free")
  BY <1>1, <1>2, EndsLetGo, QuietEnd DEF RemoveBegin, stored, history, CredInv, CredTypes
<1>3. CASE /\ op' = [op EXCEPT !.pc = "rmSeal", !.snap = cred, !.mark = marker, !.todo = DeleteOrder]
           /\ UNCHANGED <<connecting, slot, gate>>
  <2>1. cred \in Credential /\ marker \in BOOLEAN /\ DeleteOrder \in Seq(Kind)
    BY Orders DEF CredInv, CredTypes
  <2>2. op' \in Operation
    BY <1>3, <2>1 DEF CredInv, CredTypes, Operation, HeldPC, SnapPC
  <2>3. /\ op'.pc = "rmSeal" /\ op'.snap = cred /\ op'.mark = marker /\ op'.todo = DeleteOrder
        /\ op'.changed = op.changed /\ op'.by = op.by /\ op'.prior = op.prior
        /\ op'.committed = op.committed /\ op'.done = op.done
    BY <1>3 DEF CredInv, CredTypes, Operation
  <2>4. ~op.committed /\ ~op.changed
    BY <1>1 DEF CredInv, Phases, UndoPC, HeldPC, SnapPC, WritePC, RemovePC
  <2>5. UNCHANGED <<cred, marker, seal, catalog, owner, cut, connecting, slot, gate, flag, choice>>
    BY <1>3 DEF RemoveBegin, stored, history
  <2>6. CredTypes' /\ Roles'
    BY <1>1, <2>2, <2>3, <2>5 DEF CredInv, CredTypes, Roles, At
  <2>7. Phases'
    BY <2>3, <2>4 DEF Phases, At, RemovePC
  <2>8. owner = op.prior
    BY <1>1, <2>4 DEF CredInv, Owners, At
  <2>9. Owners'
    BY <1>1, <2>3, <2>5, <2>8 DEF CredInv, Owners, At
  <2>10. Refreshes'
    BY <2>3, <2>4 DEF Refreshes, At, WritePC
  <2>11. Queued'
    BY <1>1, <2>3, Orders DEF CredInv, Queued
  <2>12. Rest
    BY <1>1, RestsHere
  <2>13. Snapshots' /\ Written'
    BY <2>3, <2>5, <2>8, <2>12 DEF Rest, Snapshots, Written, At, HeldPC, SnapPC, WritePC, RemovePC, UndoPC
  <2>14. Intact' /\ Followed'
    BY <2>3, <2>4, <2>5, <2>12 DEF Intact, Followed, Rest, UndoPC
  <2> QED BY <2>6, <2>7, <2>9, <2>10, <2>11, <2>13, <2>14 DEF CredInv
<1> QED BY <1>2, <1>3 DEF RemoveBegin

LEMMA RemoveSealInv == CredInv /\ RemoveSeal => CredInv'
<1> SUFFICES ASSUME CredInv, RemoveSeal PROVE CredInv'
  OBVIOUS
<1>1. op.pc = "rmSeal" /\ op.pc \in SnapPC /\ op.by \notin {"none", "connect"}
  BY DEF RemoveSeal, At, SnapPC, CredInv, Roles, UndoPC, WritePC, ConnectPC
<1>2. CASE Ends("free") /\ UNCHANGED seal
  BY <1>1, <1>2, EndsLetGo, QuietEnd DEF RemoveSeal, history, CredInv, CredTypes
<1>3. CASE /\ seal' = TRUE /\ op' = [op EXCEPT !.pc = "rmDelete", !.changed = TRUE]
           /\ UNCHANGED <<connecting, slot, gate>>
  <2>1. op' \in Operation
    BY <1>3 DEF CredInv, CredTypes, Operation, HeldPC, RemovePC
  <2>2. /\ op'.pc = "rmDelete" /\ op'.snap = op.snap /\ op'.mark = op.mark /\ op'.todo = op.todo
        /\ op'.changed /\ op'.by = op.by /\ op'.prior = op.prior
        /\ op'.committed = op.committed /\ op'.done = op.done
    BY <1>3 DEF CredInv, CredTypes, Operation
  <2>3. ~op.committed
    BY <1>1 DEF CredInv, Phases, UndoPC
  <2>4. UNCHANGED <<cred, marker, catalog, owner, cut, connecting, slot, gate, flag, choice>> /\ seal' = TRUE
    BY <1>3 DEF RemoveSeal, history
  <2>5. CredTypes' /\ Roles'
    BY <1>1, <2>1, <2>2, <2>4 DEF CredInv, CredTypes, Roles, At, RemovePC
  <2>6. Phases' /\ Owners'
    BY <1>1, <2>2, <2>3, <2>4 DEF CredInv, Phases, Owners, At, HeldPC, RemovePC
  <2>7. Refreshes'
    BY <2>2, <2>3 DEF Refreshes, At, WritePC
  <2>8. Queued'
    BY <1>1, <2>2 DEF CredInv, Queued, SnapPC
  <2>9. cred = op.snap /\ marker = op.mark
    BY <1>1 DEF CredInv, Snapshots
  <2>10. op.mark /\ cut # "torn" => \A k \in Kind : op.snap[k] \in {op.prior, NoAccount}
    BY <1>1 DEF CredInv, Snapshots, HeldPC
  <2>11. Snapshots' /\ Written'
    BY <2>2, <2>4, <2>9, <2>10 DEF Snapshots, Written, At, HeldPC, SnapPC, WritePC, RemovePC, UndoPC
  <2>12. Rest
    BY <1>1, RestsHere
  <2>13. Intact' /\ Followed'
    BY <2>2, <2>4, <2>9, <2>12 DEF Intact, Followed, Rest, UndoPC
  <2> QED BY <2>5, <2>6, <2>7, <2>8, <2>11, <2>13 DEF CredInv
<1> QED BY <1>2, <1>3 DEF RemoveSeal

LEMMA RemoveFailsInv ==
  ASSUME CredInv, op.pc \in RemovePC, NEW done \in Seq(Kind), NEW markBack \in BOOLEAN,
         RemoveFails(done, markBack), UNCHANGED <<marker, seal, catalog, choice, owner>>,
         flag' \in BOOLEAN, cred' \in Credential,
         \A k \in Kind : cred'[k] \in {cred[k], NoAccount},
         \A k \in Kind \ Elems(done) : cred'[k] = op.snap[k]
  PROVE  CredInv'
<1>1. op.changed /\ ~op.committed
  BY DEF CredInv, Phases, RemovePC, UndoPC
<1>2. CASE UndoBegins(done, markBack, TRUE) /\ UNCHANGED cut
  <2>1. marker => op.mark
    BY DEF CredInv, Snapshots, RemovePC
  <2>2. \A k \in Kind : cred'[k] \in {op.snap[k], NoAccount}
    BY DEF CredInv, Snapshots
  <2> QED BY <1>1, <1>2, <2>1, <2>2, UndoBeginsInv DEF history
<1>3. CASE Ends("free") /\ cut' = Broken
  <2>1. Rest' /\ cut' \in {"no", "torn", "uninvalidated"}
    BY <1>1, <1>3, BrokenRests, SameCatalog
  <2>2. StoredTypes'
    BY <2>1 DEF StoredTypes, CredInv, CredTypes
  <2> QED BY <1>3, <2>1, <2>2, EndsLetGo, EndsInv
<1> QED BY <1>2, <1>3 DEF RemoveFails

LEMMA RemoveDeleteInv == CredInv /\ RemoveDelete => CredInv'
<1> SUFFICES ASSUME CredInv, RemoveDelete PROVE CredInv'
  OBVIOUS
<1>1. op.pc = "rmDelete" /\ op.pc \in RemovePC /\ op.by \notin {"none", "connect"}
  BY DEF RemoveDelete, At, RemovePC, CredInv, Roles, UndoPC, WritePC, ConnectPC
<1>2. op.todo \in Seq(Kind) /\ op.done \in Seq(Kind) /\ op.todo # <<>> /\ cred \in Credential
  BY <1>1 DEF CredInv, CredTypes, Operation, Queued
<1>3. PICK kind \in Kind : kind = Head(op.todo)
  BY <1>2, ElemsOf
<1>4. PICK ok \in BOOLEAN, deletes \in BOOLEAN :
        LET done == IF deletes THEN Append(op.done, kind) ELSE op.done IN
        /\ ok => deletes
        /\ cred' = IF deletes THEN [cred EXCEPT ![kind] = NoAccount] ELSE cred
        /\ IF ~ok THEN RemoveFails(done, FALSE)
           ELSE /\ op' = [op EXCEPT !.pc = IF Len(op.todo) = 1 THEN "rmUnmark" ELSE "rmDelete",
                                    !.todo = Tail(op.todo), !.done = done]
                /\ UNCHANGED <<connecting, slot, gate, cut>>
  BY <1>3 DEF RemoveDelete
<1>5. PICK done \in Seq(Kind) : done = IF deletes THEN Append(op.done, kind) ELSE op.done
  BY <1>2, ElemsOf
<1>6. Elems(done) = Elems(op.done) \cup (IF deletes THEN {kind} ELSE {})
  BY <1>2, <1>5, ElemsOf
<1>7. cred' \in Credential /\ \A k \in Kind : cred'[k] = IF deletes /\ k = kind THEN NoAccount ELSE cred[k]
  BY <1>2, <1>4 DEF Credential, AnyAccount
<1>8. \A k \in Kind \ Elems(done) : cred'[k] = op.snap[k]
  BY <1>1, <1>6, <1>7 DEF CredInv, Snapshots
<1>9. \A k \in Kind : cred'[k] \in {cred[k], NoAccount}
  BY <1>7
<1>10. UNCHANGED <<marker, seal, catalog, flag, choice, owner>>
  BY DEF RemoveDelete
<1>11. op.changed /\ ~op.committed
  BY <1>1 DEF CredInv, Phases, RemovePC, UndoPC
<1>12. CASE RemoveFails(done, FALSE)
  BY <1>1, <1>7, <1>8, <1>9, <1>10, <1>12, RemoveFailsInv DEF CredInv, CredTypes
<1>13. CASE /\ op' = [op EXCEPT !.pc = IF Len(op.todo) = 1 THEN "rmUnmark" ELSE "rmDelete",
                                !.todo = Tail(op.todo), !.done = done]
            /\ UNCHANGED <<connecting, slot, gate, cut>>
  <2>1. Tail(op.todo) \in Seq(Kind) /\ (Len(op.todo) # 1 => Tail(op.todo) # <<>>)
    BY <1>2, ElemsOf
  <2>2. op' \in Operation
    BY <1>13, <2>1 DEF CredInv, CredTypes, Operation, HeldPC, RemovePC
  <2>3. /\ op'.pc = (IF Len(op.todo) = 1 THEN "rmUnmark" ELSE "rmDelete") /\ op'.todo = Tail(op.todo)
        /\ op'.done = done /\ op'.by = op.by /\ op'.prior = op.prior
        /\ op'.changed = op.changed /\ op'.committed = op.committed /\ op'.mark = op.mark
        /\ op'.snap = op.snap
    BY <1>13 DEF CredInv, CredTypes, Operation
  <2>4. op'.pc \in {"rmDelete", "rmUnmark"} /\ (At("rmDelete")' => op'.todo # <<>>)
    BY <2>1, <2>3 DEF At
  <2>5. CredTypes'
    BY <1>7, <1>10, <1>13, <2>2 DEF CredInv, CredTypes
  <2>6. Roles'
    BY <1>1, <1>13, <2>3, <2>4 DEF CredInv, Roles, At, RemovePC
  <2>7. Phases' /\ Owners'
    BY <1>1, <1>10, <1>11, <1>13, <2>3, <2>4 DEF CredInv, Phases, Owners, At, HeldPC, RemovePC
  <2>8. Refreshes'
    BY <1>11, <2>3, <2>4 DEF Refreshes, At, WritePC
  <2>9. Queued' /\ Written'
    BY <2>4 DEF Queued, Written, At, SnapPC, WritePC
  <2>10. op.mark /\ cut # "torn" => \A k \in Kind : op.snap[k] \in {op.prior, NoAccount}
    BY <1>1 DEF CredInv, Snapshots, HeldPC
  <2>11. marker = op.mark /\ \A k \in Kind : cred'[k] \in {op.snap[k], NoAccount}
    BY <1>1, <1>9 DEF CredInv, Snapshots
  <2>12. Snapshots'
    BY <1>8, <1>10, <1>13, <2>3, <2>4, <2>10, <2>11
    DEF Snapshots, At, HeldPC, SnapPC, WritePC, RemovePC, UndoPC
  <2>13. Intact'
    BY <1>9, <1>10, <1>11, <1>13, <2>3 DEF CredInv, Intact
  <2>14. Followed'
    BY <1>10, <1>11, <1>13, <2>3 DEF CredInv, Followed
  <2> QED BY <2>5, <2>6, <2>7, <2>8, <2>9, <2>12, <2>13, <2>14 DEF CredInv
<1> QED BY <1>4, <1>5, <1>12, <1>13

LEMMA RemoveUnmarkInv == CredInv /\ RemoveUnmark => CredInv'
<1> SUFFICES ASSUME CredInv, RemoveUnmark PROVE CredInv'
  OBVIOUS
<1>1. op.pc = "rmUnmark" /\ op.pc \in RemovePC /\ op.by \notin {"none", "connect"}
  BY DEF RemoveUnmark, At, RemovePC, CredInv, Roles, UndoPC, WritePC, ConnectPC
<1>2. op.done \in Seq(Kind) /\ cred \in Credential /\ UNCHANGED <<cred, seal, catalog, flag, choice, owner>>
  BY DEF RemoveUnmark, CredInv, CredTypes, Operation
<1>3. op.changed /\ ~op.committed
  BY <1>1 DEF CredInv, Phases, RemovePC, UndoPC
<1>4. \A k \in Kind \ Elems(op.done) : cred[k] = op.snap[k]
  BY <1>1 DEF CredInv, Snapshots
<1>5. CASE RemoveFails(op.done, TRUE) /\ UNCHANGED marker
  BY <1>1, <1>2, <1>4, <1>5, RemoveFailsInv DEF CredInv, CredTypes
<1>6. CASE marker' = FALSE /\ Goes("rmInvalidate") /\ UNCHANGED cut
  <2>1. /\ op' \in Operation /\ op'.pc = "rmInvalidate" /\ op'.by = op.by /\ op'.prior = op.prior
        /\ op'.changed = op.changed /\ op'.committed = op.committed /\ op'.mark = op.mark
        /\ op'.snap = op.snap /\ op'.done = op.done /\ UNCHANGED <<connecting, slot, gate>>
    BY <1>6 DEF Goes, CredInv, CredTypes, Operation, HeldPC, RemovePC
  <2>2. CredTypes' /\ Roles'
    BY <1>1, <1>2, <1>6, <2>1 DEF CredInv, CredTypes, Roles, At, RemovePC
  <2>3. Phases' /\ Owners'
    BY <1>1, <1>2, <1>3, <1>6, <2>1 DEF CredInv, Phases, Owners, At, HeldPC, RemovePC
  <2>4. Refreshes' /\ Queued' /\ Written'
    BY <1>3, <2>1 DEF Refreshes, Queued, Written, At, WritePC, SnapPC
  <2>5. Snapshots'
    BY <1>1, <1>2, <1>6, <2>1 DEF CredInv, Snapshots, At, HeldPC, SnapPC, WritePC, RemovePC, UndoPC
  <2>6. Intact' /\ Followed'
    BY <1>2, <1>3, <1>6, <2>1 DEF CredInv, Intact, Followed
  <2> QED BY <2>2, <2>3, <2>4, <2>5, <2>6 DEF CredInv
<1> QED BY <1>5, <1>6 DEF RemoveUnmark

LEMMA RemoveInvalidateInv == CredInv /\ RemoveInvalidate => CredInv'
<1> SUFFICES ASSUME CredInv, RemoveInvalidate PROVE CredInv'
  OBVIOUS
<1>1. op.pc = "rmInvalidate" /\ op.pc \in RemovePC
  BY DEF RemoveInvalidate, At, RemovePC
<1>2. op.done \in Seq(Kind) /\ cred \in Credential /\ catalog \in CatalogRow
      /\ UNCHANGED <<cred, marker, choice>> /\ flag' \in BOOLEAN
  BY DEF RemoveInvalidate, CredInv, CredTypes, Operation
<1>3. ~marker /\ \A k \in Kind \ Elems(op.done) : cred[k] = op.snap[k]
  BY <1>1 DEF CredInv, Snapshots
<1>4. CASE RemoveFails(op.done, TRUE) /\ UNCHANGED <<catalog, seal, owner>>
  BY <1>1, <1>2, <1>3, <1>4, RemoveFailsInv
<1>5. CASE Invalidates /\ owner' = NoAccount /\ cut' = "no" /\ Ends("free")
  <2>1. catalog' \in CatalogRow /\ Snapshot(catalog') = {} /\ seal' = FALSE
    BY <1>2, <1>5, CatalogSteps DEF Invalidates, Narrows
  <2>2. Rest'
    BY <1>2, <1>3, <2>1 DEF Rest
  <2>3. StoredTypes'
    BY <1>2, <1>5, <2>1 DEF StoredTypes, CredInv, CredTypes, AnyAccount
  <2> QED BY <1>5, <2>2, <2>3, EndsLetGo, EndsInv
<1> QED BY <1>4, <1>5 DEF RemoveInvalidate

---------------------------------------------------------------------------
(* CredInv is inductive: it holds of a new database, and every step of an  *)
(* operation, every cancellation and every end of the process keeps it.    *)
THEOREM CredInvariant == CredSpec => []CredInv
<1>1. CredInit => CredInv
  <2> SUFFICES ASSUME CredInit PROVE CredInv
    OBVIOUS
  <2>1. catalog \in CatalogRow /\ Snapshot(catalog) = {}
    BY CatalogAssumption DEF CredInit, CatalogRow, EmptyCatalog, Snapshot, AnyAccount
  <2>2. StoredTypes
    BY <2>1, NoOpType DEF CredInit, StoredTypes, AnyAccount
  <2>3. AtRest
    BY <2>1, <2>2 DEF CredInit, AtRest, Rest
  <2> QED BY <2>3, RestInv
<1>2. CredInv /\ [CredNext]_credVars => CredInv'
  <2> SUFFICES ASSUME CredInv, [CredNext]_credVars PROVE CredInv'
    OBVIOUS
  <2>1. CASE Persists
    BY <2>1, PersistBeginInv, PersistSealInv, PersistUnmarkInv, PersistUnsealInv, PersistWriteInv,
       PersistCommitInv, PersistInvalidateInv, PersistDoneInv DEF Persists
  <2>2. CASE Undoes
    BY <2>2, UndoValueInv, UndoMarkInv, UndoSealInv, UndoFailedInv DEF Undoes
  <2>3. CASE Removes
    BY <2>3, RemoveBeginInv, RemoveSealInv, RemoveDeleteInv, RemoveUnmarkInv, RemoveInvalidateInv DEF Removes
  <2>4. CASE ConnectBegin \/ CancelConnect \/ DeviceCode \/ DisconnectBegin \/ SendBegin \/ CancelSend
    BY <2>4, ConnectBeginInv, CancelConnectInv, DeviceCodeInv, DisconnectBeginInv, SendBeginInv, CancelSendInv
  <2>5. CASE Fresh \/ Http \/ StreamBegin \/ StreamEnd \/ FetchBegin \/ CatalogRead \/ CatalogFetch
    BY <2>5, FreshInv, HttpInv, StreamBeginInv, StreamEndInv, FetchBeginInv, CatalogReadInv, CatalogFetchInv
  <2>6. CASE SelectWrite \/ CatalogAges \/ \E m \in Model : ApplyRejection(m) \/ SelectBegin(m)
    BY <2>6, CatalogStepsInv
  <2>7. CASE ProcessRestarts
    BY <2>7, ProcessRestartsInv
  <2>8. CASE \E force \in BOOLEAN : CatalogBegin(force)
    BY <2>8, CatalogBeginInv
  <2>9. CASE UNCHANGED credVars
    <3>1. UNCHANGED <<cred, marker, seal, catalog, connecting, slot, gate, op, flag, choice, owner, cut>>
      BY <2>9 DEF credVars, stored, holder, history
    <3>2. choice \in Model \cup {NoModel}
      BY DEF CredInv, CredTypes
    <3> QED BY <3>1, <3>2, SameCatalog, CatalogTouchedInv DEF history
  <2> QED BY <2>1, <2>2, <2>3, <2>4, <2>5, <2>6, <2>7, <2>8, <2>9 DEF CredNext
<1> QED BY <1>1, <1>2, PTL DEF CredSpec

(* The types, the one holder of profile_lock and the one connect that can  *)
(* be cancelled (CredTypeOK).                                              *)
THEOREM CredTypeCorrect == CredSpec => []CredTypeOK
<1>1. CredInv => CredTypeOK
  BY DEF CredInv, CredTypes, Roles, CredTypeOK, CatalogRow, Credential, AnyAccount
<1> QED BY <1>1, CredInvariant, PTL

(* A status of Connected is the truth about the three values, whatever     *)
(* calls of persist_tokens, of its way back and of the removal failed      *)
(* (ConnectedIsWhole).                                                     *)
THEOREM ConnectedWhole == CredSpec => []ConnectedIsWhole
<1>1. CredInv => ConnectedIsWhole
  <2> SUFFICES ASSUME CredInv, ConnectionStatus = "connected", cut # "torn"
               PROVE  \A k \in Kind : cred[k] = owner
    BY DEF ConnectedIsWhole
  <2>1. ~connecting /\ marker /\ \A k \in Kind : cred[k] # NoAccount
    BY DEF ConnectionStatus, CredInv, CredTypes
  <2>2. ~op.committed
    BY <2>1 DEF CredInv, Roles, Refreshes
  <2> QED BY <2>1, <2>2 DEF CredInv, Intact
<1> QED BY <1>1, CredInvariant, PTL

(* The models shown are those of the account stored: the seal hides them   *)
(* from before the account changes until the catalog has followed          *)
(* (CatalogFollowsAccount).                                                *)
THEOREM CatalogFollows == CredSpec => []CatalogFollowsAccount
<1>1. CredInv => CatalogFollowsAccount
  <2> SUFFICES ASSUME CredInv, cut = "no", CatalogResponse(catalog, seal) # {}
               PROVE  catalog.account = cred["account"]
    BY DEF CatalogFollowsAccount
  <2>1. ~seal /\ Snapshot(catalog) # {}
    BY DEF CatalogResponse, CredInv, CredTypes
  <2>2. op.changed => At("seal")
    BY <2>1 DEF CredInv, Phases
  <2>3. At("seal") => cred = op.snap
    BY DEF CredInv, Snapshots, SnapPC, At
  <2> QED BY <2>1, <2>2, <2>3 DEF CredInv, Followed
<1> QED BY <1>1, CredInvariant, PTL

---------------------------------------------------------------------------
(* ProviderAccount                                                         *)

(* The three kinds of step that an account can see: one without a connect  *)
(* under way, one of the connect, and the end of the connect               *)
Apart == /\ ~connecting /\ ~connecting'
         /\ owner' = owner \/ (owner' = NoAccount /\ ~marker')

Within ==
  /\ connecting /\ connecting' /\ op'.prior = op.prior
  /\ \/ op'.account = op.account /\ (slot' = slot \/ (slot # "cancelled" /\ slot' = "none"))
     \/ slot' = "cancelled"
     \/ slot = "armed" /\ slot' = "armed" /\ op.account = NoAccount /\ op'.account \in Account

Over == connecting /\ ~connecting' /\ UNCHANGED owner

Seen == Apart \/ Within \/ Over

LEMMA GoesSeen ==
  ASSUME CredInv, op'.prior = op.prior, op'.account = op.account, UNCHANGED <<connecting, slot, owner>>
  PROVE  Seen
BY DEF Seen, Apart, Within, CredInv, CredTypes

LEMMA EndsSeen ==
  ASSUME CredInv, LetsGo, UNCHANGED owner
  PROVE  Seen
BY DEF Seen, Apart, Over, LetsGo, CredInv, CredTypes

LEMMA UndoBeginsSeen ==
  ASSUME CredInv, NEW done, NEW markBack, NEW sealBack, UndoBegins(done, markBack, sealBack), UNCHANGED owner
  PROVE  Seen
<1>1. op'.prior = op.prior /\ op'.account = op.account /\ UNCHANGED <<connecting, slot>>
  BY DEF UndoBegins, CredInv, CredTypes, Operation
<1> QED BY <1>1, GoesSeen

LEMMA PcSeen ==
  ASSUME CredInv, NEW pc, Goes(pc), UNCHANGED owner
  PROVE  Seen
<1>1. op'.prior = op.prior /\ op'.account = op.account /\ UNCHANGED <<connecting, slot>>
  BY DEF Goes, CredInv, CredTypes, Operation
<1> QED BY <1>1, GoesSeen

LEMMA PersistsSeen == CredInv /\ Persists => Seen
<1> SUFFICES ASSUME CredInv, Persists PROVE Seen
  OBVIOUS
<1>1. CASE PersistBegin
  <2>1. UNCHANGED owner
    BY <1>1 DEF PersistBegin, history
  <2>2. CASE Ends("free")
    BY <2>1, <2>2, EndsLetGo, EndsSeen
  <2>3. CASE ~Ends("free")
    <3>1. op'.prior = op.prior /\ op'.account = op.account /\ UNCHANGED <<connecting, slot>>
      BY <1>1, <2>3 DEF PersistBegin, CredInv, CredTypes, Operation
    <3> QED BY <2>1, <3>1, GoesSeen
  <2> QED BY <2>2, <2>3
<1>2. CASE PersistSeal
  <2>1. (Ends("free") \/ Goes("unmark")) /\ UNCHANGED owner
    BY <1>2 DEF PersistSeal, history
  <2> QED BY <2>1, EndsLetGo, EndsSeen, PcSeen
<1>3. CASE PersistUnmark
  <2>1. (Ends("free") \/ Goes("write") \/ Goes("unseal")) /\ UNCHANGED owner
    BY <1>3 DEF PersistUnmark, history
  <2> QED BY <2>1, EndsLetGo, EndsSeen, PcSeen
<1>4. CASE PersistUnseal
  BY <1>4, EndsLetGo, EndsSeen DEF PersistUnseal, history
<1>5. CASE PersistWrite
  <2>1. UNCHANGED owner
    BY <1>5 DEF PersistWrite, history
  <2>2. CASE \E done : UndoBegins(done, TRUE, op.changed)
    BY <2>1, <2>2, UndoBeginsSeen
  <2>3. CASE ~\E done : UndoBegins(done, TRUE, op.changed)
    <3>1. op'.prior = op.prior /\ op'.account = op.account /\ UNCHANGED <<connecting, slot>>
      BY <1>5, <2>3 DEF PersistWrite, CredInv, CredTypes, Operation
    <3> QED BY <2>1, <3>1, GoesSeen
  <2> QED BY <2>2, <2>3
<1>6. CASE PersistCommit
  <2>1. CASE UndoBegins(op.done, TRUE, op.changed) /\ UNCHANGED history
    BY <2>1, UndoBeginsSeen DEF history
  <2>2. CASE ~Cancelled /\ OwnerFollows /\ slot' = (IF op.by = "connect" THEN "none" ELSE slot)
             /\ op' = [op EXCEPT !.pc = IF op.changed THEN "invalidate" ELSE "done", !.committed = op.changed]
             /\ UNCHANGED <<connecting, gate>>
    <3>1. op'.prior = op.prior /\ op'.account = op.account
      BY <2>2 DEF CredInv, CredTypes, Operation
    <3>2. connecting = (op.by = "connect")
      BY DEF CredInv, Roles
    <3> QED BY <2>2, <3>1, <3>2 DEF Seen, Apart, Within, Cancelled, OwnerFollows, history
  <2> QED BY <1>6, <2>1, <2>2 DEF PersistCommit
<1>7. CASE PersistInvalidate
  <2>1. UNCHANGED owner
    BY <1>7 DEF PersistInvalidate
  <2>2. CASE UndoBegins(op.done, TRUE, TRUE)
    BY <2>1, <2>2, UndoBeginsSeen
  <2>3. CASE ~UndoBegins(op.done, TRUE, TRUE)
    <3>1. op'.prior = op.prior /\ op'.account = op.account /\ UNCHANGED <<connecting, slot>>
      BY <1>7, <2>3 DEF PersistInvalidate, CredInv, CredTypes, Operation
    <3> QED BY <2>1, <3>1, GoesSeen
  <2> QED BY <2>2, <2>3
<1>8. CASE PersistDone
  <2>1. (Ends("fetch") \/ Ends("stream") \/ Goes("read")) /\ UNCHANGED owner
    BY <1>8 DEF PersistDone, history
  <2> QED BY <2>1, EndsLetGo, EndsSeen, PcSeen
<1> QED BY <1>1, <1>2, <1>3, <1>4, <1>5, <1>6, <1>7, <1>8 DEF Persists

LEMMA UndoesSeen == CredInv /\ Undoes => Seen
<1> SUFFICES ASSUME CredInv, Undoes PROVE Seen
  OBVIOUS
<1>1. CASE UndoValue
  <2>1. UNCHANGED owner
    BY <1>1 DEF UndoValue, history
  <2>2. op'.prior = op.prior /\ op'.account = op.account /\ UNCHANGED <<connecting, slot>>
    BY <1>1 DEF UndoValue, Goes, CredInv, CredTypes, Operation
  <2> QED BY <2>1, <2>2, GoesSeen
<1>2. CASE UndoMark
  <2>1. op'.prior = op.prior /\ op'.account = op.account /\ UNCHANGED <<connecting, slot>>
    BY <1>2 DEF UndoMark, Goes, CredInv, CredTypes, Operation
  <2>2. ~connecting => owner' = owner
    BY <1>2 DEF UndoMark, CredInv, Owners, Roles, At
  <2> QED BY <2>1, <2>2 DEF Seen, Apart, Within, CredInv, CredTypes
<1>3. CASE UndoSeal
  <2>1. (Ends("free") \/ Goes("failed")) /\ UNCHANGED owner
    BY <1>3 DEF UndoSeal, history
  <2> QED BY <2>1, EndsLetGo, EndsSeen, PcSeen
<1>4. CASE UndoFailed
  BY <1>4, EndsLetGo, EndsSeen DEF UndoFailed
<1> QED BY <1>1, <1>2, <1>3, <1>4 DEF Undoes

LEMMA RemovesSeen == CredInv /\ Removes => Seen
<1> SUFFICES ASSUME CredInv, Removes PROVE Seen
  OBVIOUS
<1>1. ~connecting
  BY DEF Removes, RemoveBegin, RemoveSeal, RemoveDelete, RemoveUnmark, RemoveInvalidate, At,
         CredInv, Roles, ConnectPC, WritePC, UndoPC
<1>2. ~connecting'
  BY <1>1 DEF Removes, RemoveBegin, RemoveSeal, RemoveDelete, RemoveUnmark, RemoveInvalidate,
              RemoveFails, UndoBegins, Goes, Ends
<1>3. CASE RemoveInvalidate
  <2>1. ~marker /\ UNCHANGED marker
    BY <1>3 DEF RemoveInvalidate, CredInv, Snapshots, At
  <2>2. owner' = owner \/ owner' = NoAccount
    BY <1>3 DEF RemoveInvalidate
  <2> QED BY <1>1, <1>2, <2>1, <2>2 DEF Seen, Apart
<1>4. CASE RemoveBegin \/ RemoveSeal \/ RemoveDelete \/ RemoveUnmark
  <2>1. UNCHANGED owner
    BY <1>4 DEF RemoveBegin, RemoveSeal, RemoveDelete, RemoveUnmark, history
  <2> QED BY <1>1, <1>2, <2>1 DEF Seen, Apart
<1> QED BY <1>3, <1>4 DEF Removes

LEMMA OthersSeen ==
  CredInv /\ ( \/ CancelConnect \/ DeviceCode \/ DisconnectBegin \/ SendBegin \/ CancelSend
               \/ Fresh \/ Http \/ StreamBegin \/ StreamEnd \/ FetchBegin \/ CatalogRead \/ CatalogFetch
               \/ SelectWrite \/ CatalogAges \/ ProcessRestarts
               \/ (\E force \in BOOLEAN : CatalogBegin(force))
               \/ (\E m \in Model : ApplyRejection(m) \/ SelectBegin(m)) ) => Seen
<1>1. ASSUME CredInv, CancelConnect PROVE Seen
  BY <1>1 DEF CancelConnect, CredInv, Roles, Seen, Within
<1>2. ASSUME CredInv, DeviceCode PROVE Seen
  <2>1. UNCHANGED owner /\ connecting /\ op.account = NoAccount
    BY <1>2 DEF DeviceCode, history, CredInv, Roles
  <2>2. CASE Ends("free")
    BY <1>2, <2>1, <2>2, EndsLetGo, EndsSeen
  <2>3. CASE slot = "armed" /\ UNCHANGED <<connecting, slot, gate>>
             /\ \E a \in Account : op' = [op EXCEPT !.pc = "begin", !.account = a]
    <3>1. op'.prior = op.prior /\ op'.account \in Account
      BY <1>2, <2>3 DEF CredInv, CredTypes, Operation
    <3> QED BY <2>1, <2>3, <3>1 DEF Seen, Within
  <2> QED BY <1>2, <2>2, <2>3 DEF DeviceCode
<1>3. ASSUME CredInv, DisconnectBegin \/ SendBegin \/ FetchBegin \/ StreamBegin
                      \/ \E force \in BOOLEAN : CatalogBegin(force)
      PROVE  Seen
  <2>1. op = NoOp /\ UNCHANGED <<connecting, owner>>
    BY <1>3 DEF DisconnectBegin, SendBegin, FetchBegin, StreamBegin, CatalogBegin, Begins, history
  <2>2. ~connecting
    BY <1>3, <2>1 DEF CredInv, Roles, NoOp
  <2> QED BY <2>1, <2>2 DEF Seen, Apart
<1>4. ASSUME CredInv, CancelSend \/ Fresh \/ Http \/ StreamEnd \/ CatalogRead \/ CatalogFetch PROVE Seen
  <2>1. ~connecting
    BY <1>4 DEF CancelSend, Fresh, Http, StreamEnd, CatalogRead, CatalogFetch, At, CredInv, Roles,
                ConnectPC, WritePC, UndoPC
  <2>2. ~connecting' /\ UNCHANGED owner
    BY <1>4, <2>1 DEF CancelSend, Fresh, Http, StreamEnd, CatalogRead, CatalogFetch, Goes, Ends, history
  <2> QED BY <2>1, <2>2 DEF Seen, Apart
<1>5. ASSUME CredInv, SelectWrite \/ CatalogAges \/ \E m \in Model : ApplyRejection(m) \/ SelectBegin(m)
      PROVE  Seen
  <2>1. UNCHANGED <<connecting, slot, op, owner>>
    BY <1>5 DEF SelectWrite, CatalogAges, ApplyRejection, SelectBegin, holder, history
  <2> QED BY <1>5, <2>1, GoesSeen
<1>6. ASSUME CredInv, ProcessRestarts PROVE Seen
  BY <1>6 DEF ProcessRestarts, CredInv, CredTypes, Seen, Apart, Over
<1> QED BY <1>1, <1>2, <1>3, <1>4, <1>5, <1>6

(* The status shown                                                        *)
Shown ==
  /\ ConnectionStatus \in {"disconnected", "connecting", "connected", "reconnect_required"}
  /\ ConnectionStatus = "connecting" <=> connecting
  /\ ConnectionStatus = "connected" => marker /\ owner \in Account

LEMMA StatusShown == CredInv => Shown
<1> SUFFICES ASSUME CredInv PROVE Shown
  OBVIOUS
<1>1. connecting \in BOOLEAN /\ flag \in BOOLEAN /\ marker \in BOOLEAN /\ (marker => owner \in Account)
  BY DEF CredInv, CredTypes, Owners
<1> QED BY <1>1 DEF ConnectionStatus, Shown

(* The adapter implements ProviderAccount: a connection changes hands only *)
(* through a connect the user has completed and not cancelled, and is      *)
(* given up only by the removal of what is kept (ImplementsAccount).       *)
THEOREM AccountImplemented == CredSpec => ImplementsAccount
<1> DEFINE account == IF connecting THEN op.prior ELSE owner
           offer == CASE ~connecting                      -> NoAccount
                      [] connecting /\ slot = "cancelled" -> Withdrawn
                      [] OTHER                            -> op.account
<1>1. CredInit => TheAccount!AccountInit
  BY DEF CredInit, TheAccount!AccountInit, ConnectionStatus, NoCred, Kind
<1>2. CredInv /\ CredInv' /\ [CredNext]_credVars =>
        [TheAccount!AccountNext]_<<ConnectionStatus, account, offer>>
  <2> SUFFICES ASSUME CredInv, CredInv', [CredNext]_credVars
               PROVE  TheAccount!AccountNext \/ UNCHANGED <<ConnectionStatus, account, offer>>
    OBVIOUS
  <2>0. Shown /\ Shown'
    <3>1. CredInv' => Shown'
      BY StatusShown, PTL
    <3> QED BY <3>1, StatusShown
  <2>1. /\ connecting \in BOOLEAN /\ connecting' \in BOOLEAN
        /\ slot \in {"none", "armed", "cancelled"} /\ slot' \in {"none", "armed", "cancelled"}
    BY DEF CredInv, CredTypes
  <2>2. ConnectBegin \/ Seen
    <3>1. CASE UNCHANGED credVars
      <4>1. UNCHANGED <<connecting, slot, op, owner>>
        BY <3>1 DEF credVars, holder, history
      <4> QED BY <4>1, GoesSeen
    <3> QED BY <3>1, PersistsSeen, UndoesSeen, RemovesSeen, OthersSeen DEF CredNext
  <2>3. CASE ConnectBegin
    <3>1. op'.prior = owner /\ op'.account = NoAccount
      BY <2>3 DEF ConnectBegin, Begins, NoOp
    <3>2. ~connecting /\ connecting' /\ slot' = "armed"
      BY <2>3 DEF ConnectBegin
    <3>3. account' = account /\ offer' = NoAccount
      BY <3>1, <3>2
    <3>4. TheAccount!Open
      BY <2>0, <3>2, <3>3 DEF Shown, TheAccount!Open
    <3> QED BY <3>4 DEF TheAccount!AccountNext
  <2>4. CASE Apart
    <3>1. account = owner /\ account' = owner' /\ offer = NoAccount /\ offer' = NoAccount
      BY <2>4 DEF Apart
    <3>2. ConnectionStatus # "connecting" /\ ConnectionStatus' # "connecting"
      BY <2>0, <2>4 DEF Shown, Apart
    <3>3. CASE ConnectionStatus' \in {"reconnect_required", "disconnected"}
      <4>1. TheAccount!Lose
        BY <2>4, <3>1, <3>2, <3>3 DEF Apart, TheAccount!Lose
      <4> QED BY <4>1 DEF TheAccount!AccountNext
    <3>4. CASE ConnectionStatus' = "connected"
      <4>1. owner' = owner /\ owner # NoAccount
        BY <2>0, <2>4, <3>4, CredentialsAssumption DEF Shown, Apart
      <4>2. CASE ConnectionStatus = "connected"
        BY <3>1, <3>4, <4>1, <4>2
      <4>3. CASE ConnectionStatus # "connected"
        <5>1. TheAccount!Resume
          BY <2>0, <3>1, <3>2, <3>4, <4>1, <4>3 DEF Shown, TheAccount!Resume
        <5> QED BY <5>1 DEF TheAccount!AccountNext
      <4> QED BY <4>2, <4>3
    <3> QED BY <2>0, <3>2, <3>3, <3>4 DEF Shown
  <2>5. CASE Within
    <3>1. ConnectionStatus = "connecting" /\ ConnectionStatus' = "connecting" /\ account' = account
      BY <2>0, <2>5 DEF Shown, Within
    <3>2. \/ offer' = offer
          \/ offer' = Withdrawn
          \/ offer = NoAccount /\ offer' \in Account
      BY <2>1, <2>5 DEF Within
    <3>3. CASE offer' = offer
      BY <3>1, <3>3
    <3>4. CASE offer' = Withdrawn
      <4>1. TheAccount!Withdraw
        BY <3>1, <3>4 DEF TheAccount!Withdraw
      <4> QED BY <4>1 DEF TheAccount!AccountNext
    <3>5. CASE offer = NoAccount /\ offer' \in Account
      <4>1. TheAccount!Approve
        BY <3>1, <3>5 DEF TheAccount!Approve
      <4> QED BY <4>1 DEF TheAccount!AccountNext
    <3> QED BY <3>2, <3>3, <3>4, <3>5
  <2>6. CASE Over
    <3>1. op.by = "connect" /\ account = op.prior /\ account' = owner /\ offer' = NoAccount
      BY <2>6 DEF Over, CredInv, Roles
    <3>2. owner = op.prior \/ (owner = offer /\ offer \in Account)
      <4>1. CASE At("device")
        <5>1. ~op.committed
          BY <4>1 DEF CredInv, Phases, UndoPC, At
        <5> QED BY <3>1, <4>1, <5>1 DEF CredInv, Owners, At
      <4>2. CASE ~At("device")
        <5>1. op.account \in Account
          BY <3>1, <4>2 DEF CredInv, Roles
        <5>2. owner = op.prior \/ (owner = op.account /\ slot = "none")
          BY <3>1 DEF CredInv, Owners
        <5> QED BY <2>6, <5>1, <5>2 DEF Over
      <4> QED BY <4>1, <4>2
    <3>3. /\ ConnectionStatus = "connecting"
          /\ ConnectionStatus' \in {"disconnected", "connected", "reconnect_required"}
          /\ ConnectionStatus' = "connected" => owner # NoAccount
      BY <2>0, <2>6, CredentialsAssumption DEF Shown, Over
    <3>4. TheAccount!Settle
      BY <3>1, <3>2, <3>3 DEF TheAccount!Settle, TheAccount!Status
    <3> QED BY <3>4 DEF TheAccount!AccountNext
  <2> QED BY <2>2, <2>3, <2>4, <2>5, <2>6 DEF Seen
<1> QED BY <1>1, <1>2, CredInvariant, PTL DEF CredSpec, ImplementsAccount, TheAccount!AccountSpec

---------------------------------------------------------------------------
(* The stream: bytes and boundaries.                                       *)

Byte == AllData \cup {"comment", "r", "n"}

(* A response ends its lines in one way: the two kinds of blank line are   *)
(* not both in it                                                          *)
OneEnding(s) == Positions(s, CRLF2) = {} \/ Positions(s, LF2) = {}

LEMMA OccursAt ==
  ASSUME NEW S, NEW s \in Seq(S), NEW i \in 1 .. Len(s)
  PROVE  /\ Occurs(s, CRLF2, i) <=>
              i + 3 <= Len(s) /\ s[i] = "r" /\ s[i + 1] = "n" /\ s[i + 2] = "r" /\ s[i + 3] = "n"
         /\ Occurs(s, LF2, i) <=> i + 1 <= Len(s) /\ s[i] = "n" /\ s[i + 1] = "n"
<1>1. Len(s) \in Nat /\ i \in Nat /\ \A j \in 1 .. Len(s) : s[j] \in S
  OBVIOUS
<1>2. ASSUME i + 3 <= Len(s)
      PROVE  SubSeq(s, i, i + 3) = <<s[i], s[i + 1], s[i + 2], s[i + 3]>>
  <2> DEFINE t == SubSeq(s, i, i + 3)
  <2>1. \A j \in i .. i + 3 : s[j] \in S
    BY <1>1, <1>2
  <2>2. t \in Seq(S) /\ Len(t) = 4 /\ \A j \in 1 .. 4 : t[j] = s[i + j - 1]
    BY <1>1, <1>2, <2>1, SubSeqProperties
  <2> HIDE DEF t
  <2>3. t[1] = s[i] /\ t[2] = s[i + 1] /\ t[3] = s[i + 2] /\ t[4] = s[i + 3]
    BY <1>1, <2>2
  <2>4. t \in [1 .. 4 -> S]
    BY <2>2, LenProperties
  <2>5. t = <<t[1], t[2], t[3], t[4]>>
    BY <2>4
  <2> QED BY <2>3, <2>5 DEF t
<1>3. ASSUME i + 1 <= Len(s)
      PROVE  SubSeq(s, i, i + 1) = <<s[i], s[i + 1]>>
  <2> DEFINE t == SubSeq(s, i, i + 1)
  <2>1. \A j \in i .. i + 1 : s[j] \in S
    BY <1>1, <1>3
  <2>2. t \in Seq(S) /\ Len(t) = 2 /\ \A j \in 1 .. 2 : t[j] = s[i + j - 1]
    BY <1>1, <1>3, <2>1, SubSeqProperties
  <2> HIDE DEF t
  <2>3. t[1] = s[i] /\ t[2] = s[i + 1]
    BY <1>1, <2>2
  <2>4. t \in [1 .. 2 -> S]
    BY <2>2, LenProperties
  <2>5. t = <<t[1], t[2]>>
    BY <2>4
  <2> QED BY <2>3, <2>5 DEF t
<1>4. Len(CRLF2) = 4 /\ Len(LF2) = 2
  BY DEF CRLF2, LF2
<1>5. Occurs(s, CRLF2, i) <=> i + 3 <= Len(s) /\ SubSeq(s, i, i + 3) = CRLF2
  BY <1>1, <1>4 DEF Occurs
<1>6. Occurs(s, LF2, i) <=> i + 1 <= Len(s) /\ SubSeq(s, i, i + 1) = LF2
  BY <1>1, <1>4 DEF Occurs
<1> QED BY <1>2, <1>3, <1>5, <1>6 DEF CRLF2, LF2

LEMMA MinIsLeast ==
  ASSUME NEW S \in SUBSET Nat, S # {}
  PROVE  /\ Min(S) \in S /\ \A k \in S : Min(S) <= k
         /\ \A m \in S : (\A k \in S : m <= k) => Min(S) = m
<1>1. Min(S) \in S /\ \A k \in S : Min(S) <= k
  BY LeastExists DEF Min
<1>2. ASSUME NEW m \in S, \A k \in S : m <= k PROVE Min(S) = m
  <2>1. m \in Nat /\ Min(S) \in Nat /\ m <= Min(S) /\ Min(S) <= m
    BY <1>1, <1>2
  <2> QED BY <2>1
<1> QED BY <1>1, <1>2

(* What find_event_boundary finds *)
LEMMA BoundaryIs ==
  ASSUME NEW S, NEW s \in Seq(S)
  PROVE  LET c == FindEventBoundary(s) IN
         \/ c = 0 /\ Positions(s, CRLF2) = {} /\ Positions(s, LF2) = {}
         \/ /\ c \in Positions(s, CRLF2) /\ \A k \in Positions(s, CRLF2) : c <= k
            /\ c # 0
         \/ /\ Positions(s, CRLF2) = {} /\ c # 0
            /\ c \in Positions(s, LF2) /\ \A k \in Positions(s, LF2) : c <= k
<1> DEFINE P == Positions(s, CRLF2)
           Q == Positions(s, LF2)
           c == FindEventBoundary(s)
<1>1. P \in SUBSET (1 .. Len(s)) /\ Q \in SUBSET (1 .. Len(s)) /\ Len(s) \in Nat
  BY DEF Positions
<1>2. c = CASE P # {} -> Min(P) [] P = {} /\ Q # {} -> Min(Q) [] OTHER -> 0
  BY DEF FindEventBoundary
<1> HIDE DEF P, Q, c
<1>3. CASE P # {}
  <2>1. P \in SUBSET Nat
    BY <1>1
  <2>2. Min(P) \in P /\ \A k \in P : Min(P) <= k
    BY <1>3, <2>1, MinIsLeast
  <2>3. c = Min(P)
    BY <1>2, <1>3
  <2> QED BY <1>1, <2>2, <2>3 DEF P, Q, c
<1>4. CASE P = {} /\ Q # {}
  <2>1. Q \in SUBSET Nat
    BY <1>1
  <2>2. Min(Q) \in Q /\ \A k \in Q : Min(Q) <= k
    BY <1>4, <2>1, MinIsLeast
  <2>3. c = Min(Q)
    BY <1>2, <1>4
  <2> QED BY <1>1, <1>4, <2>2, <2>3 DEF P, Q, c
<1>5. CASE P = {} /\ Q = {}
  BY <1>2, <1>5 DEF P, Q, c
<1> QED BY <1>3, <1>4, <1>5

(* Where the boundary is, byte by byte *)
LEMMA BoundaryBytes ==
  ASSUME NEW S, NEW s \in Seq(S), FindEventBoundary(s) # 0
  PROVE  LET c == FindEventBoundary(s)
             w == IF s[c] = "r" THEN 4 ELSE 2
         IN  /\ c \in 1 .. Len(s) /\ c + w - 1 <= Len(s) /\ w \in {2, 4}
             /\ EventDelimiterLen(SubSeq(s, c, Len(s))) = w
<1> DEFINE c == FindEventBoundary(s)
           w == IF s[c] = "r" THEN 4 ELSE 2
           tail == SubSeq(s, c, Len(s))
<1>1. c \in 1 .. Len(s) /\ (Occurs(s, CRLF2, c) \/ (Occurs(s, LF2, c) /\ ~Occurs(s, CRLF2, c)))
  <2>1. c # 0
    OBVIOUS
  <2> HIDE DEF c
  <2>2. \/ c \in Positions(s, CRLF2)
        \/ Positions(s, CRLF2) = {} /\ c \in Positions(s, LF2)
    BY <2>1, BoundaryIs DEF c
  <2> QED BY <2>2 DEF Positions
<1> HIDE DEF c
<1>2. \/ Occurs(s, CRLF2, c) /\ w = 4 /\ c + 3 <= Len(s)
      \/ Occurs(s, LF2, c) /\ ~Occurs(s, CRLF2, c) /\ w = 2 /\ c + 1 <= Len(s)
  <2>1. "n" # "r"
    OBVIOUS
  <2> QED BY <1>1, <2>1, OccursAt
<1>3. /\ tail \in Seq(S) /\ Len(tail) = Len(s) - c + 1
      /\ \A j \in 1 .. Len(s) - c + 1 : tail[j] = s[c + j - 1]
  <2>1. \A j \in c .. Len(s) : s[j] \in S
    BY <1>1
  <2>2. c \in Int /\ Len(s) \in Int /\ c <= Len(s)
    BY <1>1
  <2> QED BY <2>1, <2>2, SubSeqProperties
<1> HIDE DEF tail
<1>4. 1 \in 1 .. Len(tail) /\ c \in Nat /\ Len(s) \in Nat
  BY <1>1, <1>3
<1>5. ASSUME c + 1 <= Len(s)
      PROVE  tail[1] = s[c] /\ tail[2] = s[c + 1]
  <2>1. 1 \in 1 .. Len(s) - c + 1 /\ 2 \in 1 .. Len(s) - c + 1 /\ c + 1 - 1 = c
          /\ c + 2 - 1 = c + 1
    BY <1>4, <1>5
  <2> QED BY <1>3, <2>1
<1>6. ASSUME c + 3 <= Len(s)
      PROVE  tail[3] = s[c + 2] /\ tail[4] = s[c + 3]
  BY <1>3, <1>4, <1>6
<1>7. Occurs(tail, CRLF2, 1) <=> Occurs(s, CRLF2, c)
  <2>1. Occurs(tail, CRLF2, 1) <=>
          4 <= Len(tail) /\ tail[1] = "r" /\ tail[2] = "n" /\ tail[3] = "r" /\ tail[4] = "n"
    BY <1>3, <1>4, OccursAt
  <2>2. Occurs(s, CRLF2, c) <=>
          c + 3 <= Len(s) /\ s[c] = "r" /\ s[c + 1] = "n" /\ s[c + 2] = "r" /\ s[c + 3] = "n"
    BY <1>1, OccursAt
  <2>3. 4 <= Len(tail) <=> c + 3 <= Len(s)
    BY <1>3, <1>4
  <2> QED BY <2>1, <2>2, <2>3, <1>4, <1>5, <1>6
<1>8. Occurs(tail, LF2, 1) <=> Occurs(s, LF2, c)
  <2>1. Occurs(tail, LF2, 1) <=> 2 <= Len(tail) /\ tail[1] = "n" /\ tail[2] = "n"
    BY <1>3, <1>4, OccursAt
  <2>2. Occurs(s, LF2, c) <=> c + 1 <= Len(s) /\ s[c] = "n" /\ s[c + 1] = "n"
    BY <1>1, OccursAt
  <2>3. 2 <= Len(tail) <=> c + 1 <= Len(s)
    BY <1>3, <1>4
  <2> QED BY <2>1, <2>2, <2>3, <1>5
<1>9. EventDelimiterLen(tail) = w
  BY <1>2, <1>7, <1>8 DEF EventDelimiterLen
<1>10. w \in {2, 4} /\ c + w - 1 <= Len(s)
  BY <1>2, <1>4
<1> HIDE DEF w
<1> QED BY <1>1, <1>9, <1>10 DEF c, w, tail

(* What has been found stays found when more bytes arrive *)
LEMMA BoundaryStays ==
  ASSUME NEW S, NEW s \in Seq(S), NEW t \in Seq(S), OneEnding(s \o t),
         FindEventBoundary(s) # 0
  PROVE  FindEventBoundary(s \o t) = FindEventBoundary(s)
<1> DEFINE u == s \o t
           c == FindEventBoundary(s)
           d == FindEventBoundary(u)
<1>1. /\ u \in Seq(S) /\ Len(u) = Len(s) + Len(t) /\ Len(s) \in Nat /\ Len(t) \in Nat
      /\ \A k \in 1 .. Len(s) : u[k] = s[k]
  OBVIOUS
<1> HIDE DEF u, c, d
<1>2. c # 0 /\ OneEnding(u)
  BY DEF c, u
<1>3. ASSUME NEW k \in 1 .. Len(s)
      PROVE  /\ Occurs(s, CRLF2, k) <=> Occurs(u, CRLF2, k) /\ k + 3 <= Len(s)
             /\ Occurs(s, LF2, k) <=> Occurs(u, LF2, k) /\ k + 1 <= Len(s)
  <2>1. k \in Nat /\ k \in 1 .. Len(u)
    BY <1>1
  <2>2. /\ u[k] = s[k] /\ (k + 1 <= Len(s) => u[k + 1] = s[k + 1])
        /\ (k + 3 <= Len(s) => u[k + 2] = s[k + 2] /\ u[k + 3] = s[k + 3])
    <3> DEFINE l == Len(s)
    <3>1. l \in Nat /\ k \in 1 .. l /\ \A j \in 1 .. l : u[j] = s[j]
      BY <1>1
    <3> HIDE DEF l
    <3>2. k + 1 <= l => k + 1 \in 1 .. l
      BY <3>1
    <3>3. k + 3 <= l => k + 2 \in 1 .. l /\ k + 3 \in 1 .. l
      BY <3>1
    <3>4. /\ u[k] = s[k] /\ (k + 1 <= l => u[k + 1] = s[k + 1])
          /\ (k + 3 <= l => u[k + 2] = s[k + 2] /\ u[k + 3] = s[k + 3])
      BY <3>1, <3>2, <3>3
    <3> QED BY <3>4 DEF l
  <2>3. Occurs(s, CRLF2, k) <=>
          k + 3 <= Len(s) /\ s[k] = "r" /\ s[k + 1] = "n" /\ s[k + 2] = "r" /\ s[k + 3] = "n"
    BY OccursAt
  <2>4. Occurs(u, CRLF2, k) <=>
          k + 3 <= Len(u) /\ u[k] = "r" /\ u[k + 1] = "n" /\ u[k + 2] = "r" /\ u[k + 3] = "n"
    BY <1>1, <2>1, OccursAt
  <2>5. Occurs(s, LF2, k) <=> k + 1 <= Len(s) /\ s[k] = "n" /\ s[k + 1] = "n"
    BY OccursAt
  <2>6. Occurs(u, LF2, k) <=> k + 1 <= Len(u) /\ u[k] = "n" /\ u[k + 1] = "n"
    BY <1>1, <2>1, OccursAt
  <2>7. /\ k + 3 <= Len(s) => k + 1 <= Len(s) /\ k + 3 <= Len(u)
        /\ k + 1 <= Len(s) => k + 1 <= Len(u)
    BY <1>1, <2>1
  <2> QED BY <2>2, <2>3, <2>4, <2>5, <2>6, <2>7
<1>4. /\ Positions(s, CRLF2) \subseteq 1 .. Len(s) /\ Positions(s, LF2) \subseteq 1 .. Len(s)
      /\ Positions(u, CRLF2) \subseteq 1 .. Len(u) /\ Positions(u, LF2) \subseteq 1 .. Len(u)
  BY DEF Positions
<1>5. ASSUME NEW k \in Positions(u, CRLF2), k + 3 <= Len(s) PROVE k \in Positions(s, CRLF2)
  <2>1. k \in 1 .. Len(s) /\ Occurs(u, CRLF2, k)
    BY <1>1, <1>4, <1>5 DEF Positions
  <2> QED BY <1>3, <1>5, <2>1 DEF Positions
<1>6. ASSUME NEW k \in Positions(u, LF2), k + 1 <= Len(s) PROVE k \in Positions(s, LF2)
  <2>1. k \in 1 .. Len(s) /\ Occurs(u, LF2, k)
    BY <1>1, <1>4, <1>6 DEF Positions
  <2> QED BY <1>3, <1>6, <2>1 DEF Positions
<1>7. ASSUME NEW k \in Positions(s, CRLF2) PROVE k \in Positions(u, CRLF2) /\ k + 3 <= Len(s)
  <2>1. k \in 1 .. Len(s) /\ Occurs(s, CRLF2, k)
    BY DEF Positions
  <2> QED BY <1>1, <1>3, <2>1 DEF Positions
<1>8. ASSUME NEW k \in Positions(s, LF2) PROVE k \in Positions(u, LF2) /\ k + 1 <= Len(s)
  <2>1. k \in 1 .. Len(s) /\ Occurs(s, LF2, k)
    BY DEF Positions
  <2> QED BY <1>1, <1>3, <2>1 DEF Positions
<1>9. \/ /\ c \in Positions(s, CRLF2) /\ \A k \in Positions(s, CRLF2) : c <= k
      \/ /\ c \in Positions(s, LF2) /\ \A k \in Positions(s, LF2) : c <= k
  BY <1>2, BoundaryIs DEF c
<1>10. \/ d = 0 /\ Positions(u, CRLF2) = {} /\ Positions(u, LF2) = {}
       \/ d \in Positions(u, CRLF2) /\ \A k \in Positions(u, CRLF2) : d <= k
       \/ /\ Positions(u, CRLF2) = {}
          /\ d \in Positions(u, LF2) /\ \A k \in Positions(u, LF2) : d <= k
  BY <1>1, BoundaryIs DEF d
<1>11. CASE c \in Positions(s, CRLF2) /\ \A k \in Positions(s, CRLF2) : c <= k
  <2>1. c \in Positions(u, CRLF2) /\ c + 3 <= Len(s)
    BY <1>7, <1>11
  <2>2. d \in Positions(u, CRLF2) /\ d <= c
    BY <1>10, <2>1
  <2>3. c \in Nat /\ d \in Nat /\ Len(s) \in Nat
    BY <1>1, <1>4, <2>1, <2>2
  <2>4. d \in Positions(s, CRLF2)
    BY <1>5, <2>1, <2>2, <2>3
  <2>5. c <= d
    BY <1>11, <2>4
  <2> QED BY <2>2, <2>3, <2>5 DEF c, d, u
<1>12. CASE c \in Positions(s, LF2) /\ \A k \in Positions(s, LF2) : c <= k
  <2>1. c \in Positions(u, LF2) /\ c + 1 <= Len(s)
    BY <1>8, <1>12
  <2>2. d \in Positions(u, LF2) /\ d <= c
    BY <1>2, <1>10, <2>1 DEF OneEnding
  <2>3. c \in Nat /\ d \in Nat /\ Len(s) \in Nat
    BY <1>1, <1>4, <2>1, <2>2
  <2>4. d \in Positions(s, LF2)
    BY <1>6, <2>1, <2>2, <2>3
  <2>5. c <= d
    BY <1>12, <2>4
  <2> QED BY <2>2, <2>3, <2>5 DEF c, d, u
<1> QED BY <1>9, <1>11, <1>12

(* What is left after a boundary has one kind of ending too *)
LEMMA RestHasOneEnding ==
  ASSUME NEW S, NEW s \in Seq(S), OneEnding(s), NEW a \in 1 .. Len(s) + 1
  PROVE  SubSeq(s, a, Len(s)) \in Seq(S) /\ OneEnding(SubSeq(s, a, Len(s)))
<1> DEFINE t == SubSeq(s, a, Len(s))
<1>1. /\ t \in Seq(S) /\ Len(t) = Len(s) - a + 1
      /\ \A j \in 1 .. Len(t) : t[j] = s[a + j - 1]
  <2>1. \A j \in a .. Len(s) : s[j] \in S
    OBVIOUS
  <2>2. a \in Int /\ Len(s) \in Int /\ a <= Len(s) + 1
    OBVIOUS
  <2> QED BY <2>1, <2>2, SubSeqProperties
<1> HIDE DEF t
<1>2. ASSUME NEW i \in 1 .. Len(t)
      PROVE  /\ a + i - 1 \in 1 .. Len(s)
             /\ i + 1 <= Len(t) => a + i - 1 + 1 <= Len(s) /\ t[i + 1] = s[a + i - 1 + 1]
             /\ i + 3 <= Len(t) => /\ a + i - 1 + 3 <= Len(s)
                                   /\ t[i + 2] = s[a + i - 1 + 2] /\ t[i + 3] = s[a + i - 1 + 3]
             /\ t[i] = s[a + i - 1]
  <2>1. a \in Nat /\ i \in Nat /\ Len(s) \in Nat /\ i <= Len(s) - a + 1 /\ a >= 1 /\ i >= 1
    BY <1>1
  <2>2. a + i - 1 \in 1 .. Len(s)
    BY <2>1
  <2>3. ASSUME i + 1 <= Len(t)
        PROVE  a + i - 1 + 1 <= Len(s) /\ t[i + 1] = s[a + i - 1 + 1]
    <3>1. i + 1 \in 1 .. Len(t) /\ a + (i + 1) - 1 = a + i - 1 + 1
      BY <1>1, <2>1, <2>3
    <3> QED BY <1>1, <2>1, <2>3, <3>1
  <2>4. ASSUME i + 3 <= Len(t)
        PROVE  /\ a + i - 1 + 3 <= Len(s)
               /\ t[i + 2] = s[a + i - 1 + 2] /\ t[i + 3] = s[a + i - 1 + 3]
    <3>1. /\ i + 2 \in 1 .. Len(t) /\ a + (i + 2) - 1 = a + i - 1 + 2
          /\ i + 3 \in 1 .. Len(t) /\ a + (i + 3) - 1 = a + i - 1 + 3
      BY <1>1, <2>1, <2>4
    <3> QED BY <1>1, <2>1, <2>4, <3>1
  <2> QED BY <1>1, <2>2, <2>3, <2>4
<1>3. ASSUME NEW i \in Positions(t, CRLF2) PROVE Positions(s, CRLF2) # {}
  <2> DEFINE j == a + i - 1
  <2>1. i \in 1 .. Len(t) /\ Occurs(t, CRLF2, i) /\ i \in Nat
    BY DEF Positions
  <2>2. i + 3 <= Len(t) /\ t[i] = "r" /\ t[i + 1] = "n" /\ t[i + 2] = "r" /\ t[i + 3] = "n"
    BY <1>1, <2>1, OccursAt
  <2>3. i + 1 <= Len(t)
    BY <1>1, <2>1, <2>2
  <2>4. /\ j \in 1 .. Len(s) /\ j + 3 <= Len(s)
        /\ s[j] = "r" /\ s[j + 1] = "n" /\ s[j + 2] = "r" /\ s[j + 3] = "n"
    BY <1>2, <2>1, <2>2, <2>3
  <2> HIDE DEF j
  <2>5. Occurs(s, CRLF2, j)
    BY <2>4, OccursAt
  <2> QED BY <2>4, <2>5 DEF Positions
<1>4. ASSUME NEW i \in Positions(t, LF2) PROVE Positions(s, LF2) # {}
  <2> DEFINE j == a + i - 1
  <2>1. i \in 1 .. Len(t) /\ Occurs(t, LF2, i)
    BY DEF Positions
  <2>2. i + 1 <= Len(t) /\ t[i] = "n" /\ t[i + 1] = "n"
    BY <1>1, <2>1, OccursAt
  <2>3. j \in 1 .. Len(s) /\ j + 1 <= Len(s) /\ s[j] = "n" /\ s[j + 1] = "n"
    BY <1>2, <2>1, <2>2
  <2> HIDE DEF j
  <2>4. Occurs(s, LF2, j)
    BY <2>3, OccursAt
  <2> QED BY <2>3, <2>4 DEF Positions
<1> QED BY <1>1, <1>3, <1>4 DEF OneEnding, t

LEMMA Suffix ==
  ASSUME NEW S, NEW s \in Seq(S), NEW a \in 1 .. Len(s) + 1
  PROVE  /\ SubSeq(s, a, Len(s)) \in Seq(S) /\ Len(SubSeq(s, a, Len(s))) = Len(s) - a + 1
         /\ \A j \in 1 .. Len(s) - a + 1 : SubSeq(s, a, Len(s))[j] = s[a + j - 1]
<1>1. \A j \in a .. Len(s) : s[j] \in S
  OBVIOUS
<1>2. a \in Int /\ Len(s) \in Int /\ a <= Len(s) + 1
  OBVIOUS
<1> QED BY <1>1, <1>2, SubSeqProperties

(* Cutting an event out of the buffer is cutting it out of all that is     *)
(* still to be decoded                                                     *)
LEMMA CuttingIsLocal ==
  ASSUME NEW S, NEW s \in Seq(S), NEW t \in Seq(S), OneEnding(s \o t),
         FindEventBoundary(s) # 0
  PROVE  LET c == FindEventBoundary(s)
             u == s \o t
             w == IF u[c] = "r" THEN 4 ELSE 2
             tail == SubSeq(s, c, Len(s))
             rest == SubSeq(tail, EventDelimiterLen(tail) + 1, Len(tail))
         IN  /\ FindEventBoundary(u) = c /\ SubSeq(u, 1, c - 1) = SubSeq(s, 1, c - 1)
             /\ rest \in Seq(S) /\ rest \o t = SubSeq(u, c + w, Len(u))
             /\ OneEnding(rest \o t) /\ Len(rest \o t) < Len(u)
<1> DEFINE c == FindEventBoundary(s)
           u == s \o t
           w == IF u[c] = "r" THEN 4 ELSE 2
           tail == SubSeq(s, c, Len(s))
           rest == SubSeq(tail, EventDelimiterLen(tail) + 1, Len(tail))
           left == SubSeq(u, c + w, Len(u))
<1>1. /\ u \in Seq(S) /\ Len(u) = Len(s) + Len(t) /\ Len(s) \in Nat /\ Len(t) \in Nat
      /\ \A k \in 1 .. Len(s) : u[k] = s[k]
      /\ \A k \in 1 .. Len(t) : u[Len(s) + k] = t[k]
  BY ConcatAt
<1>2. FindEventBoundary(u) = c /\ OneEnding(u)
  BY BoundaryStays
<1>3. /\ c \in 1 .. Len(s) /\ c + w - 1 <= Len(s) /\ w \in {2, 4}
      /\ EventDelimiterLen(tail) = w
  <2> DEFINE v == IF s[c] = "r" THEN 4 ELSE 2
  <2>1. /\ c \in 1 .. Len(s) /\ c + v - 1 <= Len(s) /\ v \in {2, 4}
        /\ EventDelimiterLen(tail) = v
    BY BoundaryBytes
  <2>2. v = w
    <3> HIDE DEF c, u
    <3> QED BY <1>1, <2>1
  <2> HIDE DEF v, w
  <2> QED BY <2>1, <2>2
<1> HIDE DEF u, c, w
<1>4. c \in Nat /\ w \in Nat /\ c >= 1 /\ w >= 2 /\ c + w - 1 <= Len(s)
  BY <1>1, <1>3
<1>5. SubSeq(u, 1, c - 1) = SubSeq(s, 1, c - 1)
  <2> DEFINE x == SubSeq(u, 1, c - 1)
             y == SubSeq(s, 1, c - 1)
  <2>1. /\ \A j \in 1 .. c - 1 : u[j] = s[j] /\ s[j] \in S /\ u[j] \in S
        /\ 1 \in Int /\ c - 1 \in Int
    BY <1>1, <1>4
  <2>2. /\ x \in Seq(S) /\ Len(x) = (IF 1 <= c - 1 THEN c - 1 - 1 + 1 ELSE 0)
        /\ \A j \in 1 .. c - 1 - 1 + 1 : x[j] = u[1 + j - 1]
    BY <2>1, SubSeqProperties
  <2>3. /\ y \in Seq(S) /\ Len(y) = (IF 1 <= c - 1 THEN c - 1 - 1 + 1 ELSE 0)
        /\ \A j \in 1 .. c - 1 - 1 + 1 : y[j] = s[1 + j - 1]
    BY <2>1, SubSeqProperties
  <2> HIDE DEF x, y
  <2>4. Len(x) = c - 1 /\ Len(y) = c - 1
    BY <1>4, <2>2, <2>3
  <2>5. ASSUME NEW j \in 1 .. Len(x) PROVE x[j] = y[j]
    <3>1. j \in 1 .. c - 1 - 1 + 1 /\ 1 + j - 1 = j /\ j \in 1 .. c - 1
      BY <1>4, <2>4
    <3> QED BY <2>1, <2>2, <2>3, <3>1
  <2>6. x = y
    BY <2>2, <2>3, <2>4, <2>5, SeqEqual
  <2> QED BY <2>6 DEF x, y
<1>6. /\ tail \in Seq(S) /\ Len(tail) = Len(s) - c + 1
      /\ \A j \in 1 .. Len(s) - c + 1 : tail[j] = s[c + j - 1]
  <2>1. c \in 1 .. Len(s) + 1
    BY <1>1, <1>4
  <2> QED BY <2>1, Suffix
<1>7. rest = SubSeq(tail, w + 1, Len(tail))
  BY <1>3
<1>8. /\ rest \in Seq(S) /\ Len(rest) = Len(s) - c - w + 1
      /\ \A j \in 1 .. Len(rest) : rest[j] = s[c + w + j - 1]
  <2> HIDE DEF tail, rest
  <2>1. w + 1 \in 1 .. Len(tail) + 1
    BY <1>1, <1>4, <1>6
  <2>2. /\ rest \in Seq(S) /\ Len(rest) = Len(tail) - (w + 1) + 1
        /\ \A j \in 1 .. Len(tail) - (w + 1) + 1 : rest[j] = tail[w + 1 + j - 1]
    BY <1>6, <1>7, <2>1, Suffix
  <2>3. Len(rest) = Len(s) - c - w + 1
    BY <1>1, <1>4, <1>6, <2>2
  <2>4. ASSUME NEW j \in 1 .. Len(rest) PROVE rest[j] = s[c + w + j - 1]
    <3>1. /\ j \in 1 .. Len(tail) - (w + 1) + 1 /\ w + j \in 1 .. Len(s) - c + 1
          /\ w + 1 + j - 1 = w + j /\ c + (w + j) - 1 = c + w + j - 1
      BY <1>1, <1>4, <1>6, <2>3
    <3> QED BY <1>6, <2>2, <3>1
  <2> QED BY <2>2, <2>3, <2>4
<1> HIDE DEF tail, rest
<1>9. c + w \in 1 .. Len(u) + 1
  BY <1>1, <1>4
<1>10. /\ left \in Seq(S) /\ Len(left) = Len(u) - (c + w) + 1
       /\ \A j \in 1 .. Len(u) - (c + w) + 1 : left[j] = u[c + w + j - 1]
  BY <1>1, <1>9, Suffix
<1> HIDE DEF left
<1>11. rest \o t = left
  <2> DEFINE x == rest \o t
             n == Len(rest)
  <2>1. /\ x \in Seq(S) /\ Len(x) = n + Len(t) /\ n \in Nat
        /\ \A k \in 1 .. n : x[k] = rest[k]
        /\ \A k \in 1 .. Len(t) : x[n + k] = t[k]
    BY <1>8, ConcatAt
  <2>2. n = Len(s) - c - w + 1 /\ \A j \in 1 .. n : rest[j] = s[c + w + j - 1]
    BY <1>8
  <2> HIDE DEF x, n
  <2>3. Len(x) = Len(left)
    BY <1>1, <1>4, <1>10, <2>1, <2>2
  <2>4. ASSUME NEW j \in 1 .. Len(x) PROVE x[j] = left[j]
    <3>1. left[j] = u[c + w + j - 1]
      BY <1>10, <2>3
    <3>2. CASE j \in 1 .. n
      <4>1. c + w + j - 1 \in 1 .. Len(s)
        BY <1>1, <1>4, <2>2, <3>2
      <4> QED BY <1>1, <2>1, <2>2, <3>1, <3>2, <4>1
    <3>3. CASE j \notin 1 .. n
      <4>1. j - n \in 1 .. Len(t) /\ n + (j - n) = j /\ Len(s) + (j - n) = c + w + j - 1
        BY <1>1, <1>4, <2>1, <2>2, <3>3
      <4>2. x[n + (j - n)] = t[j - n] /\ u[Len(s) + (j - n)] = t[j - n]
        BY <1>1, <2>1, <4>1
      <4> QED BY <3>1, <4>1, <4>2
    <3> QED BY <3>2, <3>3
  <2>5. x = left
    BY <1>10, <2>1, <2>3, <2>4, SeqEqual
  <2> QED BY <2>5 DEF x
<1>12. OneEnding(left) /\ Len(left) < Len(u)
  <2>1. OneEnding(left)
    BY <1>1, <1>2, <1>9, RestHasOneEnding DEF left
  <2>2. Len(left) < Len(u)
    BY <1>1, <1>4, <1>10
  <2> QED BY <2>1, <2>2
<1> QED BY <1>2, <1>5, <1>8, <1>11, <1>12 DEF u, c, w, tail, rest, left

---------------------------------------------------------------------------
(* The stream: what a provider sends.                                      *)

Word == AllData \cup {"comment", "eol"}

(* A set of byte sequences that lines and their endings do not lead out of *)
Lawful(C, eol) ==
  Closed(C) /\ eol \in C /\ \A w \in Word \ {"eol"} : <<w>> \in C

LEMMA FramesAreWords ==
  Frame \subseteq Seq(Word)
<1> SUFFICES ASSUME NEW f \in Frame PROVE f \in Seq(Word)
  OBVIOUS
<1>1. "open" \in Word /\ "eol" \in Word /\ "close" \in Word /\ "comment" \in Word
        /\ \A d \in Data : d \in Word
  BY StreamAssumption DEF Word, AllData
<1>2. (\E d \in Data : f = <<d>>) \/ f = <<"open", "eol", "close">> \/ f = <<"comment">>
  BY DEF Frame
<1>3. /\ \A w \in Word : <<w>> \in Seq(Word)
      /\ \A v, w, x \in Word : <<v, w, x>> \in Seq(Word)
  OBVIOUS
<1>4. <<"open", "eol", "close">> \in Seq(Word) /\ <<"comment">> \in Seq(Word)
  BY <1>1, <1>3
<1> QED BY <1>1, <1>2, <1>3, <1>4

LEMMA EncodedIn ==
  ASSUME NEW C, NEW eol, Lawful(C, eol), NEW n \in Nat, NEW frames \in [1 .. n -> Frame],
         NEW closed \in BOOLEAN
  PROVE  Encode(frames, eol, closed) \in C
<1> DEFINE Spelled(f) == [i \in DOMAIN f |-> IF f[i] = "eol" THEN eol ELSE <<f[i]>>]
           Ending(i) == IF i = Len(frames) /\ ~closed THEN <<>> ELSE eol \o eol
           parts == [i \in DOMAIN frames |-> FlattenSeq(Spelled(frames[i])) \o Ending(i)]
<1>1. ASSUME NEW f \in Seq(Word) PROVE FlattenSeq(Spelled(f)) \in C
  <2>1. DOMAIN f = 1 .. Len(f) /\ Len(f) \in Nat /\ \A i \in 1 .. Len(f) : f[i] \in Word
    OBVIOUS
  <2>2. \A i \in 1 .. Len(f) : Spelled(f)[i] \in C
    BY <2>1 DEF Lawful
  <2>3. Spelled(f) = [i \in 1 .. Len(f) |-> Spelled(f)[i]]
    BY <2>1
  <2>4. Spelled(f) \in Seq(C)
    <3> DEFINE x == Spelled(f)
               m == Len(f)
    <3>1. m \in Nat /\ x = [i \in 1 .. m |-> x[i]] /\ \A i \in 1 .. m : x[i] \in C
      BY <2>1, <2>2, <2>3
    <3> HIDE DEF x, m
    <3>2. x \in Seq(C)
      BY <3>1, IsASeq
    <3> QED BY <3>2 DEF x
  <2> HIDE DEF Spelled
  <2> QED BY <2>4, FlattenIn DEF Lawful
<1>2. ASSUME NEW i PROVE Ending(i) \in C
  BY DEF Lawful, Closed
<1>3. ASSUME NEW i \in 1 .. n PROVE FlattenSeq(Spelled(frames[i])) \o Ending(i) \in C
  <2>1. frames[i] \in Seq(Word)
    BY FramesAreWords
  <2>2. FlattenSeq(Spelled(frames[i])) \in C
    BY <1>1, <2>1
  <2>3. Ending(i) \in C
    BY <1>2
  <2> HIDE DEF Spelled, Ending
  <2> QED BY <2>2, <2>3 DEF Lawful, Closed
<1>4. DOMAIN frames = 1 .. n
  OBVIOUS
<1>5. parts \in Seq(C)
  <2>1. parts = [i \in 1 .. n |-> parts[i]] /\ \A i \in 1 .. n : parts[i] \in C
    BY <1>3, <1>4
  <2> HIDE DEF parts
  <2> QED BY <2>1
<1>6. Encode(frames, eol, closed) = FlattenSeq(parts)
  BY DEF Encode
<1> HIDE DEF parts
<1> QED BY <1>5, <1>6, FlattenIn DEF Lawful

NoCR == {s \in Seq(Byte) : \A i \in 1 .. Len(s) : s[i] # "r"}
CRBeforeLF == {s \in Seq(Byte) : \A i \in 1 .. Len(s) : s[i] = "n" => i > 1 /\ s[i - 1] = "r"}

LEMMA WordIsNoEnd ==
  ASSUME NEW w \in Word \ {"eol"}
  PROVE  <<w>> \in Seq(Byte) /\ w # "r" /\ w # "n"
<1>1. w \in Byte
  BY DEF Word, Byte
<1>2. w # "r" /\ w # "n"
  BY DEF Word, AllData, ChatData, ResponsesData
<1> QED BY <1>1, <1>2

LEMMA EndingsAreLawful ==
  Lawful(NoCR, <<"n">>) /\ Lawful(CRBeforeLF, <<"r", "n">>)
<1>1. ASSUME NEW s \in Seq(Byte), NEW t \in Seq(Byte)
      PROVE  /\ s \o t \in Seq(Byte) /\ Len(s \o t) = Len(s) + Len(t)
             /\ Len(s) \in Nat /\ Len(t) \in Nat
             /\ \A k \in 1 .. Len(s) : (s \o t)[k] = s[k]
             /\ \A k \in 1 .. Len(t) : (s \o t)[Len(s) + k] = t[k]
             /\ \A k \in 1 .. Len(s \o t) :
                  k \in 1 .. Len(s) \/ (k - Len(s) \in 1 .. Len(t) /\ k = Len(s) + (k - Len(s)))
  OBVIOUS
<1>2. Closed(NoCR)
  <2>1. <<>> \in NoCR
    BY DEF NoCR
  <2>2. ASSUME NEW s \in NoCR, NEW t \in NoCR PROVE s \o t \in NoCR
    <3>1. /\ s \in Seq(Byte) /\ t \in Seq(Byte)
          /\ \A i \in 1 .. Len(s) : s[i] # "r"
          /\ \A i \in 1 .. Len(t) : t[i] # "r"
      BY DEF NoCR
    <3> DEFINE u == s \o t
    <3>2. /\ u \in Seq(Byte)
          /\ \A k \in 1 .. Len(s) : u[k] = s[k]
          /\ \A k \in 1 .. Len(t) : u[Len(s) + k] = t[k]
          /\ \A k \in 1 .. Len(u) :
               k \in 1 .. Len(s) \/ (k - Len(s) \in 1 .. Len(t) /\ k = Len(s) + (k - Len(s)))
      BY <1>1, <3>1
    <3> HIDE DEF u
    <3>3. ASSUME NEW k \in 1 .. Len(u) PROVE u[k] # "r"
      <4>1. CASE k \in 1 .. Len(s)
        BY <3>1, <3>2, <4>1
      <4>2. CASE k - Len(s) \in 1 .. Len(t) /\ k = Len(s) + (k - Len(s))
        BY <3>1, <3>2, <4>2
      <4> QED BY <3>2, <4>1, <4>2
    <3> QED BY <3>2, <3>3 DEF NoCR, u
  <2> QED BY <2>1, <2>2 DEF Closed
<1>3. Closed(CRBeforeLF)
  <2>1. <<>> \in CRBeforeLF
    BY DEF CRBeforeLF
  <2>2. ASSUME NEW s \in CRBeforeLF, NEW t \in CRBeforeLF PROVE s \o t \in CRBeforeLF
    <3>1. /\ s \in Seq(Byte) /\ t \in Seq(Byte)
          /\ \A i \in 1 .. Len(s) : s[i] = "n" => i > 1 /\ s[i - 1] = "r"
          /\ \A i \in 1 .. Len(t) : t[i] = "n" => i > 1 /\ t[i - 1] = "r"
      BY DEF CRBeforeLF
    <3> DEFINE u == s \o t
               n == Len(s)
    <3>2. /\ u \in Seq(Byte) /\ n \in Nat
          /\ \A k \in 1 .. n : u[k] = s[k]
          /\ \A k \in 1 .. Len(t) : u[n + k] = t[k]
          /\ \A k \in 1 .. Len(u) :
               k \in 1 .. n \/ (k - n \in 1 .. Len(t) /\ k = n + (k - n))
      BY <1>1, <3>1
    <3>3. n = Len(s)
      OBVIOUS
    <3> HIDE DEF u, n
    <3>4. ASSUME NEW k \in 1 .. Len(u), u[k] = "n" PROVE k > 1 /\ u[k - 1] = "r"
      <4>1. CASE k \in 1 .. n
        <5>1. s[k] = "n"
          BY <3>2, <3>4, <4>1
        <5>2. k > 1 /\ s[k - 1] = "r"
          BY <3>1, <3>3, <4>1, <5>1
        <5>3. k - 1 \in 1 .. n
          BY <3>2, <4>1, <5>2
        <5> QED BY <3>2, <5>2, <5>3
      <4>2. CASE k - n \in 1 .. Len(t) /\ k = n + (k - n)
        <5> DEFINE j == k - n
        <5>1. j \in 1 .. Len(t) /\ k = n + j
          BY <4>2
        <5> HIDE DEF j
        <5>2. t[j] = "n"
          BY <3>2, <3>4, <5>1
        <5>3. j > 1 /\ t[j - 1] = "r"
          BY <3>1, <5>1, <5>2
        <5>4. j - 1 \in 1 .. Len(t) /\ k - 1 = n + (j - 1) /\ k > 1
          BY <3>2, <5>1, <5>3
        <5> QED BY <3>2, <5>3, <5>4
      <4> QED BY <3>2, <4>1, <4>2
    <3> QED BY <3>2, <3>4 DEF CRBeforeLF, u
  <2> QED BY <2>1, <2>2 DEF Closed
<1>4. "r" \in Byte /\ "n" \in Byte /\ "n" # "r"
  BY DEF Byte
<1>5. <<"n">> \in NoCR
  BY <1>4 DEF NoCR
<1>6. <<"r", "n">> \in CRBeforeLF
  <2>1. <<"r", "n">> \in Seq(Byte) /\ Len(<<"r", "n">>) = 2
    BY <1>4
  <2>2. <<"r", "n">>[1] = "r" /\ <<"r", "n">>[2] = "n"
    OBVIOUS
  <2>3. \A i \in 1 .. 2 : i = 1 \/ i = 2
    OBVIOUS
  <2> QED BY <1>4, <2>1, <2>2, <2>3 DEF CRBeforeLF
<1>7. ASSUME NEW w \in Word \ {"eol"} PROVE <<w>> \in NoCR /\ <<w>> \in CRBeforeLF
  <2>1. <<w>> \in Seq(Byte) /\ w # "r" /\ w # "n"
    BY WordIsNoEnd
  <2>2. Len(<<w>>) = 1 /\ <<w>>[1] = w
    OBVIOUS
  <2> QED BY <2>1, <2>2 DEF NoCR, CRBeforeLF
<1> QED BY <1>2, <1>3, <1>5, <1>6, <1>7 DEF Lawful

(* A response has one kind of blank line, however it ends *)
LEMMA WiresHaveOneEnding ==
  ASSUME NEW w \in Wires
  PROVE  w \in Seq(Byte) /\ OneEnding(w)
<1>1. PICK frames \in UNION {[1 .. n -> Frame] : n \in 0 .. MaxFrames},
           eol \in {<<"n">>, <<"r", "n">>}, closed \in BOOLEAN : w = Encode(frames, eol, closed)
  BY DEF Wires
<1>2. PICK n \in 0 .. MaxFrames : frames \in [1 .. n -> Frame]
  BY <1>1
<1>3. n \in Nat
  BY StreamAssumption
<1>4. CASE eol = <<"n">>
  <2>1. w \in NoCR
    BY <1>1, <1>2, <1>3, <1>4, EndingsAreLawful, EncodedIn
  <2>2. w \in Seq(Byte) /\ \A i \in 1 .. Len(w) : w[i] # "r"
    BY <2>1 DEF NoCR
  <2>3. ASSUME NEW i \in Positions(w, CRLF2) PROVE FALSE
    <3>1. i \in 1 .. Len(w) /\ Occurs(w, CRLF2, i)
      BY DEF Positions
    <3> QED BY <2>2, <3>1, OccursAt
  <2> QED BY <2>2, <2>3 DEF OneEnding
<1>5. CASE eol = <<"r", "n">>
  <2>1. w \in CRBeforeLF
    BY <1>1, <1>2, <1>3, <1>5, EndingsAreLawful, EncodedIn
  <2>2. w \in Seq(Byte) /\ \A i \in 1 .. Len(w) : w[i] = "n" => i > 1 /\ w[i - 1] = "r"
    BY <2>1 DEF CRBeforeLF
  <2>3. ASSUME NEW i \in Positions(w, LF2) PROVE FALSE
    <3>1. i \in 1 .. Len(w) /\ Occurs(w, LF2, i)
      BY DEF Positions
    <3>2. i + 1 <= Len(w) /\ w[i] = "n" /\ w[i + 1] = "n"
      BY <2>2, <3>1, OccursAt
    <3>3. i + 1 \in 1 .. Len(w) /\ (i + 1) - 1 = i
      BY <3>1, <3>2
    <3>4. w[i] = "r"
      BY <2>2, <3>2, <3>3
    <3> QED BY <3>2, <3>4
  <2> QED BY <2>2, <2>3 DEF OneEnding
<1> QED BY <1>1, <1>4, <1>5

---------------------------------------------------------------------------
(* The stream: decoding.                                                   *)

ParseState == [protocol : {"unknown", "chat", "responses", "error"}, completed : BOOLEAN,
               finished : BOOLEAN, id : {"none", "first", "second"}]
Event == {Completed} \cup {Delta(t) : t \in AllData}

LEMMA FailsIsState ==
  /\ Fails \in ParseState /\ FreshState \in ParseState
  /\ ~Fails.completed /\ ~FreshState.completed
BY DEF Fails, FreshState, ParseState

LEMMA ProtocolSteps ==
  ASSUME NEW s \in ParseState, NEW protocol \in {"chat", "responses"}
  PROVE  /\ Enters(s, protocol) \in ParseState
         /\ ~s.completed => ~Enters(s, protocol).completed
BY FailsIsState DEF Enters, ParseState

LEMMA IdSteps ==
  ASSUME NEW s \in ParseState, NEW id \in {"first", "second"}
  PROVE  /\ MergesId(s, id) \in ParseState
         /\ ~s.completed => ~MergesId(s, id).completed
BY FailsIsState DEF MergesId, ParseState

(* parse_sse_event hands on one event at most, and leaves it to the        *)
(* emitter to say that the response is complete                            *)
Decoded(parsed, s) ==
  /\ parsed.state \in ParseState
  /\ ~s.completed => ~parsed.state.completed
  /\ \/ parsed.batch = <<>> \/ parsed.batch = <<Completed>>
     \/ \E t \in AllData : parsed.batch = <<Delta(t)>>

LEMMA EventDecodes ==
  ASSUME NEW event, NEW s \in ParseState
  PROVE  Decoded(ParseSseEvent(event, s), s)
<1> DEFINE data == DataOf(event)
           d == IF data = <<"open", "close">> THEN "delta"
                ELSE IF Len(data) = 1 THEN data[1] ELSE "bad"
           chat == MergesId(Enters(s, "chat"), IF d = "stray" THEN "second" ELSE "first")
           resp == Enters(s, "responses")
           Gives(x, batch) == [state |-> x, batch |-> IF x = Fails THEN <<>> ELSE batch]
           chatDone == IF d = "last" /\ chat # Fails THEN [chat EXCEPT !.finished = TRUE] ELSE chat
           chatEnds == IF chat = Fails THEN chat ELSE [chat EXCEPT !.finished = TRUE]
<1>1. ParseSseEvent(event, s) =
        CASE data = <<>>          -> Gives(s, <<>>)
          [] d = "done"           -> Gives(Enters(s, "chat"), <<Completed>>)
          [] d \in {"delta", "last"} ->
               IF s.finished THEN Gives(Fails, <<>>) ELSE Gives(chatDone, <<Delta(d)>>)
          [] d = "finish"         -> Gives(chatEnds, <<>>)
          [] d \in {"usage", "stray"} -> Gives(chat, <<>>)
          [] d = "rdelta"         -> Gives(resp, <<Delta(d)>>)
          [] d = "rcompleted"     -> Gives(resp, <<Completed>>)
          [] OTHER                -> Gives(Fails, <<>>)
  BY DEF ParseSseEvent
<1>2. /\ Enters(s, "chat") \in ParseState /\ resp \in ParseState
      /\ ~s.completed => ~Enters(s, "chat").completed /\ ~resp.completed
  BY ProtocolSteps
<1>3. chat \in ParseState /\ (~s.completed => ~chat.completed)
  <2> DEFINE id == IF d = "stray" THEN "second" ELSE "first"
  <2>1. id \in {"first", "second"}
    OBVIOUS
  <2> HIDE DEF id, d
  <2>2. /\ MergesId(Enters(s, "chat"), id) \in ParseState
        /\ ~s.completed => ~MergesId(Enters(s, "chat"), id).completed
    BY <1>2, <2>1, IdSteps
  <2> QED BY <2>2 DEF id
<1> HIDE DEF chat, resp, d, data
<1>4. /\ chatDone \in ParseState /\ chatEnds \in ParseState
      /\ ~s.completed => ~chatDone.completed /\ ~chatEnds.completed
  BY <1>3 DEF ParseState
<1> HIDE DEF chatDone, chatEnds
<1>5. ASSUME NEW x \in ParseState, ~s.completed => ~x.completed,
             NEW batch, \/ batch = <<>> \/ batch = <<Completed>>
                        \/ \E t \in AllData : batch = <<Delta(t)>>
      PROVE  Decoded(Gives(x, batch), s)
  BY <1>5 DEF Decoded
<1>6. /\ "delta" \in AllData /\ "last" \in AllData /\ "rdelta" \in AllData
  BY DEF AllData, ChatData, ResponsesData
<1>7. \/ ParseSseEvent(event, s) = Gives(s, <<>>)
      \/ ParseSseEvent(event, s) = Gives(Enters(s, "chat"), <<Completed>>)
      \/ ParseSseEvent(event, s) = Gives(Fails, <<>>)
      \/ d \in {"delta", "last"} /\ ParseSseEvent(event, s) = Gives(chatDone, <<Delta(d)>>)
      \/ ParseSseEvent(event, s) = Gives(chatEnds, <<>>)
      \/ ParseSseEvent(event, s) = Gives(chat, <<>>)
      \/ d = "rdelta" /\ ParseSseEvent(event, s) = Gives(resp, <<Delta(d)>>)
      \/ ParseSseEvent(event, s) = Gives(resp, <<Completed>>)
  <2> HIDE DEF Gives
  <2> QED BY <1>1
<1> HIDE DEF Gives
<1>8. \E x \in ParseState : \E batch :
        /\ ~s.completed => ~x.completed
        /\ batch = <<>> \/ batch = <<Completed>> \/ \E t \in AllData : batch = <<Delta(t)>>
        /\ ParseSseEvent(event, s) = Gives(x, batch)
  <2>1. CASE ParseSseEvent(event, s) = Gives(s, <<>>)
    BY <2>1
  <2>2. CASE ParseSseEvent(event, s) = Gives(Enters(s, "chat"), <<Completed>>)
    BY <1>2, <2>2
  <2>3. CASE ParseSseEvent(event, s) = Gives(Fails, <<>>)
    BY <2>3, FailsIsState
  <2>4. CASE d \in {"delta", "last"} /\ ParseSseEvent(event, s) = Gives(chatDone, <<Delta(d)>>)
    BY <1>4, <1>6, <2>4
  <2>5. CASE ParseSseEvent(event, s) = Gives(chatEnds, <<>>)
    BY <1>4, <2>5
  <2>6. CASE ParseSseEvent(event, s) = Gives(chat, <<>>)
    BY <1>3, <2>6
  <2>7. CASE d = "rdelta" /\ ParseSseEvent(event, s) = Gives(resp, <<Delta(d)>>)
    BY <1>2, <1>6, <2>7
  <2>8. CASE ParseSseEvent(event, s) = Gives(resp, <<Completed>>)
    BY <1>2, <2>8
  <2> QED BY <1>7, <2>1, <2>2, <2>3, <2>4, <2>5, <2>6, <2>7, <2>8
<1> QED BY <1>5, <1>8

(* emit_provider_batch completes the response with its completion, and     *)
(* with nothing else                                                       *)
LEMMA BatchEmits ==
  ASSUME NEW parsed, NEW s \in ParseState, Decoded(parsed, s)
  PROVE  /\ Emitted(parsed) \in ParseState
         /\ parsed.batch \in Seq(Event) /\ Len(parsed.batch) <= 1
         /\ ~s.completed =>
              (Emitted(parsed).completed <=> parsed.batch = <<Completed>>)
         /\ parsed.batch # <<Completed>> => \A i \in 1 .. Len(parsed.batch) : parsed.batch[i] # Completed
<1>1. Completed \in Event /\ \A t \in AllData : Delta(t) \in Event /\ Delta(t) # Completed
  BY DEF Event, Delta, Completed
<1>2. /\ parsed.state \in ParseState /\ (~s.completed => ~parsed.state.completed)
      /\ \/ parsed.batch = <<>> \/ parsed.batch = <<Completed>>
         \/ \E t \in AllData : parsed.batch = <<Delta(t)>>
  BY DEF Decoded
<1> DEFINE marked == [parsed.state EXCEPT !.completed = TRUE]
<1>3. marked \in ParseState /\ marked.completed
  BY <1>2 DEF ParseState
<1>4. Emitted(parsed) = IF Completed \in Range(parsed.batch) THEN marked ELSE parsed.state
  BY DEF Emitted
<1> HIDE DEF marked
<1>5. \A e : Range(<<e>>) = {e}
  BY DEF Range
<1>6. Range(<<>>) = {}
  BY DEF Range
<1>7. CASE parsed.batch = <<>>
  BY <1>2, <1>4, <1>6, <1>7
<1>8. CASE parsed.batch = <<Completed>>
  BY <1>1, <1>2, <1>3, <1>4, <1>5, <1>8
<1>9. ASSUME NEW t \in AllData, parsed.batch = <<Delta(t)>>
      PROVE  /\ Emitted(parsed) = parsed.state /\ parsed.batch \in Seq(Event)
             /\ Len(parsed.batch) = 1 /\ parsed.batch[1] # Completed
             /\ parsed.batch # <<Completed>>
  <2>1. Completed \notin Range(parsed.batch)
    BY <1>1, <1>5, <1>9
  <2> QED BY <1>1, <1>4, <1>9, <2>1
<1>10. CASE \E t \in AllData : parsed.batch = <<Delta(t)>>
  <2>1. /\ Emitted(parsed) = parsed.state /\ parsed.batch \in Seq(Event)
        /\ Len(parsed.batch) = 1 /\ parsed.batch[1] # Completed
        /\ parsed.batch # <<Completed>>
    BY <1>9, <1>10
  <2> QED BY <1>2, <2>1
<1> QED BY <1>2, <1>7, <1>8, <1>10

(* Where the loop over the whole response is *)
Config == [rest : Seq(Byte), state : ParseState, events : Seq(Event),
           result : {"open", "ok", "error"}]

Start(bytes) == [rest |-> bytes, state |-> FreshState, events |-> <<>>, result |-> "open"]

Turns(g, bytes, n) == g = [i \in 0 .. n |-> IF i = 0 THEN Start(bytes) ELSE Turn(g[i - 1])]

LEMMA TurnsExist ==
  ASSUME NEW bytes, NEW N \in Nat
  PROVE  \A n \in 0 .. N : \E g : Turns(g, bytes, n)
<1> DEFINE Bad == {n \in 0 .. N : ~ \E g : Turns(g, bytes, n)}
<1>1. ASSUME Bad # {} PROVE FALSE
  <2>1. Bad \in SUBSET Nat
    OBVIOUS
  <2>2. PICK m \in Bad : \A k \in Bad : m <= k
    <3> HIDE DEF Bad
    <3> QED BY <1>1, <2>1, LeastExists
  <2>3. m \in 0 .. N /\ ~ \E g : Turns(g, bytes, m)
    OBVIOUS
  <2>4. CASE m = 0
    <3> DEFINE g == [i \in 0 .. 0 |-> Start(bytes)]
    <3>1. g = [i \in 0 .. 0 |-> IF i = 0 THEN Start(bytes) ELSE Turn(g[i - 1])]
      OBVIOUS
    <3> HIDE DEF g
    <3> QED BY <2>3, <2>4, <3>1 DEF Turns
  <2>5. CASE m # 0
    <3>1. m - 1 \in 0 .. N /\ ~ (m <= m - 1) /\ m \in Nat
      BY <2>3, <2>5
    <3>2. PICK h : Turns(h, bytes, m - 1)
      BY <2>2, <3>1
    <3> DEFINE g == [i \in 0 .. m |-> IF i = m THEN Turn(h[m - 1]) ELSE h[i]]
    <3>3. ASSUME NEW i \in 0 .. m
          PROVE  g[i] = IF i = 0 THEN Start(bytes) ELSE Turn(g[i - 1])
      <4>1. CASE i = m
        <5>1. i # 0 /\ i - 1 \in 0 .. m /\ i - 1 # m
          BY <2>5, <3>1, <4>1
        <5>2. g[i] = Turn(h[m - 1]) /\ g[i - 1] = h[m - 1]
          BY <4>1, <5>1
        <5> HIDE DEF g
        <5> QED BY <4>1, <5>1, <5>2
      <4>2. CASE i # m
        <5>1. i \in 0 .. m - 1 /\ (i # 0 => i - 1 \in 0 .. m /\ i - 1 # m)
          BY <3>1, <4>2
        <5>2. g[i] = h[i] /\ (i # 0 => g[i - 1] = h[i - 1])
          BY <4>2, <5>1
        <5>3. h[i] = IF i = 0 THEN Start(bytes) ELSE Turn(h[i - 1])
          BY <3>2, <5>1 DEF Turns
        <5> HIDE DEF g
        <5> QED BY <5>2, <5>3
      <4> QED BY <4>1, <4>2
    <3>4. g = [i \in 0 .. m |-> g[i]]
      OBVIOUS
    <3>5. Turns(g, bytes, m)
      <4> HIDE DEF g
      <4> QED BY <3>3, <3>4 DEF Turns
    <3> QED BY <2>3, <3>5
  <2> QED BY <2>4, <2>5
<1> HIDE DEF Bad
<1>2. Bad = {}
  BY <1>1
<1> QED BY <1>2 DEF Bad

(* The turns taken over a response *)
TurnsOf(bytes) == CHOOSE g : Turns(g, bytes, Len(bytes) + 1)

LEMMA TurnsAre ==
  ASSUME NEW bytes, Len(bytes) \in Nat
  PROVE  /\ TurnsOf(bytes)[0] = Start(bytes)
         /\ \A n \in 0 .. Len(bytes) : TurnsOf(bytes)[n + 1] = Turn(TurnsOf(bytes)[n])
         /\ Decode(bytes) = TurnsOf(bytes)[Len(bytes) + 1]
<1> DEFINE N == Len(bytes) + 1
           g == TurnsOf(bytes)
<1>1. N \in Nat /\ N = Len(bytes) + 1
  OBVIOUS
<1>2. \E f : Turns(f, bytes, N)
  <2> HIDE DEF N
  <2>1. N \in 0 .. N
    BY <1>1
  <2> QED BY <1>1, <2>1, TurnsExist
<1>3. Turns(g, bytes, N)
  BY <1>2 DEF TurnsOf
<1>4. Decode(bytes) = g[N]
  BY DEF Decode, TurnsOf, Turns, Start
<1> HIDE DEF g, N
<1>5. g[0] = Start(bytes)
  <2>1. 0 \in 0 .. N
    BY <1>1
  <2> QED BY <1>3, <2>1 DEF Turns
<1>6. ASSUME NEW n \in 0 .. Len(bytes) PROVE g[n + 1] = Turn(g[n])
  <2>1. n + 1 \in 0 .. N /\ n + 1 # 0 /\ (n + 1) - 1 = n
    BY <1>1
  <2> QED BY <1>3, <2>1 DEF Turns
<1> QED BY <1>1, <1>4, <1>5, <1>6 DEF g, N

(* One turn, in the terms of the program *)
LEMMA TurnTakes ==
  ASSUME NEW d \in Config, d.result = "open", d.rest # <<>>
  PROVE  LET c == FindEventBoundary(d.rest)
             parsed == ParseSseEvent(IF c = 0 THEN d.rest ELSE SubSeq(d.rest, 1, c - 1), d.state)
             after == Emitted(parsed)
         IN  Turn(d) =
               [rest |-> IF c = 0 THEN <<>>
                         ELSE SubSeq(d.rest, c + (IF d.rest[c] = "r" THEN 4 ELSE 2), Len(d.rest)),
                state |-> after, events |-> d.events \o parsed.batch,
                result |-> IF after = Fails THEN "error"
                           ELSE IF after.completed THEN "ok" ELSE "open"]
BY DEF Turn

LEMMA LastTurn ==
  ASSUME NEW d \in Config, d.result = "open", d.rest = <<>>
  PROVE  Turn(d) = IF MayFinish(d.state)
                   THEN [d EXCEPT !.events = Append(d.events, Completed), !.result = "ok"]
                   ELSE [d EXCEPT !.events = d.events, !.result = "error"]
BY DEF Turn

(* Events are only ever added, and none after the end *)
LEMMA TurnAdds ==
  ASSUME NEW d \in Config
  PROVE  /\ Turn(d) \in Config /\ IsPrefixOf(d.events, Turn(d).events)
         /\ d.result # "open" => Turn(d) = d
<1>1. ASSUME NEW s \in Seq(Event), NEW t \in Seq(Event)
      PROVE  s \o t \in Seq(Event) /\ IsPrefixOf(s, s \o t)
  BY DEF IsPrefixOf
<1>2. /\ d.rest \in Seq(Byte) /\ d.state \in ParseState /\ d.events \in Seq(Event)
      /\ d.result \in {"open", "ok", "error"}
  BY DEF Config
<1>3. CASE d.result # "open"
  <2>1. Turn(d) = d
    BY <1>3 DEF Turn
  <2>2. IsPrefixOf(d.events, d.events)
    BY <1>2 DEF IsPrefixOf
  <2> QED BY <2>1, <2>2
<1>4. CASE d.result = "open" /\ d.rest = <<>>
  <2> DEFINE more == Append(d.events, Completed)
  <2>1. more \in Seq(Event) /\ IsPrefixOf(d.events, more) /\ IsPrefixOf(d.events, d.events)
    <3>1. Completed \in Event
      BY DEF Event
    <3> QED BY <1>2, <3>1 DEF IsPrefixOf
  <2>2. Turn(d) = IF MayFinish(d.state)
                   THEN [d EXCEPT !.events = more, !.result = "ok"]
                   ELSE [d EXCEPT !.events = d.events, !.result = "error"]
    BY <1>4, LastTurn
  <2> HIDE DEF more
  <2> QED BY <1>4, <2>1, <2>2 DEF Config
<1>5. CASE d.result = "open" /\ d.rest # <<>>
  <2> DEFINE c == FindEventBoundary(d.rest)
             event == IF c = 0 THEN d.rest ELSE SubSeq(d.rest, 1, c - 1)
             parsed == ParseSseEvent(event, d.state)
             after == Emitted(parsed)
             rest == IF c = 0 THEN <<>>
                     ELSE SubSeq(d.rest, c + (IF d.rest[c] = "r" THEN 4 ELSE 2), Len(d.rest))
             r == IF after = Fails THEN "error" ELSE IF after.completed THEN "ok" ELSE "open"
  <2>1. Turn(d) = [rest |-> rest, state |-> after, events |-> d.events \o parsed.batch, result |-> r]
    BY <1>5, TurnTakes
  <2>2. rest \in Seq(Byte)
    <3>1. CASE c = 0
      BY <3>1
    <3>2. CASE c # 0
      <4> DEFINE w == IF d.rest[c] = "r" THEN 4 ELSE 2
      <4>1. c \in 1 .. Len(d.rest) /\ c + w - 1 <= Len(d.rest) /\ w \in {2, 4}
        BY <1>2, <3>2, BoundaryBytes
      <4> HIDE DEF c, w
      <4>2. c + w \in 1 .. Len(d.rest) + 1
        BY <1>2, <4>1
      <4>3. SubSeq(d.rest, c + w, Len(d.rest)) \in Seq(Byte)
        BY <1>2, <4>2, Suffix
      <4> QED BY <3>2, <4>3 DEF w
    <3> QED BY <3>1, <3>2
  <2>3. Decoded(parsed, d.state)
    BY <1>2, EventDecodes
  <2> HIDE DEF parsed
  <2>4. after \in ParseState /\ parsed.batch \in Seq(Event)
    BY <1>2, <2>3, BatchEmits
  <2>5. r \in {"open", "ok", "error"}
    OBVIOUS
  <2> HIDE DEF rest, after, r
  <2>6. d.events \o parsed.batch \in Seq(Event) /\ IsPrefixOf(d.events, d.events \o parsed.batch)
    BY <1>1, <1>2, <2>4
  <2> DEFINE now == d.events \o parsed.batch
  <2>7. now \in Seq(Event) /\ IsPrefixOf(d.events, now)
    BY <2>6
  <2>8. Turn(d) = [rest |-> rest, state |-> after, events |-> now, result |-> r]
    BY <2>1
  <2> HIDE DEF now
  <2>9. Turn(d) \in Config /\ Turn(d).events = now
    BY <2>2, <2>4, <2>5, <2>7, <2>8 DEF Config
  <2> QED BY <1>5, <2>7, <2>9
<1> QED BY <1>2, <1>3, <1>4, <1>5

(* What has been decoded at some turn is the beginning of the whole, and   *)
(* all of it if the loop had ended                                         *)
LEMMA TurnsGrow ==
  ASSUME NEW bytes \in Seq(Byte), NEW n \in 0 .. Len(bytes) + 1
  PROVE  LET d == TurnsOf(bytes)[n] IN
         /\ d \in Config /\ IsPrefixOf(d.events, Decode(bytes).events)
         /\ d.result # "open" => Decode(bytes) = d
<1> DEFINE N == Len(bytes) + 1
           g == TurnsOf(bytes)
<1>1. N \in Nat /\ Len(bytes) \in Nat
  OBVIOUS
<1>2. /\ g[0] = Start(bytes) /\ Decode(bytes) = g[N]
      /\ \A i \in 0 .. N - 1 : g[i + 1] = Turn(g[i])
  <2>1. N - 1 = Len(bytes)
    BY <1>1
  <2> QED BY <1>1, <2>1, TurnsAre
<1>3. n \in 0 .. N
  OBVIOUS
<1> HIDE DEF N, g
<1>4. \A i \in 0 .. N : g[i] \in Config
  <2> DEFINE Bad == {i \in 0 .. N : g[i] \notin Config}
  <2>1. ASSUME Bad # {} PROVE FALSE
    <3>1. Bad \in SUBSET Nat
      OBVIOUS
    <3>2. PICK m \in Bad : \A k \in Bad : m <= k
      <4> HIDE DEF Bad
      <4> QED BY <2>1, <3>1, LeastExists
    <3>3. m # 0
      <4>1. <<>> \in Seq(Event)
        OBVIOUS
      <4>2. Start(bytes) \in Config
        BY <4>1, FailsIsState DEF Start, Config
      <4> QED BY <1>2, <4>2
    <3>4. m - 1 \in 0 .. N /\ ~ (m <= m - 1) /\ m - 1 \in 0 .. N - 1 /\ (m - 1) + 1 = m
      BY <1>1, <3>3
    <3>5. g[m - 1] \in Config
      BY <3>2, <3>4
    <3>6. g[m] = Turn(g[m - 1])
      BY <1>2, <3>4
    <3> QED BY <3>5, <3>6, TurnAdds
  <2> HIDE DEF Bad
  <2>2. Bad = {}
    BY <2>1
  <2> QED BY <2>2 DEF Bad
<1>5. \A i \in n .. N : /\ IsPrefixOf(g[n].events, g[i].events)
                        /\ g[n].result # "open" => g[i] = g[n]
  <2> DEFINE Good(i) == /\ IsPrefixOf(g[n].events, g[i].events)
                        /\ g[n].result # "open" => g[i] = g[n]
             Bad == {i \in n .. N : ~Good(i)}
  <2>1. ASSUME Bad # {} PROVE FALSE
    <3>1. Bad \in SUBSET Nat
      BY <1>3
    <3>2. PICK m \in Bad : \A k \in Bad : m <= k
      <4> HIDE DEF Bad
      <4> QED BY <2>1, <3>1, LeastExists
    <3>3. m \in n .. N /\ ~Good(m) /\ m \in Nat
      BY <1>3
    <3>4. m # n
      <4>1. g[n].events \in Seq(Event)
        BY <1>3, <1>4 DEF Config
      <4>2. IsPrefixOf(g[n].events, g[n].events)
        BY <4>1 DEF IsPrefixOf
      <4> QED BY <3>3, <4>2
    <3>5. /\ m - 1 \in n .. N /\ ~ (m <= m - 1) /\ m - 1 \in 0 .. N - 1 /\ (m - 1) + 1 = m
          /\ m - 1 \in 0 .. N /\ m \in 0 .. N
      BY <1>1, <1>3, <3>3, <3>4
    <3>6. Good(m - 1)
      BY <3>2, <3>5
    <3>7. g[m] = Turn(g[m - 1]) /\ g[m - 1] \in Config /\ g[m] \in Config /\ g[n] \in Config
      BY <1>2, <1>3, <1>4, <3>5
    <3>8. IsPrefixOf(g[m - 1].events, g[m].events) /\ (g[m - 1].result # "open" => g[m] = g[m - 1])
      BY <3>7, TurnAdds
    <3>9. ASSUME NEW x \in Seq(Event), NEW y \in Seq(Event), NEW z \in Seq(Event),
                 IsPrefixOf(x, y), IsPrefixOf(y, z)
          PROVE  IsPrefixOf(x, z)
      BY <3>9 DEF IsPrefixOf
    <3>10. /\ g[n].events \in Seq(Event) /\ g[m - 1].events \in Seq(Event)
           /\ g[m].events \in Seq(Event)
      BY <3>7 DEF Config
    <3>11. IsPrefixOf(g[n].events, g[m].events)
      BY <3>6, <3>8, <3>9, <3>10
    <3>12. g[n].result # "open" => g[m] = g[n]
      BY <3>6, <3>8
    <3> QED BY <3>3, <3>11, <3>12
  <2> HIDE DEF Bad
  <2>2. Bad = {}
    BY <2>1
  <2> QED BY <2>2 DEF Bad
<1>6. N \in n .. N
  BY <1>1, <1>3
<1> QED BY <1>2, <1>3, <1>4, <1>5, <1>6 DEF g

---------------------------------------------------------------------------
(* The stream: the invariant.                                              *)

(* What is still to be decoded: what has arrived and what has not *)
Ahead == buffer \o SubSeq(wire, pos + 1, Len(wire))

(* The loop over the whole response is, after n turns, where the program is *)
InStep(d, n) ==
  /\ d.events = out
  /\ result \in {"ok", "error"} => d.result = result
  /\ result = "open" =>
       /\ d = [rest |-> Ahead, state |-> parse, events |-> out, result |-> "open"]
       /\ n + Len(Ahead) <= Len(wire)

StreamTypes ==
  /\ wire \in Seq(Byte) /\ pos \in 0 .. Len(wire) /\ buffer \in Seq(Byte)
  /\ parse \in ParseState /\ out \in Seq(Event)
  /\ result \in {"open", "ok", "error", "broken", "output_limit"}

StreamInv ==
  /\ StreamTypes
  /\ result = "open" =>
       ~parse.completed /\ OneEnding(Ahead) /\ \A i \in 1 .. Len(out) : out[i] # Completed
  /\ result = "ok" => \A i \in 1 .. Len(out) : out[i] = Completed <=> i = Len(out)
  /\ \E n \in 0 .. Len(wire) + 1 : InStep(TurnsOf(wire)[n], n)

LEMMA StreamInvInit ==
  StreamInit => StreamInv
<1> SUFFICES ASSUME StreamInit PROVE StreamInv
  OBVIOUS
<1>1. /\ wire \in Seq(Byte) /\ OneEnding(wire) /\ pos = 0 /\ buffer = <<>>
      /\ parse = FreshState /\ out = <<>> /\ result = "open"
  BY WiresHaveOneEnding DEF StreamInit
<1>2. Ahead = wire
  <2>1. SubSeq(wire, 1, Len(wire)) = wire
    BY <1>1, SubSeqFull
  <2>2. pos + 1 = 1
    BY <1>1
  <2> QED BY <1>1, <2>1, <2>2 DEF Ahead
<1>3. StreamTypes
  BY <1>1, FailsIsState DEF StreamTypes
<1>4. TurnsOf(wire)[0] = [rest |-> Ahead, state |-> parse, events |-> out, result |-> "open"]
  BY <1>1, <1>2, TurnsAre DEF Start
<1>5. 0 + Len(Ahead) <= Len(wire) /\ 0 \in 0 .. Len(wire) + 1
  BY <1>1, <1>2
<1>6. InStep(TurnsOf(wire)[0], 0)
  BY <1>1, <1>4, <1>5 DEF InStep
<1> QED BY <1>1, <1>2, <1>3, <1>5, <1>6, FailsIsState DEF StreamInv

(* A fragment moves bytes from the wire to the buffer *)
LEMMA ReceiveKeeps ==
  StreamInv /\ Receive => StreamInv'
<1> SUFFICES ASSUME StreamInv, Receive PROVE StreamInv'
  OBVIOUS
<1>1. PICK n \in 1 .. Len(wire) - pos :
        IF Len(buffer) + n > MaxBuffer
        THEN result' = "output_limit" /\ UNCHANGED <<pos, buffer>>
        ELSE /\ buffer' = buffer \o SubSeq(wire, pos + 1, pos + n) /\ pos' = pos + n
             /\ UNCHANGED result
  BY DEF Receive, Returns
<1>2. result = "open" /\ UNCHANGED <<wire, parse, out>>
  BY DEF Receive
<1>3. StreamTypes
  BY DEF StreamInv
<1>4. PICK m \in 0 .. Len(wire) + 1 : InStep(TurnsOf(wire)[m], m)
  BY DEF StreamInv
<1>5. CASE result' = "output_limit" /\ UNCHANGED <<pos, buffer>>
  <2>1. InStep(TurnsOf(wire)[m], m)'
    BY <1>2, <1>4, <1>5 DEF InStep
  <2>2. StreamTypes'
    BY <1>2, <1>3, <1>5 DEF StreamTypes
  <2> QED BY <1>2, <1>5, <2>1, <2>2 DEF StreamInv
<1>6. CASE buffer' = buffer \o SubSeq(wire, pos + 1, pos + n) /\ pos' = pos + n /\ UNCHANGED result
  <2> DEFINE new == SubSeq(wire, pos + 1, pos + n)
             left == SubSeq(wire, pos + n + 1, Len(wire))
  <2>1. /\ wire \in Seq(Byte) /\ pos \in Nat /\ Len(wire) \in Nat /\ n \in Nat
        /\ pos + n <= Len(wire) /\ n >= 1 /\ buffer \in Seq(Byte)
    BY <1>3 DEF StreamTypes
  <2>2. new \o left = SubSeq(wire, pos + 1, Len(wire))
    <3>1. /\ pos + 1 \in 1 .. Len(wire) + 1 /\ pos + n \in pos + 1 - 1 .. Len(wire)
          /\ Len(wire) \in pos + n .. Len(wire)
      BY <2>1
    <3> QED BY <2>1, <3>1, ConcatAdjacentSubSeq
  <2>3. left \in Seq(Byte)
    <3>1. pos + n + 1 \in 1 .. Len(wire) + 1
      BY <2>1
    <3> QED BY <2>1, <3>1, Suffix
  <2>4. new \in Seq(Byte)
    <3> DEFINE a == pos + 1
               b == pos + n
    <3>1. a \in Int /\ b \in Int /\ \A j \in a .. b : wire[j] \in Byte
      BY <2>1
    <3> HIDE DEF a, b
    <3>2. SubSeq(wire, a, b) \in Seq(Byte)
      BY <3>1, SubSeqProperties
    <3> QED BY <3>2 DEF a, b
  <2>5. (buffer \o new) \o left = buffer \o (new \o left) /\ buffer \o new \in Seq(Byte)
    <3> HIDE DEF new, left
    <3>1. ASSUME NEW x \in Seq(Byte), NEW y \in Seq(Byte), NEW z \in Seq(Byte)
          PROVE  (x \o y) \o z = x \o (y \o z) /\ x \o y \in Seq(Byte)
      <4>1. x \o y \in Seq(Byte)
        OBVIOUS
      <4> QED BY <4>1, ConcatAssociative
    <3>2. buffer \in Seq(Byte)
      BY <2>1
    <3> QED BY <2>3, <2>4, <3>1, <3>2, Zenon
  <2>6. Ahead' = Ahead
    <3>1. Ahead' = (buffer \o new) \o left
      BY <1>2, <1>6 DEF Ahead
    <3> QED BY <2>2, <2>5, <3>1 DEF Ahead
  <2>7. InStep(TurnsOf(wire)[m], m)'
    BY <1>2, <1>4, <1>6, <2>6 DEF InStep
  <2>8. StreamTypes'
    <3>1. pos' \in 0 .. Len(wire)
      BY <1>6, <2>1
    <3>2. buffer' \in Seq(Byte)
      BY <1>6, <2>5
    <3> QED BY <1>2, <1>3, <1>6, <3>1, <3>2 DEF StreamTypes
  <2> QED BY <1>2, <1>6, <2>6, <2>7, <2>8 DEF StreamInv
<1> QED BY <1>1, <1>5, <1>6

(* The program decodes the same event as the loop would next, and is left  *)
(* with the same bytes                                                     *)
LEMMA EmitKeeps ==
  ASSUME StreamInv, result = "open", NEW event, NEW rest \in Seq(Byte), Emits(event, rest),
         UNCHANGED <<wire, pos>>, Ahead # <<>>,
         event = (IF FindEventBoundary(Ahead) = 0 THEN Ahead
                  ELSE SubSeq(Ahead, 1, FindEventBoundary(Ahead) - 1)),
         Ahead' = (IF FindEventBoundary(Ahead) = 0 THEN <<>>
                   ELSE LET c == FindEventBoundary(Ahead) IN
                        SubSeq(Ahead, c + (IF Ahead[c] = "r" THEN 4 ELSE 2), Len(Ahead))),
         Ahead' \in Seq(Byte), OneEnding(Ahead'), Len(Ahead') < Len(Ahead)
  PROVE  StreamInv'
<1>1. StreamTypes /\ ~parse.completed /\ \A i \in 1 .. Len(out) : out[i] # Completed
  BY DEF StreamInv
<1>2. PICK n \in 0 .. Len(wire) + 1 : InStep(TurnsOf(wire)[n], n)
  BY DEF StreamInv
<1> DEFINE parsed == ParseSseEvent(event, parse)
           after == Emitted(parsed)
           d == TurnsOf(wire)[n]
           e == TurnsOf(wire)[n + 1]
           r == IF after = Fails THEN "error" ELSE IF after.completed THEN "ok" ELSE "open"
<1>3. /\ buffer' = rest /\ parse' = after /\ out' = out \o parsed.batch /\ result' = r
  <2>1. /\ buffer' = rest /\ parse' = after /\ out' = out \o parsed.batch
        /\ CASE after = Fails    -> result' = "error"
             [] after.completed  -> result' = "ok"
             [] OTHER            -> UNCHANGED result
    BY DEF Emits, Returns
  <2> HIDE DEF after
  <2> QED BY <2>1, FailsIsState
<1>4. /\ d = [rest |-> Ahead, state |-> parse, events |-> out, result |-> "open"]
      /\ n + Len(Ahead) <= Len(wire)
  BY <1>2 DEF InStep
<1>5. Decoded(parsed, parse)
  BY <1>1, EventDecodes DEF StreamTypes
<1>6. d \in Config /\ Ahead \in Seq(Byte) /\ wire \in Seq(Byte) /\ Len(wire) \in Nat
  <2>1. wire \in Seq(Byte) /\ Len(wire) \in Nat
    BY <1>1 DEF StreamTypes
  <2>2. d \in Config
    BY <2>1, TurnsGrow
  <2>3. d.rest = Ahead
    BY <1>4
  <2> QED BY <2>1, <2>2, <2>3 DEF Config
<1>7. n \in Nat /\ Len(Ahead) \in Nat /\ Len(Ahead) # 0 /\ Len(Ahead') \in Nat
  BY <1>6
<1>8. n \in 0 .. Len(wire) /\ n + 1 \in 0 .. Len(wire) + 1 /\ n + 1 + Len(Ahead') <= Len(wire)
  BY <1>4, <1>6, <1>7
<1>9. e = Turn(d)
  BY <1>6, <1>8, TurnsAre
<1>10. Turn(d) = [rest |-> Ahead', state |-> after, events |-> out \o parsed.batch, result |-> r]
  <2> DEFINE c == FindEventBoundary(Ahead)
             left == IF c = 0 THEN <<>>
                     ELSE SubSeq(Ahead, c + (IF Ahead[c] = "r" THEN 4 ELSE 2), Len(Ahead))
             now == IF c = 0 THEN Ahead ELSE SubSeq(Ahead, 1, c - 1)
  <2>1. event = now /\ Ahead' = left
    OBVIOUS
  <2>2. d.rest = Ahead /\ d.state = parse /\ d.events = out /\ d.result = "open"
    BY <1>4
  <2>3. d.rest # <<>>
    BY <2>2
  <2> HIDE DEF d
  <2>4. Turn(d) = [rest |-> left, state |-> Emitted(ParseSseEvent(now, parse)),
                   events |-> out \o ParseSseEvent(now, parse).batch,
                   result |-> IF Emitted(ParseSseEvent(now, parse)) = Fails THEN "error"
                              ELSE IF Emitted(ParseSseEvent(now, parse)).completed THEN "ok"
                              ELSE "open"]
    BY <1>6, <2>2, <2>3, TurnTakes
  <2> HIDE DEF left, now
  <2> QED BY <2>1, <2>4
<1> HIDE DEF parsed, d, e
<1>11. /\ after \in ParseState /\ parsed.batch \in Seq(Event) /\ Len(parsed.batch) <= 1
       /\ after.completed <=> parsed.batch = <<Completed>>
       /\ parsed.batch # <<Completed>> => \A i \in 1 .. Len(parsed.batch) : parsed.batch[i] # Completed
  BY <1>1, <1>5, BatchEmits DEF StreamTypes
<1>12. out \in Seq(Event)
  BY <1>1 DEF StreamTypes
<1>13. r \in {"open", "ok", "error"} /\ (r = "open" => ~after.completed) /\ (r = "ok" => after.completed)
  OBVIOUS
<1> HIDE DEF after, r
<1>14. StreamTypes'
  <2>1. out \o parsed.batch \in Seq(Event)
    BY <1>11, <1>12
  <2> QED BY <1>1, <1>3, <1>11, <1>13, <2>1 DEF StreamTypes
<1>15. InStep(e, n + 1)'
  <2>1. e' = e
    BY DEF e
  <2> QED BY <1>3, <1>8, <1>9, <1>10, <2>1 DEF InStep
<1>16. ASSUME result' = "open"
       PROVE  ~parse'.completed /\ \A i \in 1 .. Len(out') : out'[i] # Completed
  <2>1. ~after.completed /\ parsed.batch # <<Completed>>
    BY <1>3, <1>11, <1>13, <1>16
  <2> DEFINE batch == parsed.batch
             k == Len(out)
  <2>2. batch \in Seq(Event) /\ out' = out \o batch /\ Len(out) = k
    BY <1>3, <1>11
  <2>3. /\ \A i \in 1 .. Len(batch) : batch[i] # Completed
        /\ \A i \in 1 .. k : out[i] # Completed
    BY <1>1, <1>11, <2>1
  <2> HIDE DEF batch, k
  <2>4. /\ Len(out \o batch) = k + Len(batch)
        /\ \A i \in 1 .. k : (out \o batch)[i] = out[i]
        /\ \A i \in 1 .. Len(batch) : (out \o batch)[k + i] = batch[i]
    <3>1. out \in Seq(Event) /\ batch \in Seq(Event) /\ Len(out) = k
      BY <1>12, <2>2
    <3>2. /\ Len(out \o batch) = k + Len(batch)
          /\ \A j \in 1 .. k : (out \o batch)[j] = out[j]
          /\ \A j \in 1 .. Len(batch) : (out \o batch)[k + j] = batch[j]
      BY <3>1, ConcatAt
    <3> QED BY <3>2
  <2>5. Len(batch) \in Nat /\ k \in Nat
    BY <1>12, <2>2
  <2>6. ASSUME NEW i \in 1 .. Len(out') PROVE out'[i] # Completed
    <3>1. CASE i \in 1 .. k
      BY <2>2, <2>3, <2>4, <3>1
    <3>2. CASE i \notin 1 .. k
      <4>1. i - k \in 1 .. Len(batch) /\ i = k + (i - k)
        BY <2>2, <2>4, <2>5, <3>2
      <4> QED BY <2>2, <2>3, <2>4, <4>1
    <3> QED BY <3>1, <3>2
  <2> QED BY <1>3, <2>1, <2>6
<1>17. ASSUME result' = "ok"
       PROVE  \A i \in 1 .. Len(out') : out'[i] = Completed <=> i = Len(out')
  <2>1. parsed.batch = <<Completed>>
    BY <1>3, <1>11, <1>13, <1>17
  <2>2. out' = out \o <<Completed>>
    BY <1>3, <2>1
  <2> HIDE DEF parsed
  <2>3. Completed \in Event
    BY DEF Event
  <2>4. Len(out') = Len(out) + 1 /\ Len(out) \in Nat
    BY <1>12, <2>2, <2>3
  <2>5. \A i \in 1 .. Len(out) : out'[i] = out[i]
    BY <1>12, <2>2, <2>3
  <2>6. out'[Len(out) + 1] = Completed
    BY <1>12, <2>2, <2>3
  <2> QED BY <1>1, <2>4, <2>5, <2>6
<1>18. wire' = wire /\ e = TurnsOf(wire)[n + 1]
  BY DEF e
<1>19. \E m \in 0 .. Len(wire') + 1 : InStep(TurnsOf(wire)[m], m)'
  BY <1>8, <1>15, <1>18 DEF e
<1>20. (\E m \in 0 .. Len(wire) + 1 : InStep(TurnsOf(wire)[m], m))'
  BY <1>19
<1> QED BY <1>14, <1>16, <1>17, <1>20 DEF StreamInv

LEMMA EmitEventKeeps ==
  StreamInv /\ EmitEvent => StreamInv'
<1> SUFFICES ASSUME StreamInv, EmitEvent PROVE StreamInv'
  OBVIOUS
<1> DEFINE c == FindEventBoundary(buffer)
           t == SubSeq(wire, pos + 1, Len(wire))
           tail == SubSeq(buffer, c, Len(buffer))
           rest == SubSeq(tail, EventDelimiterLen(tail) + 1, Len(tail))
           event == SubSeq(buffer, 1, c - 1)
           w == IF Ahead[c] = "r" THEN 4 ELSE 2
<1>1. result = "open" /\ c # 0 /\ Emits(event, rest) /\ UNCHANGED <<wire, pos>>
  BY DEF EmitEvent
<1>2. buffer \in Seq(Byte) /\ wire \in Seq(Byte) /\ pos \in 0 .. Len(wire) /\ OneEnding(Ahead)
  BY <1>1 DEF StreamInv, StreamTypes
<1>3. t \in Seq(Byte)
  <2>1. pos + 1 \in 1 .. Len(wire) + 1
    BY <1>2
  <2> QED BY <1>2, <2>1, Suffix
<1>4. Ahead = buffer \o t
  BY DEF Ahead
<1> HIDE DEF t
<1>5. /\ FindEventBoundary(Ahead) = c /\ SubSeq(Ahead, 1, c - 1) = event
      /\ rest \in Seq(Byte) /\ rest \o t = SubSeq(Ahead, c + w, Len(Ahead))
      /\ OneEnding(rest \o t) /\ Len(rest \o t) < Len(Ahead)
  <2> DEFINE u == buffer \o t
             v == IF u[c] = "r" THEN 4 ELSE 2
  <2>1. /\ FindEventBoundary(u) = c /\ SubSeq(u, 1, c - 1) = event
        /\ rest \in Seq(Byte) /\ rest \o t = SubSeq(u, c + v, Len(u))
        /\ OneEnding(rest \o t) /\ Len(rest \o t) < Len(u)
    <3>1. OneEnding(u) /\ FindEventBoundary(buffer) # 0
      BY <1>1, <1>2, <1>4
    <3> QED BY <1>2, <1>3, <3>1, CuttingIsLocal
  <2> HIDE DEF c, rest, event
  <2> QED BY <1>4, <2>1
<1>6. Ahead' = rest \o t
  <2>1. buffer' = rest /\ t' = t
    BY <1>1 DEF Emits, t
  <2>2. Ahead' = buffer' \o t'
    BY DEF Ahead, t
  <2> QED BY <2>1, <2>2
<1> HIDE DEF rest
<1>7. rest \o t \in Seq(Byte) /\ Ahead # <<>>
  <2>1. Ahead \in Seq(Byte)
    BY <1>2, <1>3, <1>4
  <2>2. rest \o t \in Seq(Byte)
    <3>1. rest \in Seq(Byte)
      BY <1>5
    <3> QED BY <1>3, <3>1
  <2>3. Len(rest \o t) \in Nat
    BY <2>2
  <2> QED BY <1>5, <2>1, <2>2, <2>3
<1> HIDE DEF c, tail, event
<1> QED BY <1>1, <1>5, <1>6, <1>7, EmitKeeps

LEMMA EmitRestKeeps ==
  StreamInv /\ EmitRest => StreamInv'
<1> SUFFICES ASSUME StreamInv, EmitRest PROVE StreamInv'
  OBVIOUS
<1>1. /\ result = "open" /\ pos = Len(wire) /\ FindEventBoundary(buffer) = 0 /\ buffer # <<>>
      /\ Emits(buffer, <<>>) /\ UNCHANGED <<wire, pos>>
  BY DEF EmitRest
<1>2. buffer \in Seq(Byte) /\ wire \in Seq(Byte) /\ Len(wire) \in Nat
  BY <1>1 DEF StreamInv, StreamTypes
<1>3. SubSeq(wire, pos + 1, Len(wire)) = <<>>
  BY <1>1, <1>2, SubSeqEmpty
<1>4. Ahead = buffer
  <2>1. buffer \o <<>> = buffer
    BY <1>2, ConcatEmptySeq
  <2> QED BY <1>3, <2>1 DEF Ahead
<1>5. Ahead' = <<>>
  <2>1. buffer' = <<>> /\ SubSeq(wire, pos + 1, Len(wire))' = <<>>
    BY <1>1, <1>3 DEF Emits
  <2>2. <<>> \o <<>> = <<>>
    OBVIOUS
  <2> QED BY <2>1, <2>2 DEF Ahead
<1>6. /\ <<>> \in Seq(Byte) /\ Len(<<>>) < Len(Ahead) /\ OneEnding(<<>>)
  <2>1. Positions(<<>>, CRLF2) = {}
    BY DEF Positions
  <2> QED BY <1>1, <1>2, <1>4, <2>1 DEF OneEnding
<1> QED BY <1>1, <1>4, <1>5, <1>6, EmitKeeps

LEMMA FinishKeeps ==
  StreamInv /\ FinishStream => StreamInv'
<1> SUFFICES ASSUME StreamInv, FinishStream PROVE StreamInv'
  OBVIOUS
<1>1. /\ result = "open" /\ pos = Len(wire) /\ buffer = <<>> /\ UNCHANGED <<wire, pos, buffer, parse>>
      /\ IF MayFinish(parse) THEN result' = "ok" /\ out' = Append(out, Completed)
         ELSE result' = "error" /\ UNCHANGED out
  BY DEF FinishStream, Returns
<1>2. StreamTypes /\ \A i \in 1 .. Len(out) : out[i] # Completed
  BY <1>1 DEF StreamInv
<1>3. wire \in Seq(Byte) /\ Len(wire) \in Nat /\ out \in Seq(Event) /\ Completed \in Event
  BY <1>2 DEF StreamTypes, Event
<1>4. Ahead = <<>>
  <2>1. SubSeq(wire, pos + 1, Len(wire)) = <<>>
    BY <1>1, <1>3, SubSeqEmpty
  <2>2. <<>> \o <<>> = <<>>
    OBVIOUS
  <2> QED BY <1>1, <2>1, <2>2 DEF Ahead
<1>5. PICK n \in 0 .. Len(wire) + 1 : InStep(TurnsOf(wire)[n], n)
  BY DEF StreamInv
<1> DEFINE d == TurnsOf(wire)[n]
<1>6. /\ d = [rest |-> <<>>, state |-> parse, events |-> out, result |-> "open"]
      /\ n <= Len(wire)
  <2>1. n + Len(<<>>) <= Len(wire)
    BY <1>1, <1>4, <1>5 DEF InStep
  <2> QED BY <1>1, <1>3, <1>4, <1>5, <2>1 DEF InStep
<1>7. d \in Config /\ n \in 0 .. Len(wire) /\ n + 1 \in 0 .. Len(wire) + 1
  BY <1>3, <1>6, TurnsGrow
<1> DEFINE e == TurnsOf(wire)[n + 1]
<1>8. e = Turn(d)
  BY <1>3, <1>7, TurnsAre
<1>9. e = IF MayFinish(d.state)
          THEN [d EXCEPT !.events = Append(d.events, Completed), !.result = "ok"]
          ELSE [d EXCEPT !.events = d.events, !.result = "error"]
  BY <1>6, <1>7, <1>8, LastTurn
<1> HIDE DEF d, e
<1>10. e.events = out' /\ e.result = result'
  BY <1>1, <1>6, <1>9
<1>11. InStep(e, n + 1)'
  <2>1. e' = e
    BY <1>1 DEF e
  <2> QED BY <1>1, <1>10, <2>1 DEF InStep
<1>12. (\E m \in 0 .. Len(wire) + 1 : InStep(TurnsOf(wire)[m], m))'
  <2>1. \E m \in 0 .. Len(wire') + 1 : InStep(TurnsOf(wire)[m], m)'
    BY <1>1, <1>7, <1>11 DEF e
  <2> QED BY <2>1
<1>13. StreamTypes'
  BY <1>1, <1>2, <1>3 DEF StreamTypes
<1>14. ASSUME result' = "ok"
       PROVE  \A i \in 1 .. Len(out') : out'[i] = Completed <=> i = Len(out')
  <2>1. /\ out' = Append(out, Completed) /\ Len(out') = Len(out) + 1 /\ Len(out) \in Nat
        /\ out'[Len(out) + 1] = Completed /\ \A i \in 1 .. Len(out) : out'[i] = out[i]
    BY <1>1, <1>3, <1>14
  <2> QED BY <1>2, <2>1
<1> QED BY <1>1, <1>12, <1>13, <1>14 DEF StreamInv

LEMMA StreamInvStep ==
  StreamInv /\ [StreamNext]_streamVars => StreamInv'
<1> SUFFICES ASSUME StreamInv, [StreamNext]_streamVars PROVE StreamInv'
  OBVIOUS
<1>1. CASE StreamBreaks
  <2>1. UNCHANGED <<wire, pos, buffer, parse, out>> /\ result' = "broken"
    BY <1>1 DEF StreamBreaks, Returns
  <2>2. PICK n \in 0 .. Len(wire) + 1 : InStep(TurnsOf(wire)[n], n)
    BY DEF StreamInv
  <2>3. InStep(TurnsOf(wire)[n], n)'
    BY <2>1, <2>2 DEF InStep
  <2>4. StreamTypes'
    BY <2>1 DEF StreamInv, StreamTypes
  <2> QED BY <2>1, <2>3, <2>4 DEF StreamInv
<1>2. CASE UNCHANGED streamVars
  BY <1>2 DEF streamVars, StreamInv, StreamTypes, InStep, Ahead
<1> QED BY <1>1, <1>2, ReceiveKeeps, EmitEventKeeps, EmitRestKeeps, FinishKeeps DEF StreamNext

(* xai_subscription.rs:1737 parse_sse_response: however the bytes of a     *)
(* response arrive, the events handed on are the beginning of what the     *)
(* response says, a success is all of it with one completion at its end,   *)
(* and a failure of the response itself comes after all that precedes it.  *)
THEOREM StreamWhole == StreamSpec => []StreamIsWhole
<1>1. StreamInv => StreamIsWhole
  <2> SUFFICES ASSUME StreamInv PROVE StreamIsWhole
    OBVIOUS
  <2>1. wire \in Seq(Byte) /\ out \in Seq(Event)
    BY DEF StreamInv, StreamTypes
  <2>2. PICK n \in 0 .. Len(wire) + 1 : InStep(TurnsOf(wire)[n], n)
    BY DEF StreamInv
  <2> DEFINE d == TurnsOf(wire)[n]
  <2>3. /\ d \in Config /\ IsPrefixOf(d.events, Whole.events)
        /\ d.result # "open" => Whole = d
    BY <2>1, TurnsGrow DEF Whole
  <2>4. d.events = out /\ (result \in {"ok", "error"} => d.result = result)
    BY <2>2 DEF InStep
  <2> HIDE DEF d
  <2>5. Whole \in Config
    <3>1. Len(wire) + 1 \in 0 .. Len(wire) + 1
      BY <2>1
    <3> QED BY <2>1, <3>1, TurnsGrow, TurnsAre DEF Whole
  <2>6. IsPrefix(out, Whole.events)
    <3> DEFINE all == Whole.events
    <3>1. all \in Seq(Event) /\ IsPrefixOf(out, all)
      BY <2>3, <2>4, <2>5 DEF Config
    <3> HIDE DEF all
    <3>2. Len(out) <= Len(all) /\ Len(out) \in Nat /\ \A k \in 1 .. Len(out) : all[k] = out[k]
      BY <2>1, <3>1 DEF IsPrefixOf
    <3>3. SubSeq(out, 1, Len(out)) = SubSeq(all, 1, Len(out))
      <4> DEFINE x == SubSeq(out, 1, Len(out))
                 y == SubSeq(all, 1, Len(out))
      <4>1. x \in Seq(Event) /\ Len(x) = Len(out) /\ \A k \in 1 .. Len(out) : x[k] = out[k]
        BY <2>1, SubSeqFull
      <4>2. y \in Seq(Event) /\ Len(y) = Len(out) /\ \A k \in 1 .. Len(out) : y[k] = all[k]
        BY <3>1, <3>2
      <4> HIDE DEF x, y
      <4>3. x = y
        BY <3>2, <4>1, <4>2, SeqEqual
      <4> QED BY <4>3 DEF x, y
    <3> QED BY <3>2, <3>3 DEF IsPrefix, all
  <2>7. result \in {"ok", "error"} => out = Whole.events /\ result = Whole.result
    BY <2>3, <2>4
  <2>8. result = "ok" => \A i \in DOMAIN out : out[i] = Completed <=> i = Len(out)
    BY <2>1 DEF StreamInv
  <2> QED BY <2>6, <2>7, <2>8 DEF StreamIsWhole
<1> QED BY StreamInvInit, StreamInvStep, <1>1, PTL DEF StreamSpec

---------------------------------------------------------------------------
(* The source: members and their order.                                    *)

Member == [name : Nat \ {0}, body : Seq(Symbol)]

(* Members of one folder: no two of one name *)
Named(ms) ==
  /\ ms \in Seq(Member)
  /\ \A i, j \in 1 .. Len(ms) : ms[i].name = ms[j].name => i = j

Names(ms) == {m.name : m \in Range(ms)}

LEMMA NamesOf ==
  ASSUME NEW ms, Named(ms)
  PROVE  /\ Names(ms) \in SUBSET Nat /\ IsFiniteSet(Names(ms))
         /\ Cardinality(Names(ms)) = Len(ms) /\ Len(ms) \in Nat
         /\ Range(ms) = {ms[i] : i \in 1 .. Len(ms)}
         /\ IsFiniteSet(Range(ms)) /\ Cardinality(Range(ms)) = Len(ms)
         /\ \A m \in Range(ms) : m \in Member /\ m.name \in Names(ms)
         /\ \A l, m \in Range(ms) : l.name = m.name => l = m
<1> DEFINE n == Len(ms)
           b == [i \in 1 .. n |-> ms[i].name]
           c == [i \in 1 .. n |-> ms[i]]
<1>1. ms \in Seq(Member) /\ n \in Nat /\ DOMAIN ms = 1 .. n /\ \A i \in 1 .. n : ms[i] \in Member
  BY DEF Named
<1>2. Range(ms) = {ms[i] : i \in 1 .. n}
  BY <1>1 DEF Range
<1>3. Names(ms) = {ms[i].name : i \in 1 .. n}
  <2> HIDE DEF n
  <2> QED BY <1>2 DEF Names
<1>4. \A i, j \in 1 .. n : ms[i].name = ms[j].name => i = j
  BY DEF Named
<1>5. IsFiniteSet(1 .. n) /\ Cardinality(1 .. n) = n
  <2>1. n \in Int /\ 1 \in Int
    BY <1>1
  <2> HIDE DEF n
  <2>2. IsFiniteSet(1 .. n) /\ Cardinality(1 .. n) = IF 1 > n THEN 0 ELSE n - 1 + 1
    BY <2>1, FS_Interval
  <2> QED BY <1>1, <2>1, <2>2
<1> HIDE DEF n
<1>6. b \in Bijection(1 .. n, Names(ms))
  BY <1>3, <1>4 DEF Bijection, Injection, Surjection, IsInjective
<1>7. c \in Bijection(1 .. n, Range(ms))
  BY <1>2, <1>4 DEF Bijection, Injection, Surjection, IsInjective
<1>8. IsFiniteSet(Names(ms)) /\ Cardinality(Names(ms)) = n
  BY <1>5, <1>6, FS_Bijection DEF ExistsBijection
<1>9. IsFiniteSet(Range(ms)) /\ Cardinality(Range(ms)) = n
  BY <1>5, <1>7, FS_Bijection DEF ExistsBijection
<1>10. Names(ms) \in SUBSET Nat
  BY <1>1, <1>3 DEF Member
<1>11. \A m \in Range(ms) : m \in Member /\ m.name \in Names(ms)
  BY <1>1, <1>2, <1>3
<1>12. \A l, m \in Range(ms) : l.name = m.name => l = m
  BY <1>2, <1>4
<1> QED BY <1>1, <1>2, <1>8, <1>9, <1>10, <1>11, <1>12 DEF n

(* The k-th member has k - 1 members before it *)
RankIn(ms, m) == Cardinality({x \in Names(ms) : x < m.name})

LEMMA OrderedIs ==
  ASSUME NEW ms, Named(ms)
  PROVE  /\ Named(Ordered(ms)) /\ Len(Ordered(ms)) = Len(ms)
         /\ Range(Ordered(ms)) = Range(ms)
<1> DEFINE n == Len(ms)
           o == Ordered(ms)
           R == Range(ms)
           N == Names(ms)
<1>1. /\ N \in SUBSET Nat /\ IsFiniteSet(N) /\ Cardinality(N) = n /\ n \in Nat
      /\ \A m \in R : m \in Member /\ m.name \in N
      /\ \A l, m \in R : l.name = m.name => l = m
  BY NamesOf
<1>2. \A x \in N : \E m \in R : m.name = x
  BY DEF Names
<1>3. ms \in Seq(Member) /\ DOMAIN ms = 1 .. n
  BY DEF Named
<1>4. o = [k \in 1 .. n |-> CHOOSE m \in R : RankIn(ms, m) = k - 1]
  BY <1>3 DEF Ordered, RankIn, Names
<1> DEFINE rank(x) == Cardinality({y \in N : y < x})
<1>5. /\ \A x \in N : rank(x) \in Nat
      /\ {rank(x) : x \in N} = 0 .. n - 1
      /\ \A x, y \in N : x < y => rank(x) < rank(y)
  <2> HIDE DEF N, n
  <2>1. /\ \A m \in N : Cardinality({k \in N : k < m}) \in Nat
        /\ {Cardinality({k \in N : k < m}) : m \in N} = 0 .. Cardinality(N) - 1
        /\ \A m, p \in N : m < p =>
              Cardinality({k \in N : k < m}) < Cardinality({k \in N : k < p})
    BY <1>1, RanksAreAnInterval
  <2> QED BY <1>1, <2>1
<1>6. \A m \in R : RankIn(ms, m) = rank(m.name)
  BY DEF RankIn
<1> HIDE DEF rank, N, R, n
<1>7. ASSUME NEW k \in 1 .. n PROVE \E m \in R : RankIn(ms, m) = k - 1
  <2>1. k - 1 \in 0 .. n - 1
    BY <1>1
  <2>2. PICK x \in N : rank(x) = k - 1
    BY <1>5, <2>1
  <2>3. PICK m \in R : m.name = x
    BY <1>2
  <2> QED BY <1>6, <2>2, <2>3
<1> HIDE DEF o
<1>8. ASSUME NEW k \in 1 .. n PROVE o[k] \in R /\ RankIn(ms, o[k]) = k - 1
  BY <1>4, <1>7
<1>9. \A l, m \in R : RankIn(ms, l) = RankIn(ms, m) => l = m
  <2> SUFFICES ASSUME NEW l \in R, NEW m \in R, RankIn(ms, l) = RankIn(ms, m) PROVE l = m
    OBVIOUS
  <2> DEFINE x == l.name
             y == m.name
  <2>1. x \in N /\ y \in N /\ rank(x) = rank(y)
    BY <1>1, <1>6
  <2> HIDE DEF x, y
  <2>2. x \in Nat /\ y \in Nat /\ rank(x) \in Nat /\ ~ (x < y) /\ ~ (y < x)
    BY <1>1, <1>5, <2>1
  <2>3. x = y
    BY <2>2
  <2> QED BY <1>1, <2>3 DEF x, y
<1>10. \A m \in R : \E k \in 1 .. n : o[k] = m
  <2> SUFFICES ASSUME NEW m \in R PROVE \E k \in 1 .. n : o[k] = m
    OBVIOUS
  <2>1. RankIn(ms, m) \in 0 .. n - 1
    BY <1>1, <1>5, <1>6
  <2> DEFINE k == RankIn(ms, m) + 1
  <2>2. k \in 1 .. n /\ k - 1 = RankIn(ms, m)
    BY <1>1, <2>1
  <2> HIDE DEF k
  <2>3. o[k] = m
    BY <1>8, <1>9, <2>2
  <2> QED BY <2>2, <2>3
<1>11. o \in Seq(Member) /\ Len(o) = n /\ DOMAIN o = 1 .. n
  BY <1>1, <1>4, <1>8
<1>12. \A i, j \in 1 .. n : o[i].name = o[j].name => i = j
  <2> SUFFICES ASSUME NEW i \in 1 .. n, NEW j \in 1 .. n, o[i].name = o[j].name PROVE i = j
    OBVIOUS
  <2>1. o[i] = o[j]
    BY <1>1, <1>8
  <2>2. i - 1 = j - 1
    BY <1>8, <2>1
  <2> QED BY <1>1, <2>2
<1>13. Range(o) = R
  BY <1>8, <1>10, <1>11 DEF Range
<1>14. Named(o)
  BY <1>11, <1>12 DEF Named
<1> QED BY <1>11, <1>13, <1>14 DEF o, n, R

(* The order is that of the names, whatever order the members come in *)
LEMMA OrderedAlike ==
  ASSUME NEW ms, NEW ns, Named(ms), Named(ns), Range(ms) = Range(ns)
  PROVE  Ordered(ms) = Ordered(ns) /\ FrameFolderMembers(ms) = FrameFolderMembers(ns)
<1>1. Len(ms) = Len(ns)
  BY NamesOf
<1>2. DOMAIN ms = DOMAIN ns
  BY <1>1 DEF Named
<1>3. Ordered(ms) = Ordered(ns)
  BY <1>2 DEF Ordered
<1> QED BY <1>3 DEF FrameFolderMembers

LEMMA OrderedTwice ==
  ASSUME NEW ms, Named(ms)
  PROVE  FrameFolderMembers(Ordered(ms)) = FrameFolderMembers(ms)
BY OrderedIs, OrderedAlike

(* Members taken from a set in any order *)
LEMMA NamedFromSet ==
  ASSUME NEW ms, Named(ms)
  PROVE  Named(SetToSeq(Range(ms))) /\ Range(SetToSeq(Range(ms))) = Range(ms)
<1> DEFINE R == Range(ms)
           n == Len(ms)
           f == SetToSeq(R)
<1>1. /\ n \in Nat /\ R = {ms[i] : i \in 1 .. n} /\ IsFiniteSet(R) /\ Cardinality(R) = n
      /\ \A m \in R : m \in Member
      /\ \A l, m \in R : l.name = m.name => l = m
  BY NamesOf
<1>2. ms \in [1 .. n -> R] /\ IsInjective(ms)
  <2>1. ms \in Seq(Member) /\ \A i, j \in 1 .. n : ms[i].name = ms[j].name => i = j
    BY DEF Named
  <2>2. DOMAIN ms = 1 .. n /\ ms = [i \in 1 .. n |-> ms[i]]
    BY <2>1
  <2> HIDE DEF R, n
  <2>3. ms \in [1 .. n -> R]
    BY <1>1, <2>2
  <2>4. IsInjective(ms)
    BY <2>1, <2>2 DEF IsInjective
  <2> QED BY <2>3, <2>4
<1>3. f = CHOOSE g \in [1 .. n -> R] : IsInjective(g)
  BY <1>1 DEF SetToSeq
<1> HIDE DEF f, R, n
<1>4. f \in [1 .. n -> R] /\ IsInjective(f)
  BY <1>2, <1>3
<1>5. f \in Seq(Member) /\ Len(f) = n /\ DOMAIN f = 1 .. n
  BY <1>1, <1>4
<1>6. \A i, j \in 1 .. n : f[i].name = f[j].name => i = j
  BY <1>1, <1>4, <1>5 DEF IsInjective
<1>7. Named(f)
  BY <1>5, <1>6 DEF Named
<1>8. IsFiniteSet(Range(f)) /\ Cardinality(Range(f)) = n /\ Range(f) \in SUBSET R
  <2>1. Cardinality(Range(f)) = Len(f) /\ IsFiniteSet(Range(f))
    BY <1>7, NamesOf
  <2>2. Range(f) \in SUBSET R
    BY <1>4 DEF Range
  <2> QED BY <1>5, <2>1, <2>2
<1>9. Range(f) = R
  BY <1>1, <1>8, FS_Subset
<1> QED BY <1>7, <1>9 DEF f, R

---------------------------------------------------------------------------
(* The source: parsing undoes framing.                                     *)

Block(m) == Header(m.name, Len(m.body)) \o m.body

LEMMA BlockIs ==
  ASSUME NEW m \in Member
  PROVE  /\ Block(m) \in Seq(Symbol) /\ Len(Block(m)) = 4 + Len(m.body) /\ Len(m.body) \in Nat
         /\ Block(m)[1] = <<"member", 0>> /\ Block(m)[2] = <<"name", m.name>>
         /\ Block(m)[3] = <<"bytes", 0>> /\ Block(m)[4] = <<"length", Len(m.body)>>
         /\ \A k \in 1 .. Len(m.body) : Block(m)[4 + k] = m.body[k]
<1> DEFINE h == Header(m.name, Len(m.body))
           b == m.body
           n == 4
<1>1. b \in Seq(Symbol) /\ Len(b) \in Nat /\ m.name \in Nat
  BY DEF Member
<1>2. /\ <<"member", 0>> \in Symbol /\ <<"name", m.name>> \in Symbol
      /\ <<"bytes", 0>> \in Symbol /\ <<"length", Len(b)>> \in Symbol
  <2> HIDE DEF b
  <2> QED BY <1>1 DEF Symbol
<1>3. h \in Seq(Symbol) /\ Len(h) = n
  <2> HIDE DEF b
  <2> QED BY <1>2 DEF Header, b
<1>4. /\ h[1] = <<"member", 0>> /\ h[2] = <<"name", m.name>>
      /\ h[3] = <<"bytes", 0>> /\ h[4] = <<"length", Len(b)>>
  BY DEF Header
<1>5. Block(m) = h \o b
  BY DEF Block
<1>6. n = 4 /\ 1 \in 1 .. n /\ 2 \in 1 .. n /\ 3 \in 1 .. n /\ 4 \in 1 .. n
  OBVIOUS
<1> HIDE DEF n, h, b
<1>7. /\ h \o b \in Seq(Symbol) /\ Len(h \o b) = n + Len(b)
      /\ \A k \in 1 .. n : (h \o b)[k] = h[k]
      /\ \A k \in 1 .. Len(b) : (h \o b)[n + k] = b[k]
  BY <1>1, <1>3, ConcatAt
<1>8. \A k \in 1 .. Len(b) : (h \o b)[4 + k] = b[k]
  BY <1>6, <1>7
<1>9. Len(h \o b) = 4 + Len(b)
  BY <1>6, <1>7
<1> QED BY <1>1, <1>4, <1>5, <1>6, <1>7, <1>8, <1>9 DEF b

(* A turn over a text that begins with a framed member reads that member *)
LEMMA ParsesOne ==
  ASSUME NEW m \in Member, NEW rest \in Seq(Symbol), NEW found, IsPrefixOf(Block(m), rest)
  PROVE  ParseMember([rest |-> rest, found |-> found]) =
           [rest  |-> SubSeq(rest, Len(Block(m)) + 1, Len(rest)), found |-> Append(found, m)]
<1> DEFINE d == [rest |-> rest, found |-> found]
           len == Len(m.body)
<1>1. /\ len \in Nat /\ Len(Block(m)) = 4 + len
      /\ rest[1] = <<"member", 0>> /\ rest[2] = <<"name", m.name>>
      /\ rest[3] = <<"bytes", 0>> /\ rest[4] = <<"length", len>>
      /\ 4 + len <= Len(rest) /\ Len(rest) \in Nat
      /\ \A k \in 1 .. len : rest[4 + k] = m.body[k]
  <2>1. /\ len \in Nat /\ Len(Block(m)) = 4 + len
        /\ Block(m)[1] = <<"member", 0>> /\ Block(m)[2] = <<"name", m.name>>
        /\ Block(m)[3] = <<"bytes", 0>> /\ Block(m)[4] = <<"length", len>>
        /\ \A k \in 1 .. len : Block(m)[4 + k] = m.body[k]
    BY BlockIs
  <2> HIDE DEF len
  <2>2. /\ 1 \in 1 .. 4 + len /\ 2 \in 1 .. 4 + len /\ 3 \in 1 .. 4 + len /\ 4 \in 1 .. 4 + len
        /\ \A k \in 1 .. len : 4 + k \in 1 .. 4 + len
    BY <2>1
  <2>3. 4 + len <= Len(rest) /\ \A k \in 1 .. 4 + len : rest[k] = Block(m)[k]
    BY <2>1 DEF IsPrefixOf
  <2>4. /\ rest[1] = Block(m)[1] /\ rest[2] = Block(m)[2] /\ rest[3] = Block(m)[3]
        /\ rest[4] = Block(m)[4] /\ \A k \in 1 .. len : rest[4 + k] = Block(m)[4 + k]
    BY <2>2, <2>3
  <2> QED BY <2>1, <2>3, <2>4
<1> HIDE DEF len
<1>2. rest[2][1] = "name" /\ rest[2][2] = m.name /\ rest[4][1] = "length" /\ rest[4][2] = len
  BY <1>1
<1>3. SubSeq(rest, 1, 4) = Header(m.name, len)
  <2> DEFINE t == SubSeq(rest, 1, 4)
  <2>1. \A k \in 1 .. 4 : rest[k] \in Symbol
    BY <1>1
  <2>2. t \in Seq(Symbol) /\ Len(t) = 4 /\ \A k \in 1 .. 4 : t[k] = rest[k]
    BY <1>1, <2>1
  <2> HIDE DEF t
  <2>3. t = <<t[1], t[2], t[3], t[4]>>
    BY <2>2
  <2>4. t[1] = rest[1] /\ t[2] = rest[2] /\ t[3] = rest[3] /\ t[4] = rest[4]
    BY <2>2
  <2>5. t = <<rest[1], rest[2], rest[3], rest[4]>>
    BY <2>3, <2>4
  <2>6. t = Header(m.name, len)
    BY <1>1, <2>5 DEF Header
  <2> QED BY <2>6 DEF t
<1>4. IsHeader(rest)
  BY <1>1, <1>2, <1>3 DEF IsHeader
<1>5. rest # <<>>
  BY <1>1
<1>6. SubSeq(rest, 5, 4 + len) = m.body
  <2> DEFINE t == SubSeq(rest, 5, 4 + len)
             b == m.body
  <2>1. b \in Seq(Symbol) /\ Len(b) = len
    BY DEF Member, len
  <2>2. \A k \in 5 .. 4 + len : rest[k] \in Symbol
    BY <1>1
  <2>3. t \in Seq(Symbol) /\ Len(t) = len /\ \A k \in 1 .. len : t[k] = rest[4 + k]
    <3>1. 5 \in Int /\ 4 + len \in Int /\ 5 <= (4 + len) + 1 /\ (4 + len) - 5 + 1 = len
          /\ \A k \in 1 .. len : 5 + k - 1 = 4 + k
      BY <1>1
    <3>2. /\ t \in Seq(Symbol) /\ Len(t) = (4 + len) - 5 + 1
          /\ \A k \in 1 .. (4 + len) - 5 + 1 : t[k] = rest[5 + k - 1]
      BY <2>2, <3>1, SubSeqProperties
    <3> QED BY <3>1, <3>2
  <2> HIDE DEF t, b
  <2>4. \A k \in 1 .. len : t[k] = b[k]
    BY <1>1, <2>3 DEF b
  <2>5. t = b
    BY <2>1, <2>3, <2>4
  <2> QED BY <2>5 DEF t, b
<1>7. m = [name |-> m.name, body |-> m.body]
  BY DEF Member
<1>8. d.rest = rest /\ d.found = found
  OBVIOUS
<1> HIDE DEF d
<1>9. ParseMember(d) = [rest  |-> SubSeq(rest, 4 + len + 1, Len(rest)),
                        found |-> Append(found, [name |-> m.name, body |-> m.body])]
  <2> DEFINE end == 4 + d.rest[4][2]
             lost == [rest |-> <<>>, found |-> Malformed]
             next == [rest  |-> SubSeq(d.rest, end + 1, Len(d.rest)),
                      found |-> Append(d.found, [name |-> d.rest[2][2], body |-> SubSeq(d.rest, 5, end)])]
             empty == d.rest = <<>>
             bad == d.rest # <<>> /\ (IsHeader(d.rest) => end > Len(d.rest))
  <2>1. ParseMember(d) = CASE empty -> d [] bad -> lost [] OTHER -> next
    BY DEF ParseMember
  <2>2. end = 4 + len
    BY <1>2, <1>8
  <2>3. ~ empty /\ ~ bad
    <3>1. ~ (4 + len > Len(rest))
      BY <1>1
    <3> QED BY <1>4, <1>5, <1>8, <2>2, <3>1
  <2>4. next = [rest  |-> SubSeq(rest, 4 + len + 1, Len(rest)),
                found |-> Append(found, [name |-> m.name, body |-> m.body])]
    BY <1>2, <1>6, <1>8, <2>2
  <2> HIDE DEF empty, bad, lost, next
  <2>5. ParseMember(d) = next
    BY <2>1, <2>3
  <2> QED BY <2>4, <2>5
<1> QED BY <1>1, <1>7, <1>9 DEF d

(* The turns of the parser over a text *)
Parses(g, s) ==
  g = [n \in 0 .. Len(s) |-> IF n = 0 THEN [rest |-> s, found |-> <<>>] ELSE ParseMember(g[n - 1])]

ParsesOf(s) == CHOOSE g : Parses(g, s)

LEMMA ParsesAre ==
  ASSUME NEW s, Len(s) \in Nat, NEW h, Parses(h, s)
  PROVE  ParseMembers(s) = h[Len(s)].found
<1> DEFINE N == Len(s)
           g == ParsesOf(s)
<1>1. N \in Nat
  OBVIOUS
<1>2. Parses(g, s)
  BY DEF ParsesOf
<1>3. ParseMembers(s) = g[N].found
  BY DEF ParseMembers, ParsesOf, Parses
<1> HIDE DEF g
<1>4. ASSUME NEW f, Parses(f, s), NEW i \in 0 .. N
      PROVE  f[i] = IF i = 0 THEN [rest |-> s, found |-> <<>>] ELSE ParseMember(f[i - 1])
  BY <1>4 DEF Parses
<1> HIDE DEF N
<1> DEFINE Bad == {i \in 0 .. N : g[i] # h[i]}
<1>5. ASSUME Bad # {} PROVE FALSE
  <2>1. Bad \in SUBSET Nat
    OBVIOUS
  <2>2. PICK m \in Bad : \A k \in Bad : m <= k
    <3> HIDE DEF Bad
    <3> QED BY <1>5, <2>1, LeastExists
  <2>3. m \in 0 .. N /\ g[m] # h[m]
    OBVIOUS
  <2>4. m # 0
    BY <1>2, <1>4, <2>3
  <2>5. m - 1 \in 0 .. N /\ ~ (m <= m - 1)
    BY <1>1, <2>3, <2>4
  <2>6. g[m - 1] = h[m - 1]
    BY <2>2, <2>5
  <2>7. g[m] = ParseMember(g[m - 1]) /\ h[m] = ParseMember(h[m - 1])
    BY <1>2, <1>4, <2>3, <2>4
  <2> QED BY <2>3, <2>6, <2>7
<1> HIDE DEF Bad
<1>6. Bad = {}
  BY <1>5
<1>7. N \in 0 .. N
  BY <1>1
<1>8. g[N] = h[N]
  BY <1>6, <1>7 DEF Bad
<1> QED BY <1>3, <1>8 DEF N

LEMMA RestAfter ==
  ASSUME NEW S, NEW s \in Seq(S), NEW p \in Nat, NEW q \in Nat, p + q <= Len(s)
  PROVE  LET r == SubSeq(s, p + 1, Len(s)) IN
         /\ r \in Seq(S) /\ Len(r) = Len(s) - p
         /\ \A j \in 1 .. Len(s) - p : r[j] = s[p + j]
         /\ SubSeq(r, q + 1, Len(r)) = SubSeq(s, p + q + 1, Len(s))
<1> DEFINE n == Len(s)
           r == SubSeq(s, p + 1, n)
           t == SubSeq(r, q + 1, Len(r))
           u == SubSeq(s, p + q + 1, n)
<1>1. n \in Nat
  OBVIOUS
<1>2. r \in Seq(S) /\ Len(r) = n - p /\ \A j \in 1 .. n - p : r[j] = s[p + j]
  <2>1. p + 1 \in 1 .. n + 1 /\ n - (p + 1) + 1 = n - p /\ \A j \in 1 .. n - p : p + 1 + j - 1 = p + j
    BY <1>1
  <2>2. /\ r \in Seq(S) /\ Len(r) = n - (p + 1) + 1
        /\ \A j \in 1 .. n - (p + 1) + 1 : r[j] = s[p + 1 + j - 1]
    BY <2>1, Suffix
  <2> HIDE DEF n, r
  <2> QED BY <2>1, <2>2
<1>3. u \in Seq(S) /\ Len(u) = n - (p + q) /\ \A j \in 1 .. n - (p + q) : u[j] = s[p + q + j]
  <2>1. /\ p + q + 1 \in 1 .. n + 1 /\ n - (p + q + 1) + 1 = n - (p + q)
        /\ \A j \in 1 .. n - (p + q) : p + q + 1 + j - 1 = p + q + j
    BY <1>1
  <2>2. /\ u \in Seq(S) /\ Len(u) = n - (p + q + 1) + 1
        /\ \A j \in 1 .. n - (p + q + 1) + 1 : u[j] = s[p + q + 1 + j - 1]
    BY <2>1, Suffix
  <2> HIDE DEF n, u
  <2> QED BY <2>1, <2>2
<1>4. t \in Seq(S) /\ Len(t) = n - (p + q) /\ \A j \in 1 .. n - (p + q) : t[j] = r[q + j]
  <2> HIDE DEF r
  <2>1. /\ q + 1 \in 1 .. Len(r) + 1 /\ Len(r) - (q + 1) + 1 = n - (p + q)
        /\ \A j \in 1 .. n - (p + q) : q + 1 + j - 1 = q + j
    BY <1>1, <1>2
  <2>2. /\ t \in Seq(S) /\ Len(t) = Len(r) - (q + 1) + 1
        /\ \A j \in 1 .. Len(r) - (q + 1) + 1 : t[j] = r[q + 1 + j - 1]
    BY <1>2, <2>1, Suffix
  <2> HIDE DEF n, t
  <2> QED BY <2>1, <2>2
<1> HIDE DEF r, n, t, u
<1>5. \A j \in 1 .. n - (p + q) : t[j] = u[j]
  <2> SUFFICES ASSUME NEW j \in 1 .. n - (p + q) PROVE t[j] = u[j]
    OBVIOUS
  <2>1. q + j \in 1 .. n - p /\ p + (q + j) = p + q + j
    BY <1>1
  <2> QED BY <1>2, <1>3, <1>4, <2>1
<1>6. t = u
  BY <1>3, <1>4, <1>5
<1> QED BY <1>2, <1>6 DEF r, t, u, n

(* After k turns the parser has the first k members and is at the next *)
LEMMA ParsingUndoesFraming ==
  ASSUME NEW ms, Named(ms)
  PROVE  ParseMembers(FrameFolderMembers(ms)) = Ordered(ms) /\ FrameFolderMembers(ms) \in Seq(Symbol)
<1> DEFINE o == Ordered(ms)
           n == Len(ms)
           F == FrameFolderMembers(ms)
           blocks == [i \in 1 .. n |-> Block(o[i])]
<1>1. o \in Seq(Member) /\ Len(o) = n /\ DOMAIN o = 1 .. n /\ n \in Nat
  <2>1. Named(o) /\ Len(o) = n
    BY OrderedIs
  <2> QED BY <2>1 DEF Named
<1>2. F = FlattenSeq(blocks) /\ Len(blocks) = n
  BY <1>1 DEF FrameFolderMembers, Block
<1>3. ASSUME NEW i \in 1 .. n
      PROVE  o[i] \in Member /\ blocks[i] = Block(o[i]) /\ blocks[i] \in Seq(Symbol)
             /\ Len(blocks[i]) \in Nat /\ Len(blocks[i]) >= 4
  <2>1. o[i] \in Member /\ blocks[i] = Block(o[i])
    BY <1>1
  <2>2. /\ Block(o[i]) \in Seq(Symbol) /\ Len(Block(o[i])) = 4 + Len(o[i].body)
        /\ Len(o[i].body) \in Nat
    BY <2>1, BlockIs
  <2> DEFINE len == Len(o[i].body)
  <2> HIDE DEF blocks, len
  <2>3. Len(blocks[i]) = 4 + len /\ len \in Nat
    BY <2>1, <2>2 DEF len
  <2> QED BY <2>1, <2>2, <2>3
<1> HIDE DEF blocks
<1>4. CASE n = 0
  <2>1. blocks = <<>> /\ o = <<>>
    BY <1>1, <1>4 DEF blocks
  <2>2. F = <<>>
    BY <1>2, <1>4, <2>1 DEF FlattenSeq
  <2> DEFINE h == [i \in 0 .. 0 |-> [rest |-> <<>>, found |-> <<>>]]
  <2>3. h = [i \in 0 .. 0 |-> IF i = 0 THEN [rest |-> <<>>, found |-> <<>>] ELSE ParseMember(h[i - 1])]
    OBVIOUS
  <2>4. h[0].found = <<>>
    OBVIOUS
  <2> HIDE DEF h
  <2>5. Parses(h, <<>>) /\ Len(<<>>) = 0
    BY <2>3 DEF Parses
  <2>6. ParseMembers(<<>>) = h[0].found
    BY <2>5, ParsesAre
  <2> HIDE DEF F, o
  <2> QED BY <2>1, <2>2, <2>4, <2>6 DEF F, o
<1>5. CASE n # 0
  <2> HIDE DEF F, o
  <2>1. PICK g : Chain(g, blocks, n) /\ F = g[n]
    BY <1>1, <1>2, <1>5, FlattenIsChain
  <2>2. \A i \in 1 .. n : g[i] \in Seq(Symbol) /\ IsPrefixOf(g[i], g[n])
    BY <1>1, <1>3, <2>1, ChainTypes, ChainGrows
  <2> HIDE DEF n
  <2> DEFINE at == [k \in 0 .. n |-> IF k = 0 THEN 0 ELSE Len(g[k])]
  <2>3. /\ F \in Seq(Symbol) /\ at[0] = 0 /\ at[n] = Len(F)
        /\ \A k \in 0 .. n : at[k] \in Nat /\ at[k] <= Len(F)
    <3>1. 0 \in 0 .. n /\ n \in 1 .. n /\ n \in 0 .. n
      BY <1>1, <1>5
    <3>2. F \in Seq(Symbol) /\ at[0] = 0 /\ at[n] = Len(F)
      BY <1>5, <2>1, <2>2, <3>1
    <3>3. ASSUME NEW k \in 0 .. n PROVE at[k] \in Nat /\ at[k] <= Len(F)
      <4>1. CASE k = 0
        BY <3>2, <4>1
      <4>2. CASE k # 0
        <5>1. k \in 1 .. n /\ at[k] = Len(g[k])
          BY <1>1, <4>2
        <5> QED BY <2>1, <2>2, <5>1 DEF IsPrefixOf
      <4> QED BY <4>1, <4>2
    <3> QED BY <3>2, <3>3
  (* the next block stands where the parser is *)
  <2>4. ASSUME NEW k \in 0 .. n - 1
        PROVE  /\ at[k + 1] = at[k] + Len(blocks[k + 1])
               /\ \A j \in 1 .. Len(blocks[k + 1]) : F[at[k] + j] = blocks[k + 1][j]
    <3>1. k + 1 \in 1 .. n /\ k + 1 \in 0 .. n /\ k + 1 # 0 /\ (k + 1) - 1 = k
      BY <1>1
    <3>2. at[k + 1] = Len(g[k + 1])
      BY <3>1
    <3> DEFINE b == blocks[k + 1]
               q == g[k + 1]
    <3>3. b \in Seq(Symbol) /\ q \in Seq(Symbol) /\ Len(b) \in Nat
      BY <1>3, <2>2, <3>1
    <3>4. Len(q) <= Len(F) /\ \A j \in 1 .. Len(q) : F[j] = q[j]
      BY <2>1, <2>2, <3>1 DEF IsPrefixOf
    <3>5. q = IF k + 1 = 1 THEN b ELSE g[(k + 1) - 1] \o b
      BY <2>1, <3>1 DEF Chain
    <3> HIDE DEF b, q
    <3>6. CASE k = 0
      <4>1. q = b /\ at[k] = 0
        BY <2>3, <3>5, <3>6
      <4> HIDE DEF at
      <4>2. at[k + 1] = at[k] + Len(b)
        <5>1. at[k + 1] = Len(q)
          BY <3>2 DEF q
        <5> QED BY <3>3, <4>1, <5>1
      <4>3. \A j \in 1 .. Len(b) : F[at[k] + j] = b[j]
        BY <3>3, <3>4, <4>1
      <4> QED BY <4>2, <4>3 DEF b
    <3>7. CASE k # 0
      <4> DEFINE p == g[k]
                 l == at[k]
      <4>1. k \in 1 .. n /\ k \in 0 .. n /\ k + 1 # 1
        BY <1>1, <3>7
      <4>2. p \in Seq(Symbol) /\ Len(p) = l /\ q = p \o b /\ l \in Nat
        BY <2>2, <2>3, <3>1, <3>5, <4>1, <3>7
      <4> HIDE DEF p, l, at
      <4>3. /\ Len(q) = l + Len(b)
            /\ \A j \in 1 .. Len(b) : q[l + j] = b[j]
        <5>1. p \in Seq(Symbol) /\ b \in Seq(Symbol) /\ Len(p) = l
          BY <3>3, <4>2
        <5>2. /\ Len(p \o b) = l + Len(b)
              /\ \A j \in 1 .. Len(b) : (p \o b)[l + j] = b[j]
          BY <5>1, ConcatAt
        <5> QED BY <4>2, <5>2
      <4>4. ASSUME NEW j \in 1 .. Len(b) PROVE l + j \in 1 .. Len(q)
        <5> DEFINE m == Len(b)
        <5>1. m \in Nat /\ l \in Nat /\ j \in 1 .. m /\ Len(q) = l + m
          BY <3>3, <4>2, <4>3
        <5> HIDE DEF m
        <5> QED BY <5>1
      <4>5. \A j \in 1 .. Len(b) : F[l + j] = b[j]
        BY <3>4, <4>3, <4>4
      <4> QED BY <3>2, <4>3, <4>5 DEF b, q, l
    <3> QED BY <3>6, <3>7
  <2> HIDE DEF at
  (* ... and every block is longer than nothing *)
  <2>5. \A k \in 0 .. n : k <= at[k]
    <3> DEFINE Bad == {k \in 0 .. n : ~ (k <= at[k])}
    <3>1. ASSUME Bad # {} PROVE FALSE
      <4>1. Bad \in SUBSET Nat
        OBVIOUS
      <4>2. PICK m \in Bad : \A k \in Bad : m <= k
        <5> HIDE DEF Bad
        <5> QED BY <3>1, <4>1, LeastExists
      <4>3. m \in 0 .. n /\ ~ (m <= at[m])
        OBVIOUS
      <4>4. m # 0
        BY <2>3, <4>3
      <4> DEFINE k == m - 1
      <4>5. k \in 0 .. n /\ k \in 0 .. n - 1 /\ k + 1 = m /\ ~ (m <= k) /\ m \in 1 .. n
        BY <1>1, <4>3, <4>4
      <4> HIDE DEF k
      <4>6. k <= at[k]
        BY <4>2, <4>5
      <4>7. at[m] = at[k] + Len(blocks[m]) /\ Len(blocks[m]) \in Nat /\ Len(blocks[m]) >= 4
        BY <1>3, <2>4, <4>5
      <4>8. at[k] \in Nat /\ at[m] \in Nat
        BY <2>3, <4>3, <4>5
      <4> DEFINE len == Len(blocks[m])
      <4> HIDE DEF len
      <4>9. at[m] = at[k] + len /\ len \in Nat /\ len >= 4
        BY <4>7 DEF len
      <4> QED BY <4>3, <4>5, <4>6, <4>8, <4>9
    <3> HIDE DEF Bad
    <3>2. Bad = {}
      BY <3>1
    <3> QED BY <3>2 DEF Bad
  <2> DEFINE N == Len(F)
             Now(k) == [rest |-> SubSeq(F, at[k] + 1, N), found |-> [i \in 1 .. k |-> o[i]]]
             h == [i \in 0 .. N |-> Now(IF i <= n THEN i ELSE n)]
  <2>6. N \in Nat /\ n <= N
    <3>1. n \in 0 .. n
      BY <1>1
    <3> QED BY <2>3, <2>5, <3>1
  <2>7. Now(0) = [rest |-> F, found |-> <<>>]
    <3>1. SubSeq(F, 1, N) = F
      BY <2>3
    <3> QED BY <2>3, <3>1
  <2>8. ASSUME NEW k \in 0 .. n - 1 PROVE ParseMember(Now(k)) = Now(k + 1)
    <3>1. k \in 0 .. n /\ k + 1 \in 1 .. n /\ k + 1 \in 0 .. n /\ k \in Nat
      BY <1>1
    <3> DEFINE b == blocks[k + 1]
               m == o[k + 1]
               rest == SubSeq(F, at[k] + 1, N)
               found == [i \in 1 .. k |-> o[i]]
               l == at[k]
               q == Len(b)
    <3>2. m \in Member /\ b = Block(m) /\ b \in Seq(Symbol) /\ q \in Nat
      BY <1>3, <3>1
    <3>3. l \in Nat /\ at[k + 1] = l + q /\ l + q <= N /\ \A j \in 1 .. q : F[l + j] = b[j]
      BY <2>3, <2>4, <3>1
    <3> HIDE DEF b, l, q, m
    <3>4. /\ SubSeq(F, l + 1, Len(F)) \in Seq(Symbol) /\ Len(SubSeq(F, l + 1, Len(F))) = Len(F) - l
          /\ \A j \in 1 .. Len(F) - l : SubSeq(F, l + 1, Len(F))[j] = F[l + j]
          /\ SubSeq(SubSeq(F, l + 1, Len(F)), q + 1, Len(SubSeq(F, l + 1, Len(F))))
               = SubSeq(F, l + q + 1, Len(F))
      BY <2>3, <3>2, <3>3, RestAfter
    <3>5. /\ rest \in Seq(Symbol) /\ Len(rest) = N - l
          /\ \A j \in 1 .. N - l : rest[j] = F[l + j]
          /\ SubSeq(rest, q + 1, Len(rest)) = SubSeq(F, l + q + 1, N)
      BY <3>4 DEF l
    <3> HIDE DEF rest, N
    <3>6. IsPrefixOf(b, rest)
      <4>1. q <= N - l /\ \A j \in 1 .. q : j \in 1 .. N - l
        BY <2>6, <3>2, <3>3
      <4>2. \A j \in 1 .. q : rest[j] = b[j]
        BY <3>3, <3>5, <4>1
      <4> QED BY <3>5, <4>1, <4>2 DEF IsPrefixOf, q
    <3> HIDE DEF found
    <3>7. ParseMember([rest |-> rest, found |-> found]) =
            [rest |-> SubSeq(rest, q + 1, Len(rest)), found |-> Append(found, m)]
      BY <3>2, <3>5, <3>6, ParsesOne DEF q
    <3>8. Append(found, m) = [i \in 1 .. k + 1 |-> o[i]]
      BY <1>1, <3>1 DEF found, m
    <3>9. Now(k + 1) = [rest |-> SubSeq(F, l + q + 1, N), found |-> [i \in 1 .. k + 1 |-> o[i]]]
      BY <3>3
    <3>10. Now(k) = [rest |-> rest, found |-> found]
      BY DEF rest, found
    <3> HIDE DEF Now
    <3> QED BY <3>5, <3>7, <3>8, <3>9, <3>10
  <2>9. ParseMember(Now(n)) = Now(n) /\ Now(n).found = o
    <3>1. SubSeq(F, N + 1, N) = <<>>
      BY <2>3, <2>6
    <3>2. Now(n).rest = <<>>
      BY <2>3, <3>1
    <3>3. Now(n).found = o
      BY <1>1
    <3> HIDE DEF Now
    <3> QED BY <3>2, <3>3 DEF ParseMember
  <2>10. ASSUME NEW i \in 0 .. N
         PROVE  h[i] = IF i = 0 THEN [rest |-> F, found |-> <<>>] ELSE ParseMember(h[i - 1])
    <3> HIDE DEF Now, N
    <3>1. CASE i = 0
      <4>1. h[i] = Now(0)
        BY <1>1, <2>6, <3>1
      <4> HIDE DEF h
      <4> QED BY <2>7, <3>1, <4>1
    <3>2. CASE i # 0
      <4>1. i \in Nat /\ i - 1 \in 0 .. N
        BY <2>6, <3>2
      <4>2. CASE i <= n
        <5>1. i - 1 \in 0 .. n - 1 /\ i - 1 <= n /\ (i - 1) + 1 = i
          BY <1>1, <3>2, <4>1, <4>2
        <5>2. h[i] = Now(i) /\ h[i - 1] = Now(i - 1)
          BY <4>1, <4>2, <5>1
        <5>3. ParseMember(Now(i - 1)) = Now((i - 1) + 1)
          BY <2>8, <5>1
        <5> HIDE DEF h
        <5> QED BY <3>2, <5>1, <5>2, <5>3
      <4>3. CASE ~ (i <= n)
        <5>1. h[i] = Now(n)
          BY <4>3
        <5>2. h[i - 1] = Now(n)
          <6>1. CASE i - 1 <= n
            <7>1. i - 1 = n
              BY <1>1, <4>1, <4>3, <6>1
            <7> QED BY <4>1, <6>1, <7>1
          <6>2. CASE ~ (i - 1 <= n)
            BY <4>1, <6>2
          <6> QED BY <6>1, <6>2
        <5> HIDE DEF h
        <5> QED BY <2>9, <3>2, <5>1, <5>2
      <4> QED BY <4>2, <4>3
    <3> QED BY <3>1, <3>2
  <2>11. Parses(h, F)
    <3>1. h = [i \in 0 .. N |-> h[i]]
      BY DEF h
    <3> HIDE DEF h
    <3> QED BY <2>10, <3>1 DEF Parses, N
  <2>12. h[N] = Now(n)
    <3>1. N \in 0 .. N
      BY <2>6
    <3>2. CASE N <= n
      <4>1. N = n
        BY <1>1, <2>6, <3>2
      <4> HIDE DEF Now, N
      <4> QED BY <3>1, <3>2, <4>1
    <3>3. CASE ~ (N <= n)
      <4> HIDE DEF Now, N
      <4> QED BY <3>1, <3>3
    <3> QED BY <3>2, <3>3
  <2> HIDE DEF h, Now
  <2>13. ParseMembers(F) = h[N].found
    BY <2>6, <2>11, ParsesAre
  <2> QED BY <2>3, <2>9, <2>12, <2>13 DEF F, o
<1> QED BY <1>4, <1>5

---------------------------------------------------------------------------
(* The source: the invariant.                                              *)

ListedEntry == [name : Nat \ {0}, entry : [kind : {"text", "other"}, body : Seq(Symbol)]]

(* The directory, and how far it has been looked at *)
Directory ==
  /\ folder \in Seq(ListedEntry)
  /\ \A i, j \in 1 .. Len(folder) : folder[i].name = folder[j].name => i = j
  /\ scanned \in 0 .. Len(folder)
  /\ unread \subseteq {folder[i].name : i \in 1 .. scanned}

(* What was captured, before it is sent and after *)
Sendable(d) ==
  /\ d \in [origin : {"file", "folder", "link"}, content : Seq(Symbol), count : Nat]
  /\ ValidContent(d.content)
  /\ IF d.origin = "folder"
     THEN /\ d.content = FrameFolderMembers(members) /\ d.count = Len(members)
          /\ members # <<>> /\ Range(members) = Wanted /\ scanned = Len(folder)
     ELSE d.count = 1
  /\ d.origin = "link" => contacted # {} /\ hops <= MaxRedirects

(* The capture, by where it is *)
Capturing ==
  /\ Named(members) /\ Len(members) <= MaxMembers
  /\ hops \in 0 .. MaxRedirects + 1 /\ contacted \cap Blocked = {}
  /\ stage \in {"idle", "scanning"} => Range(members) = Wanted
  /\ stage \in {"idle", "link"} => members = <<>> /\ hops <= MaxRedirects
  /\ stage # "captured" => draft \in {NoDraft, OldDraft}
  /\ stage \notin {"sent", "reloaded"} => source = NoSource
  /\ stage = "sent" => source # NoSource
  /\ stage = "too_many" => Cardinality(Wanted) > MaxMembers
  /\ stage = "nothing" => Wanted = {}
  /\ stage = "too_large" /\ members # <<>> => Len(FrameFolderMembers(members)) > MaxSource
  /\ stage # "lost"

CaptureInv ==
  /\ Directory /\ Capturing
  /\ draft # NoDraft => Sendable(draft)
  /\ source # NoSource => Sendable(source)

LEMMA OldIsSendable == Sendable(OldDraft) /\ Sendable(OldDraft)'
<1> DEFINE s == <<<<"old", 0>>>>
<1>1. s \in Seq(Symbol) /\ Len(s) = 1
  BY DEF Symbol
<1>2. OldDraft = [origin |-> "file", content |-> s, count |-> 1]
  BY DEF OldDraft
<1> HIDE DEF s
<1>3. Len(s) <= MaxSource
  BY <1>1, CaptureAssumption
<1> QED BY <1>1, <1>2, <1>3 DEF Sendable, ValidContent

(* What a capture that holds nothing yet, or is refused, leaves *)
CaptureFrame == UNCHANGED <<folder, scanned, members, unread, source>>

LEMMA FrameKeeps ==
  ASSUME CaptureInv, CaptureFrame
  PROVE  /\ Directory' /\ Wanted' = Wanted /\ members' = members /\ source' = source
         /\ Named(members)' /\ (Len(members) <= MaxMembers)'
<1>1. folder' = folder /\ scanned' = scanned /\ members' = members /\ unread' = unread /\ source' = source
  BY DEF CaptureFrame
<1>2. Directory'
  BY <1>1 DEF CaptureInv, Directory
<1>3. Wanted' = Wanted
  BY <1>1 DEF Wanted
<1>4. Named(members)' /\ (Len(members) <= MaxMembers)'
  BY <1>1 DEF CaptureInv, Capturing, Named
<1> QED BY <1>1, <1>2, <1>3, <1>4

LEMMA RefusalKeeps ==
  ASSUME CaptureInv, CaptureFrame, stage \in {"idle", "link"}, draft' = draft,
         stage' \in {"dismissed", "unreadable", "unsupported", "too_large", "link"},
         hops' \in 0 .. MaxRedirects + 1, stage' = "link" => hops' <= MaxRedirects,
         contacted' \cap Blocked = {}
  PROVE  CaptureInv'
<1>1. /\ Directory' /\ members' = members /\ source' = source /\ Named(members)'
      /\ (Len(members) <= MaxMembers)'
  BY FrameKeeps
<1>2. members = <<>> /\ draft \in {NoDraft, OldDraft} /\ source = NoSource
  BY DEF CaptureInv, Capturing
<1>3. Capturing'
  BY <1>1, <1>2 DEF Capturing
<1>4. draft' # NoDraft => Sendable(draft)'
  <2>1. ASSUME draft' = OldDraft PROVE Sendable(draft)'
    <3>1. Sendable(OldDraft)'
      BY OldIsSendable
    <3> QED BY <2>1, <3>1
  <2> QED BY <1>2, <2>1
<1> QED BY <1>1, <1>2, <1>3, <1>4 DEF CaptureInv

LEMMA TakingKeeps ==
  ASSUME CaptureInv, CaptureFrame, stage \in {"idle", "link"},
         NEW origin \in {"file", "link"}, NEW body \in Texts, ValidContent(body),
         Takes(Draft(origin, body, 1)), hops' \in 0 .. MaxRedirects,
         contacted' \cap Blocked = {}, origin = "link" => contacted' # {}
  PROVE  CaptureInv'
<1> DEFINE d == Draft(origin, body, 1)
<1>1. /\ Directory' /\ members' = members /\ source' = source /\ Named(members)'
      /\ (Len(members) <= MaxMembers)'
  BY FrameKeeps
<1>2. members = <<>> /\ source = NoSource
  BY DEF CaptureInv, Capturing
<1>3. (stage' = "captured" /\ draft' = d) \/ (stage' = "no_handle" /\ draft' = NoDraft)
  BY DEF Takes
<1>4. hops' \in 0 .. MaxRedirects + 1 /\ hops' <= MaxRedirects
  BY CaptureAssumption
<1>5. d = [origin |-> origin, content |-> body, count |-> 1]
  BY DEF Draft
<1> HIDE DEF d
<1>6. Sendable(d)'
  <2>1. body \in Seq(Symbol)
    BY CaptureAssumption
  <2> QED BY <1>4, <1>5, <2>1 DEF Sendable, ValidContent
<1>7. Capturing'
  BY <1>1, <1>2, <1>3, <1>4 DEF Capturing
<1>8. draft' # NoDraft => Sendable(draft)'
  BY <1>3, <1>6
<1> QED BY <1>1, <1>2, <1>7, <1>8 DEF CaptureInv

LEMMA CaptureInvInit == CaptureInit => CaptureInv
<1> SUFFICES ASSUME CaptureInit PROVE CaptureInv
  OBVIOUS
<1>1. /\ folder \in Folders /\ draft \in {NoDraft, OldDraft}
      /\ scanned = 0 /\ members = <<>> /\ unread = {} /\ source = NoSource
      /\ stage = "idle" /\ hops = 0 /\ contacted = {}
  BY DEF CaptureInit
<1>2. /\ folder \in Seq(ListedEntry) /\ Len(folder) \in Nat
      /\ \A i, j \in 1 .. Len(folder) : folder[i].name = folder[j].name => i = j
  <2> DEFINE Listings(n) == {f \in [1 .. n -> 1 .. n] : \A i, j \in 1 .. n : f[i] = f[j] => i = j}
             Of(n) == {[i \in 1 .. n |-> [name |-> order[i], entry |-> what[i]]] :
                         order \in Listings(n), what \in [1 .. n -> Entries]}
  <2>1. PICK n \in 0 .. MaxMembers + 1 : folder \in Of(n)
    <3>1. Folders = UNION {Of(n) : n \in 0 .. MaxMembers + 1}
      BY DEF Folders
    <3> HIDE DEF Of
    <3> QED BY <1>1, <3>1
  <2>2. PICK order \in Listings(n), what \in [1 .. n -> Entries] :
          folder = [i \in 1 .. n |-> [name |-> order[i], entry |-> what[i]]]
    <3> HIDE DEF Listings
    <3> QED BY <2>1
  <2>3. n \in Nat
    BY CaptureAssumption
  <2>4. Entries \subseteq [kind : {"text", "other"}, body : Seq(Symbol)]
    <3>1. Texts \subseteq Seq(Symbol) /\ <<>> \in Seq(Symbol)
      BY CaptureAssumption
    <3> QED BY <3>1 DEF Entries
  <2>5. ASSUME NEW i \in 1 .. n PROVE folder[i] \in ListedEntry /\ folder[i].name = order[i]
    <3>1. order[i] \in Nat \ {0} /\ what[i] \in Entries
      BY <2>3
    <3>2. folder[i] = [name |-> order[i], entry |-> what[i]]
      BY <2>2
    <3> QED BY <2>4, <3>1, <3>2 DEF ListedEntry
  <2>6. Len(folder) = n /\ folder \in Seq(ListedEntry)
    BY <2>2, <2>3, <2>5
  <2>7. \A i, j \in 1 .. n : order[i] = order[j] => i = j
    OBVIOUS
  <2> HIDE DEF Listings, Of
  <2>8. \A i, j \in 1 .. n : folder[i].name = folder[j].name => i = j
    BY <2>5, <2>7
  <2> QED BY <2>3, <2>6, <2>8
<1>3. Directory
  BY <1>1, <1>2 DEF Directory
<1>4. Wanted = {} /\ Range(members) = {}
  <2>1. Wanted = {}
    BY <1>1 DEF Wanted
  <2>2. Range(members) = {}
    BY <1>1 DEF Range
  <2> QED BY <2>1, <2>2
<1>5. Named(members) /\ Len(members) <= MaxMembers
  BY <1>1, CaptureAssumption DEF Named
<1>6. hops \in 0 .. MaxRedirects + 1 /\ contacted \cap Blocked = {} /\ hops <= MaxRedirects
  BY <1>1, CaptureAssumption
<1>7. Capturing
  BY <1>1, <1>4, <1>5, <1>6 DEF Capturing
<1>8. draft # NoDraft => Sendable(draft)
  BY <1>1, OldIsSendable
<1> QED BY <1>1, <1>3, <1>7, <1>8 DEF CaptureInv

LEMMA CaptureFileInv ==
  ASSUME CaptureInv, NEW body \in Texts, CaptureFile(body)
  PROVE  CaptureInv'
<1>1. /\ stage = "idle" /\ CaptureFrame /\ hops' = hops /\ contacted' = contacted
      /\ \/ Refuses("dismissed") \/ Refuses("unreadable")
         \/ IF ValidContent(body) THEN Takes(Draft("file", body, 1)) ELSE Refuses("too_large")
  BY DEF CaptureFile, CaptureFrame
<1>2. hops \in 0 .. MaxRedirects + 1 /\ contacted \cap Blocked = {} /\ hops <= MaxRedirects
  BY <1>1 DEF CaptureInv, Capturing
<1>3. CASE Refuses("dismissed") \/ Refuses("unreadable") \/ Refuses("too_large")
  <2>1. stage' \in {"dismissed", "unreadable", "too_large"} /\ draft' = draft
    BY <1>3 DEF Refuses
  <2> QED BY <1>1, <1>2, <2>1, RefusalKeeps
<1>4. CASE ValidContent(body) /\ Takes(Draft("file", body, 1))
  <2>1. hops' \in 0 .. MaxRedirects
    BY <1>1, <1>2, CaptureAssumption
  <2> QED BY <1>1, <1>2, <1>4, <2>1, TakingKeeps
<1> QED BY <1>1, <1>3, <1>4

LEMMA LinkHopInv ==
  ASSUME CaptureInv, LinkHop
  PROVE  CaptureInv'
<1>1. stage = "link" /\ CaptureFrame
  BY DEF LinkHop, CaptureFrame
<1>2. hops \in 0 .. MaxRedirects /\ contacted \cap Blocked = {} /\ MaxRedirects \in Nat
  BY <1>1, CaptureAssumption DEF CaptureInv, Capturing
<1>3. PICK addresses \in SUBSET Address :
        IF ~Checked(addresses) THEN Refuses("unsupported") /\ UNCHANGED <<hops, contacted>>
        ELSE /\ \E a \in addresses : contacted' = contacted \cup {a}
             /\ \/ Refuses("unreadable") /\ UNCHANGED hops
                \/ Refuses("unsupported") /\ UNCHANGED hops
                \/ /\ IF hops = MaxRedirects THEN stage' = "unsupported" ELSE UNCHANGED stage
                   /\ hops' = hops + 1 /\ UNCHANGED draft
                \/ /\ \E body \in Texts :
                        IF ValidContent(body) THEN Takes(Draft("link", body, 1)) ELSE Refuses("too_large")
                   /\ UNCHANGED hops
  BY DEF LinkHop
<1>4. CASE ~Checked(addresses)
  <2>1. stage' = "unsupported" /\ draft' = draft /\ hops' = hops /\ contacted' = contacted
    BY <1>3, <1>4 DEF Refuses
  <2> QED BY <1>1, <1>2, <2>1, RefusalKeeps
<1>5. CASE Checked(addresses)
  <2>1. PICK a \in addresses : contacted' = contacted \cup {a}
    BY <1>3, <1>5
  <2>2. contacted' \cap Blocked = {} /\ contacted' # {}
    BY <1>2, <1>5, <2>1 DEF Checked
  <2>3. CASE (Refuses("unreadable") \/ Refuses("unsupported") \/ Refuses("too_large")) /\ UNCHANGED hops
    <3>1. stage' \in {"unreadable", "unsupported", "too_large"} /\ draft' = draft /\ hops' = hops
      BY <2>3 DEF Refuses
    <3> QED BY <1>1, <1>2, <2>2, <3>1, RefusalKeeps
  <2>4. CASE /\ IF hops = MaxRedirects THEN stage' = "unsupported" ELSE UNCHANGED stage
             /\ hops' = hops + 1 /\ UNCHANGED draft
    <3>1. /\ stage' \in {"unsupported", "link"} /\ draft' = draft /\ hops' \in 0 .. MaxRedirects + 1
          /\ stage' = "link" => hops' <= MaxRedirects
      BY <1>1, <1>2, <2>4
    <3> QED BY <1>1, <1>2, <2>2, <3>1, RefusalKeeps
  <2>5. ASSUME NEW body \in Texts, ValidContent(body), Takes(Draft("link", body, 1)), UNCHANGED hops
        PROVE  CaptureInv'
    <3>1. hops' \in 0 .. MaxRedirects
      BY <1>2, <2>5
    <3> QED BY <1>1, <2>2, <2>5, <3>1, TakingKeeps
  <2> QED BY <1>3, <1>5, <2>3, <2>4, <2>5
<1> QED BY <1>4, <1>5

(* The files that count when one more entry has been looked at *)
MemberOf(e) == [name |-> e.name, body |-> e.entry.body]

LEMMA WantedGrows ==
  ASSUME Directory, Directory', folder' = folder, scanned < Len(folder), scanned' = scanned + 1
  PROVE  LET e == folder[scanned + 1] IN
         /\ e \in ListedEntry
         /\ \A i \in 1 .. scanned : folder[i].name # e.name
         /\ unread' = unread \cup {e.name} \/ (unread' = unread /\ ~Eligible(e.entry)) =>
              Wanted' = Wanted
         /\ unread' = unread /\ Eligible(e.entry) => Wanted' = Wanted \cup {MemberOf(e)}
         /\ MemberOf(e) \notin Wanted
<1> DEFINE e == folder[scanned + 1]
           Counts(j) == Eligible(folder[j].entry) /\ folder[j].name \notin unread
           CountsNow(j) == Eligible(folder[j].entry) /\ folder[j].name \notin unread'
           M(j) == MemberOf(folder[j])
<1>1. /\ folder \in Seq(ListedEntry) /\ scanned \in Nat /\ Len(folder) \in Nat
      /\ scanned + 1 \in 1 .. Len(folder) /\ \A i \in 1 .. scanned : i \in 1 .. Len(folder)
      /\ \A i, j \in 1 .. Len(folder) : folder[i].name = folder[j].name => i = j
      /\ unread \subseteq {folder[i].name : i \in 1 .. scanned}
  BY DEF Directory
<1>2. e \in ListedEntry /\ \A i \in 1 .. scanned : folder[i].name # e.name
  <2>1. e \in ListedEntry
    BY <1>1
  <2>2. \A i \in 1 .. scanned : i # scanned + 1
    BY <1>1
  <2> QED BY <1>1, <2>1, <2>2
<1>3. e.name \notin unread
  BY <1>1, <1>2
<1>4. Wanted = {M(i) : i \in {j \in 1 .. scanned : Counts(j)}}
  BY DEF Wanted, MemberOf
<1>5. Wanted' = {M(i) : i \in {j \in 1 .. scanned + 1 : CountsNow(j)}}
  BY DEF Wanted, MemberOf, Eligible
<1>6. 1 .. scanned + 1 = (1 .. scanned) \cup {scanned + 1}
  BY <1>1
<1>7. MemberOf(e).name = e.name /\ \A j \in 1 .. scanned : M(j).name = folder[j].name
  BY DEF MemberOf
<1>8. MemberOf(e) \notin Wanted
  <2> HIDE DEF e, M, Counts
  <2> QED BY <1>2, <1>4, <1>7
<1>9. ASSUME unread' = unread \cup {e.name} \/ (unread' = unread /\ ~Eligible(e.entry))
      PROVE  Wanted' = Wanted
  <2>1. \A j \in 1 .. scanned : CountsNow(j) <=> Counts(j)
    BY <1>2, <1>9
  <2>2. ~ CountsNow(scanned + 1)
    BY <1>9
  <2> HIDE DEF e, M, Counts, CountsNow
  <2>3. {j \in 1 .. scanned + 1 : CountsNow(j)} = {j \in 1 .. scanned : Counts(j)}
    BY <1>6, <2>1, <2>2
  <2> QED BY <1>4, <1>5, <2>3
<1>10. ASSUME unread' = unread, Eligible(e.entry)
       PROVE  Wanted' = Wanted \cup {MemberOf(e)}
  <2>1. \A j \in 1 .. scanned : CountsNow(j) <=> Counts(j)
    BY <1>10
  <2>2. CountsNow(scanned + 1) /\ M(scanned + 1) = MemberOf(e)
    BY <1>3, <1>10
  <2> HIDE DEF e, M, Counts, CountsNow
  <2>3. {j \in 1 .. scanned + 1 : CountsNow(j)} = {j \in 1 .. scanned : Counts(j)} \cup {scanned + 1}
    BY <1>6, <2>1, <2>2
  <2> QED BY <1>4, <1>5, <2>2, <2>3
<1> HIDE DEF e
<1>11. unread' = unread \cup {e.name} \/ (unread' = unread /\ ~Eligible(e.entry)) => Wanted' = Wanted
  BY <1>9
<1>12. unread' = unread /\ Eligible(e.entry) => Wanted' = Wanted \cup {MemberOf(e)}
  BY <1>10
<1> QED BY <1>2, <1>8, <1>11, <1>12 DEF e

(* Nothing is captured while the directory is read *)
LEMMA ScanEntryInv ==
  ASSUME CaptureInv, ScanEntry
  PROVE  CaptureInv'
<1> DEFINE e == folder[scanned + 1]
           m == MemberOf(e)
<1>1. /\ stage = "scanning" /\ scanned < Len(folder) /\ scanned' = scanned + 1
      /\ folder' = folder /\ draft' = draft /\ source' = source /\ hops' = hops /\ contacted' = contacted
  BY DEF ScanEntry
<1>2. \/ ~Eligible(e.entry) /\ UNCHANGED <<members, unread, stage>>
      \/ Eligible(e.entry) /\ unread' = unread \cup {e.name} /\ UNCHANGED <<members, stage>>
      \/ /\ Eligible(e.entry) /\ UNCHANGED unread
         /\ IF Len(members) >= MaxMembers THEN stage' = "too_many" /\ UNCHANGED members
            ELSE members' = Append(members, m) /\ UNCHANGED stage
  BY DEF ScanEntry, MemberOf
<1>3. /\ Named(members) /\ Len(members) <= MaxMembers /\ Range(members) = Wanted
      /\ draft \in {NoDraft, OldDraft} /\ source = NoSource
      /\ hops \in 0 .. MaxRedirects + 1 /\ contacted \cap Blocked = {}
  BY <1>1 DEF CaptureInv, Capturing
<1>4. Directory
  BY DEF CaptureInv
<1>5. Directory'
  <2>1. /\ folder \in Seq(ListedEntry) /\ scanned \in 0 .. Len(folder) /\ Len(folder) \in Nat
        /\ \A i, j \in 1 .. Len(folder) : folder[i].name = folder[j].name => i = j
        /\ unread \subseteq {folder[i].name : i \in 1 .. scanned}
    BY <1>4 DEF Directory
  <2>2. scanned + 1 \in 0 .. Len(folder) /\ 1 .. scanned + 1 = (1 .. scanned) \cup {scanned + 1}
    BY <1>1, <2>1
  <2>3. unread' \subseteq unread \cup {e.name}
    BY <1>2
  <2>4. unread' \subseteq {folder[i].name : i \in 1 .. scanned + 1}
    BY <2>1, <2>2, <2>3
  <2> QED BY <1>1, <2>1, <2>2, <2>4 DEF Directory
<1>6. /\ e \in ListedEntry
      /\ unread' = unread \cup {e.name} \/ (unread' = unread /\ ~Eligible(e.entry)) => Wanted' = Wanted
      /\ unread' = unread /\ Eligible(e.entry) => Wanted' = Wanted \cup {m}
      /\ m \notin Wanted
      /\ \A i \in 1 .. scanned : folder[i].name # e.name
  BY <1>1, <1>4, <1>5, WantedGrows
<1>7. draft' # NoDraft => Sendable(draft)'
  <2>1. ASSUME draft' = OldDraft PROVE Sendable(draft)'
    <3>1. Sendable(OldDraft)'
      BY OldIsSendable
    <3> QED BY <2>1, <3>1
  <2> QED BY <1>1, <1>3, <2>1
<1> HIDE DEF m, e
<1>8. SUFFICES Capturing'
  BY <1>5, <1>7, <1>1, <1>3 DEF CaptureInv
<1>9. ASSUME Wanted' = Wanted, members' = members, stage' = stage PROVE Capturing'
  <2>1. Named(members)' /\ Range(members)' = Wanted'
    BY <1>3, <1>9 DEF Named
  <2> QED BY <1>1, <1>3, <1>9, <2>1 DEF Capturing
<1>10. CASE ~Eligible(e.entry) /\ UNCHANGED <<members, unread, stage>>
  BY <1>6, <1>9, <1>10
<1>11. CASE Eligible(e.entry) /\ unread' = unread \cup {e.name} /\ UNCHANGED <<members, stage>>
  BY <1>6, <1>9, <1>11
<1>12. CASE Eligible(e.entry) /\ UNCHANGED unread /\ Len(members) >= MaxMembers
            /\ stage' = "too_many" /\ UNCHANGED members
  <2>1. Wanted' = Wanted \cup {m}
    BY <1>6, <1>12
  <2>2. IsFiniteSet(Wanted) /\ Cardinality(Wanted) = Len(members) /\ Len(members) \in Nat
    BY <1>3, NamesOf
  <2>3. Cardinality(Wanted') = Len(members) + 1
    BY <1>6, <2>1, <2>2, FS_AddElement
  <2>4. (Cardinality(Wanted) > MaxMembers)'
    BY <1>12, <2>2, <2>3, CaptureAssumption
  <2>5. Named(members)'
    BY <1>3, <1>12 DEF Named
  <2> QED BY <1>1, <1>3, <1>12, <2>4, <2>5 DEF Capturing
<1>13. CASE Eligible(e.entry) /\ UNCHANGED unread /\ ~ (Len(members) >= MaxMembers)
            /\ members' = Append(members, m) /\ UNCHANGED stage
  <2>1. m \in Member
    <3>1. e.name \in Nat \ {0} /\ e.entry.body \in Seq(Symbol)
      BY <1>6 DEF ListedEntry
    <3> QED BY <3>1 DEF m, MemberOf, Member
  <2>2. /\ members \in Seq(Member) /\ Len(members) \in Nat
        /\ \A i, j \in 1 .. Len(members) : members[i].name = members[j].name => i = j
    BY <1>3 DEF Named
  <2>3. \A i \in 1 .. Len(members) : members[i].name # m.name
    <3> SUFFICES ASSUME NEW i \in 1 .. Len(members) PROVE members[i].name # m.name
      OBVIOUS
    <3>1. members[i] \in Wanted
      BY <1>3, <2>2 DEF Range
    <3>2. PICK j \in 1 .. scanned : members[i] = [name |-> folder[j].name, body |-> folder[j].entry.body]
      BY <3>1 DEF Wanted
    <3>3. members[i].name = folder[j].name
      BY <3>2
    <3>4. m.name = e.name
      BY DEF m, MemberOf
    <3> QED BY <1>6, <3>3, <3>4
  <2> DEFINE now == Append(members, m)
             n == Len(members)
  <2>4. /\ now \in Seq(Member) /\ Len(now) = n + 1 /\ now[n + 1] = m
        /\ \A i \in 1 .. n : now[i] = members[i]
    BY <2>1, <2>2
  <2>5. members' = now
    BY <1>13
  <2> HIDE DEF now
  <2>6. 1 .. n + 1 = (1 .. n) \cup {n + 1} /\ n \in Nat
    BY <2>2
  <2>7. Named(now)
    <3> SUFFICES ASSUME NEW i \in 1 .. n + 1, NEW j \in 1 .. n + 1, now[i].name = now[j].name
                 PROVE  i = j
      BY <2>4 DEF Named
    <3>1. CASE i = n + 1 \/ j = n + 1
      <4>1. ASSUME NEW k \in 1 .. n PROVE now[k].name # now[n + 1].name
        BY <2>3, <2>4
      <4> QED BY <2>6, <3>1, <4>1
    <3>2. CASE i # n + 1 /\ j # n + 1
      <4>1. i \in 1 .. n /\ j \in 1 .. n
        BY <2>6, <3>2
      <4> QED BY <2>2, <2>4, <4>1
    <3> QED BY <3>1, <3>2
  <2>8. Range(now) = Range(members) \cup {m}
    <3>1. DOMAIN now = 1 .. n + 1 /\ DOMAIN members = 1 .. n
      BY <2>2, <2>4
    <3> HIDE DEF n
    <3>2. Range(now) = {now[i] : i \in (1 .. n) \cup {n + 1}} /\ Range(members) = {members[i] : i \in 1 .. n}
      BY <2>6, <3>1 DEF Range
    <3> QED BY <2>4, <3>2
  <2>9. Range(members)' = Wanted'
    BY <1>3, <1>6, <1>13, <2>5, <2>8
  <2>10. Named(members)' /\ (Len(members) <= MaxMembers)'
    <3>1. Len(now) <= MaxMembers
      BY <1>13, <2>4, <2>6, CaptureAssumption
    <3> QED BY <2>5, <2>7, <3>1 DEF Named
  <2> QED BY <1>1, <1>3, <1>13, <2>9, <2>10 DEF Capturing
<1> QED BY <1>2, <1>10, <1>11, <1>12, <1>13

LEMMA FrameFolderInv ==
  ASSUME CaptureInv, FrameFolder
  PROVE  CaptureInv'
<1> DEFINE framed == FrameFolderMembers(members)
           d == Draft("folder", framed, Len(members))
<1>1. /\ stage = "scanning" /\ scanned = Len(folder) /\ CaptureFrame
      /\ hops' = hops /\ contacted' = contacted
  BY DEF FrameFolder, CaptureFrame
<1>2. /\ members = <<>> => Refuses("nothing")
      /\ members # <<>> /\ ~ValidContent(framed) => Refuses("too_large")
      /\ members # <<>> /\ ValidContent(framed) => Takes(d)
  BY DEF FrameFolder
<1>3. /\ Named(members) /\ Len(members) <= MaxMembers /\ Range(members) = Wanted
      /\ draft \in {NoDraft, OldDraft} /\ source = NoSource
      /\ hops \in 0 .. MaxRedirects + 1 /\ contacted \cap Blocked = {}
  BY <1>1 DEF CaptureInv, Capturing
<1>4. /\ Directory' /\ Wanted' = Wanted /\ members' = members /\ source' = source
      /\ Named(members)' /\ (Len(members) <= MaxMembers)'
  BY <1>1, FrameKeeps
<1>5. framed \in Seq(Symbol) /\ Len(framed) \in Nat /\ Len(members) \in Nat
  <2>1. framed \in Seq(Symbol)
    BY <1>3, ParsingUndoesFraming
  <2> HIDE DEF framed
  <2> QED BY <1>3, <2>1 DEF Named
<1>6. FrameFolderMembers(members)' = framed
  BY <1>4
<1>7. ASSUME draft' = OldDraft PROVE Sendable(draft)'
  <2>1. Sendable(OldDraft)'
    BY OldIsSendable
  <2> QED BY <1>7, <2>1
<1> HIDE DEF framed, d
<1>8. CASE members = <<>>
  <2>1. stage' = "nothing" /\ draft' = draft
    BY <1>2, <1>8 DEF Refuses
  <2>2. Wanted' = {}
    BY <1>3, <1>4, <1>8 DEF Range
  <2>3. Capturing'
    BY <1>1, <1>3, <1>4, <2>1, <2>2 DEF Capturing
  <2> QED BY <1>3, <1>4, <1>7, <2>1, <2>3 DEF CaptureInv
<1>9. CASE members # <<>> /\ ~ValidContent(framed)
  <2>1. stage' = "too_large" /\ draft' = draft
    BY <1>2, <1>9 DEF Refuses
  <2>2. (Len(FrameFolderMembers(members)) > MaxSource)'
    BY <1>5, <1>6, <1>9, CaptureAssumption DEF ValidContent
  <2>3. Capturing'
    BY <1>1, <1>3, <1>4, <2>1, <2>2 DEF Capturing
  <2> QED BY <1>3, <1>4, <1>7, <2>1, <2>3 DEF CaptureInv
<1>10. CASE members # <<>> /\ ValidContent(framed)
  <2>1. Takes(d)
    BY <1>2, <1>10
  <2>2. (stage' = "captured" /\ draft' = d) \/ (stage' = "no_handle" /\ draft' = NoDraft)
    BY <2>1 DEF Takes
  <2>3. d = [origin |-> "folder", content |-> framed, count |-> Len(members)]
    BY DEF d, Draft
  <2>4. ASSUME draft' = d PROVE Sendable(draft)'
    <3>1. /\ draft'.origin = "folder" /\ draft'.content = framed /\ draft'.count = Len(members)
          /\ draft' \in [origin : {"file", "folder", "link"}, content : Seq(Symbol), count : Nat]
      BY <1>5, <2>3, <2>4
    <3>2. scanned' = Len(folder)' /\ Range(members)' = Wanted' /\ members' # <<>> /\ Len(members)' = Len(members)
      <4>1. scanned' = scanned /\ folder' = folder
        BY <1>1 DEF CaptureFrame
      <4> QED BY <1>1, <1>3, <1>4, <1>10, <4>1
    <3> QED BY <1>6, <1>10, <3>1, <3>2 DEF Sendable, ValidContent
  <2>5. Capturing'
    BY <1>1, <1>3, <1>4, <2>2 DEF Capturing
  <2>6. draft' # NoDraft => Sendable(draft)'
    BY <2>2, <2>4
  <2> QED BY <1>3, <1>4, <2>5, <2>6 DEF CaptureInv
<1> QED BY <1>8, <1>9, <1>10

(* A draft that can be sent converts, to itself *)
LEMMA DraftConverts ==
  ASSUME CaptureInv, NEW d, Sendable(d), d.origin = "folder"
  PROVE  LET ms == ParseMembers(d.content) IN
         /\ ms # Malformed /\ Len(ms) \in 1 .. MaxMembers /\ ms # <<>> /\ Len(ms) = d.count
         /\ FrameFolderMembers(ms) = d.content /\ Range(ms) = Wanted
<1> DEFINE o == Ordered(members)
<1>1. /\ d.content = FrameFolderMembers(members) /\ d.count = Len(members) /\ members # <<>>
      /\ Range(members) = Wanted
  BY DEF Sendable
<1>2. Named(members) /\ Len(members) <= MaxMembers
  BY DEF CaptureInv, Capturing
<1>3. ParseMembers(d.content) = o /\ FrameFolderMembers(o) = d.content
  BY <1>1, <1>2, ParsingUndoesFraming, OrderedTwice
<1>4. Named(o) /\ Len(o) = Len(members) /\ Range(o) = Wanted
  BY <1>1, <1>2, OrderedIs
<1>5. Len(members) \in Nat /\ Len(members) # 0
  BY <1>1, <1>2 DEF Named
<1> HIDE DEF o
<1>6. Len(o) \in 1 .. MaxMembers
  BY <1>2, <1>4, <1>5, CaptureAssumption
<1>7. o # Malformed
  <2>1. o[1] \in Member
    BY <1>4, <1>6 DEF Named
  <2>2. o[1].name # 0
    BY <2>1 DEF Member
  <2>3. Malformed[1].name = 0
    BY DEF Malformed
  <2> QED BY <2>2, <2>3
<1>8. o # <<>>
  BY <1>6
<1> QED BY <1>1, <1>3, <1>4, <1>6, <1>7, <1>8

LEMMA SendDraftInv ==
  ASSUME CaptureInv, SendDraft
  PROVE  CaptureInv'
<1> DEFINE ms == ParseMembers(draft.content)
           content == IF draft.origin = "folder" THEN FrameFolderMembers(ms) ELSE draft.content
           count   == IF draft.origin = "folder" THEN Len(ms) ELSE 1
           sound   == /\ draft.origin = "folder" => ms # Malformed /\ Len(ms) \in 1 .. MaxMembers
                      /\ ValidContent(content)
<1>1. /\ stage \notin {"idle", "scanning", "link", "sent", "reloaded", "lost"} /\ draft # NoDraft
      /\ IF sound THEN stage' = "sent" /\ source' = Draft(draft.origin, content, count) /\ draft' = NoDraft
         ELSE stage' = "lost" /\ UNCHANGED <<draft, source>>
      /\ folder' = folder /\ scanned' = scanned /\ members' = members /\ unread' = unread
      /\ hops' = hops /\ contacted' = contacted
  BY DEF SendDraft
<1>2. Sendable(draft)
  BY <1>1 DEF CaptureInv
<1>3. draft \in [origin : {"file", "folder", "link"}, content : Seq(Symbol), count : Nat]
      /\ ValidContent(draft.content) /\ (draft.origin # "folder" => draft.count = 1)
  BY <1>2 DEF Sendable
<1>4. draft.origin = "folder" =>
        /\ ms # Malformed /\ Len(ms) \in 1 .. MaxMembers /\ Len(ms) = draft.count
        /\ FrameFolderMembers(ms) = draft.content
  BY <1>2, DraftConverts
<1> HIDE DEF ms
<1>5. content = draft.content /\ count = draft.count
  BY <1>3, <1>4
<1>6. sound
  BY <1>3, <1>4, <1>5
<1> HIDE DEF content, count, sound
<1>7. stage' = "sent" /\ draft' = NoDraft /\ source' = draft
  <2>1. Draft(draft.origin, content, count) = draft
    BY <1>3, <1>5 DEF Draft
  <2> QED BY <1>1, <1>6, <2>1
<1>8. Directory' /\ Wanted' = Wanted
  BY <1>1 DEF CaptureInv, Directory, Wanted
<1>9. Sendable(source)'
  BY <1>1, <1>2, <1>7, <1>8 DEF Sendable, ValidContent
<1>10. Capturing'
  <2>1. Named(members)' /\ (Len(members) <= MaxMembers)' /\ (hops \in 0 .. MaxRedirects + 1 /\ contacted \cap Blocked = {})'
    BY <1>1 DEF CaptureInv, Capturing, Named
  <2> QED BY <1>1, <1>7, <2>1 DEF Capturing, NoDraft
<1> QED BY <1>7, <1>8, <1>9, <1>10 DEF CaptureInv

LEMMA ReloadSourceInv ==
  ASSUME CaptureInv, ReloadSource
  PROVE  CaptureInv'
<1> DEFINE ms == ParseMembers(source.content)
<1>1. /\ stage = "sent"
      /\ stage' = IF /\ ValidContent(source.content)
                     /\ IF source.origin = "folder"
                        THEN ms # Malformed /\ ms # <<>> /\ Len(ms) = source.count
                        ELSE source.count = 1
                  THEN "reloaded" ELSE "lost"
      /\ folder' = folder /\ scanned' = scanned /\ members' = members /\ unread' = unread
      /\ hops' = hops /\ contacted' = contacted /\ draft' = draft /\ source' = source
  BY DEF ReloadSource
<1>2. Directory' /\ Wanted' = Wanted
  BY <1>1 DEF CaptureInv, Directory, Wanted
<1>3. /\ Named(members)' /\ (Len(members) <= MaxMembers)'
      /\ (hops \in 0 .. MaxRedirects + 1 /\ contacted \cap Blocked = {})'
      /\ draft \in {NoDraft, OldDraft}
  BY <1>1 DEF CaptureInv, Capturing, Named
<1>4. source # NoSource
  BY <1>1 DEF CaptureInv, Capturing
<1>5. Sendable(source)
  BY <1>4 DEF CaptureInv
<1>6. source.origin = "folder" => ms # Malformed /\ ms # <<>> /\ Len(ms) = source.count
  BY <1>5, DraftConverts
<1> HIDE DEF ms
<1>7. stage' = "reloaded"
  BY <1>1, <1>5, <1>6 DEF Sendable
<1>8. Capturing'
  BY <1>1, <1>3, <1>7 DEF Capturing
<1>9. Sendable(source)' /\ (draft # NoDraft => Sendable(draft))'
  BY <1>1, <1>2, <1>5 DEF CaptureInv, Sendable, ValidContent
<1> QED BY <1>2, <1>8, <1>9 DEF CaptureInv

(* The capture invariant: the directory, what was captured and what was    *)
(* refused, at every step of capture_picked_source, capture_picked_folder, *)
(* capture_link_source and the sending of what they keep.                  *)
THEOREM CaptureInvariant == CaptureSpec => []CaptureInv
<1>1. CaptureInit => CaptureInv
  BY CaptureInvInit
<1>2. CaptureInv /\ [CaptureNext]_captureVars => CaptureInv'
  <2> SUFFICES ASSUME CaptureInv, [CaptureNext]_captureVars PROVE CaptureInv'
    OBVIOUS
  <2>1. CASE CaptureFolder
    <3>1. /\ stage = "idle" /\ stage' = "scanning" /\ CaptureFrame /\ draft' = draft
          /\ hops' = hops /\ contacted' = contacted
      BY <2>1 DEF CaptureFolder, CaptureFrame
    <3>2. /\ Directory' /\ Wanted' = Wanted /\ members' = members /\ source' = source
          /\ Named(members)' /\ (Len(members) <= MaxMembers)'
      BY <3>1, FrameKeeps
    <3>3. Capturing' /\ draft \in {NoDraft, OldDraft} /\ source = NoSource
      BY <3>1, <3>2 DEF CaptureInv, Capturing
    <3>4. ASSUME draft' = OldDraft PROVE Sendable(draft)'
      <4>1. Sendable(OldDraft)'
        BY OldIsSendable
      <4> QED BY <3>4, <4>1
    <3> QED BY <3>1, <3>2, <3>3, <3>4 DEF CaptureInv
  <2>2. CASE CaptureLink
    <3>1. /\ stage = "idle" /\ stage' \in {"link", "unsupported"} /\ CaptureFrame /\ draft' = draft
          /\ hops' = hops /\ contacted' = contacted
      BY <2>2 DEF CaptureLink, CaptureFrame
    <3>2. hops \in 0 .. MaxRedirects + 1 /\ hops <= MaxRedirects /\ contacted \cap Blocked = {}
      BY <3>1 DEF CaptureInv, Capturing
    <3> QED BY <3>1, <3>2, RefusalKeeps
  <2>3. ASSUME NEW body \in Texts, CaptureFile(body) PROVE CaptureInv'
    BY <2>3, CaptureFileInv
  <2>4. CASE UNCHANGED captureVars
    BY <2>4 DEF captureVars, CaptureInv, Directory, Capturing, Sendable, Named, Wanted, ValidContent
  <2>5. CASE ScanEntry \/ FrameFolder \/ LinkHop \/ SendDraft \/ ReloadSource
    BY <2>5, ScanEntryInv, FrameFolderInv, LinkHopInv, SendDraftInv, ReloadSourceInv
  <2> QED BY <2>1, <2>2, <2>3, <2>4, <2>5 DEF CaptureNext
<1> QED BY <1>1, <1>2, PTL DEF CaptureSpec

(* What is sent is what was there, whatever the files hold: a folder's     *)
(* Source has every member, framed in the order of the names, and parses   *)
(* back into them (frame_folder_members, parse_folder_draft_members,       *)
(* count_folder_members); what does not fit is refused, not cut; a link    *)
(* is asked for at checked addresses only.                                 *)
THEOREM SourceExact == CaptureSpec => []SourceIsExact
<1>1. CaptureInv => SourceIsExact
  <2> SUFFICES ASSUME CaptureInv PROVE SourceIsExact
    OBVIOUS
  <2>1. ASSUME source.origin = "folder"
        PROVE  /\ source.content = FrameFolderMembers(SetToSeq(Wanted))
               /\ ToSet(ParseMembers(source.content)) = Wanted
               /\ source.count = Cardinality(Wanted) /\ scanned = Len(folder)
    <3>1. source # NoSource
      BY <2>1 DEF NoSource
    <3>2. Sendable(source)
      BY <3>1 DEF CaptureInv
    <3>3. /\ source.content = FrameFolderMembers(members) /\ source.count = Len(members)
          /\ Range(members) = Wanted /\ scanned = Len(folder)
      BY <2>1, <3>2 DEF Sendable
    <3>4. Named(members)
      BY DEF CaptureInv, Capturing
    <3>5. FrameFolderMembers(SetToSeq(Wanted)) = FrameFolderMembers(members)
      BY <3>3, <3>4, NamedFromSet, OrderedAlike
    <3>6. Cardinality(Wanted) = Len(members)
      BY <3>3, <3>4, NamesOf
    <3>7. Range(ParseMembers(source.content)) = Wanted
      BY <2>1, <3>2, DraftConverts
    <3>8. ToSet(ParseMembers(source.content)) = Range(ParseMembers(source.content))
      BY DEF ToSet, Range
    <3> QED BY <3>3, <3>5, <3>6, <3>7, <3>8
  <2>2. source.origin = "link" => contacted # {} /\ hops <= MaxRedirects
    <3>1. source.origin = "link" => source # NoSource
      BY DEF NoSource
    <3> QED BY <3>1 DEF CaptureInv, Sendable
  <2>3. hops <= MaxRedirects + 1 /\ contacted \cap Blocked = {}
    BY DEF CaptureInv, Capturing
  <2>4. /\ stage = "too_many" => Cardinality(Wanted) > MaxMembers
        /\ stage = "nothing" => Wanted = {}
        /\ stage = "too_large" /\ members # <<>> => Len(FrameFolderMembers(members)) > MaxSource
        /\ stage # "lost" /\ (stage # "captured" => draft \in {NoDraft, OldDraft})
    BY DEF CaptureInv, Capturing
  <2> QED BY <2>1, <2>2, <2>3, <2>4 DEF SourceIsExact
<1> QED BY <1>1, CaptureInvariant, PTL
===========================================================================
