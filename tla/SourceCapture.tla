---------------------------- MODULE SourceCapture ----------------------------
(***************************************************************************)
(* How a file, a folder or a link becomes a Source: the captures of        *)
(* source_draft.rs, the conversion of the draft when it is sent, and the   *)
(* reconstruction of the stored Source (agent_source.rs).  AgentHost has   *)
(* which draft a send may use.                                             *)
(*                                                                         *)
(* Text is a sequence of symbols of one byte; the header of a member in a  *)
(* folder's content is four of them, and a file may hold the same symbols. *)
(* The names in a folder are numbers, ordered as the basenames are.  The   *)
(* digest is left out: it is recomputed from content nothing changes.      *)
(***************************************************************************)
EXTENDS Integers, Sequences, FiniteSets, SequencesExt

CONSTANTS
  Texts,            \* what a file or an answer may hold
  MaxMembers,       \* MAX_FOLDER_MEMBERS
  MaxSource,        \* MAX_SOURCE_UTF8
  MaxRedirects,     \* MAX_LINK_REDIRECTS
  Address, Blocked  \* what a host may resolve to, and the part of it that is_blocked_ip

(* What a text is made of, the words of a header with their value *)
Symbol == {"text", "old", "member", "name", "bytes", "length"} \X Nat

ASSUME CaptureAssumption ==
  /\ MaxMembers \in Nat /\ MaxSource \in Nat \ {0} /\ MaxRedirects \in Nat
  /\ Blocked \subseteq Address /\ Texts \subseteq Seq(Symbol)

VARIABLES
  folder,      \* the directory entries, in the order read_dir gives them
  scanned,     \* how many of them have been looked at
  members,     \* the eligible ones
  unread,      \* history: names of eligible files that could not be read
  draft,
  source,      \* the Source of the turn that was sent
  stage,       \* where the capture is, or how it ended
  hops,        \* redirects followed
  contacted    \* history: addresses asked for a link

captureVars == <<folder, scanned, members, unread, draft, source, stage, hops, contacted>>

-----------------------------------------------------------------------------
(* Framing.                                                                *)

Header(name, length) == <<<<"member", 0>>, <<"name", name>>, <<"bytes", 0>>, <<"length", length>>>>

(* Ordered by name; a folder has no two members of one name.               *)
Ordered(ms) ==
  LET names == {m.name : m \in Range(ms)}
  IN  [k \in DOMAIN ms |->
         CHOOSE m \in Range(ms) : Cardinality({n \in names : n < m.name}) = k - 1]

(* frame_folder_members.                                                   *)
FrameFolderMembers(ms) ==
  LET ordered == Ordered(ms)
  IN  FlattenSeq([i \in DOMAIN ordered |->
        Header(ordered[i].name, Len(ordered[i].body)) \o ordered[i].body])

Malformed == <<[name |-> 0, body |-> <<>>]>>

IsHeader(s) == Len(s) >= 4 /\ s[2][1] = "name" /\ s[4][1] = "length" /\ SubSeq(s, 1, 4) = Header(s[2][2], s[4][2])

(* One turn of parse_folder_draft_members; count_folder_members walks the  *)
(* same way.                                                               *)
ParseMember(d) ==
  LET end == 4 + d.rest[4][2] IN
  CASE d.rest = <<>> -> d
    [] d.rest # <<>> /\ (IsHeader(d.rest) => end > Len(d.rest)) -> [rest |-> <<>>, found |-> Malformed]
    [] OTHER -> [rest  |-> SubSeq(d.rest, end + 1, Len(d.rest)),
                 found |-> Append(d.found, [name |-> d.rest[2][2], body |-> SubSeq(d.rest, 5, end)])]

(* Every turn takes a header at least.                                     *)
ParseMembers(s) ==
  LET turns[n \in 0 .. Len(s)] ==
        IF n = 0 THEN [rest |-> s, found |-> <<>>] ELSE ParseMember(turns[n - 1])
  IN  turns[Len(s)].found

(* validate_source_content; what holds a NUL is not among the texts.       *)
ValidContent(s) == Len(s) <= MaxSource

NoSource  == [origin |-> "none", content |-> <<>>, count |-> 0]
NoDraft   == NoSource
OldDraft  == [origin |-> "file", content |-> <<<<"old", 0>>>>, count |-> 1]
Draft(origin, content, count) == [origin |-> origin, content |-> content, count |-> count]

-----------------------------------------------------------------------------
(* A directory entry: a file with text, or what is passed over (a          *)
(* directory, a symbolic link, a file with an unsafe name or not of text). *)
Entries == [kind : {"text"}, body : Texts] \cup [kind : {"other"}, body : {<<>>}]

(* Directories of up to one entry more than a Source may have.             *)
Folders ==
  UNION {{[i \in 1 .. n |-> [name |-> order[i], entry |-> what[i]]] :
            order \in {f \in [1 .. n -> 1 .. n] : \A i, j \in 1 .. n : f[i] = f[j] => i = j},
            what \in [1 .. n -> Entries]} : n \in 0 .. MaxMembers + 1}

CaptureInit ==
  /\ folder \in Folders /\ draft \in {NoDraft, OldDraft}
  /\ scanned = 0 /\ members = <<>> /\ unread = {} /\ source = NoSource
  /\ stage = "idle" /\ hops = 0 /\ contacted = {}

(* replace_with: the drafts are cleared, then a handle is drawn, which may *)
(* fail.                                                                   *)
Takes(d) ==
  \/ draft' = d /\ stage' = "captured"
  \/ draft' = NoDraft /\ stage' = "no_handle"

Refuses(why) == stage' = why /\ UNCHANGED draft

(* capture_picked_source; `unreadable' stands for everything the reader    *)
(* and the checks of the name refuse.                                      *)
CaptureFile(body) ==
  /\ stage = "idle"
  /\ \/ Refuses("dismissed")
     \/ Refuses("unreadable")
     \/ IF ValidContent(body) THEN Takes(Draft("file", body, 1)) ELSE Refuses("too_large")
  /\ UNCHANGED <<folder, scanned, members, unread, source, hops, contacted>>

(* capture_picked_folder.                                                  *)
CaptureFolder ==
  /\ stage = "idle" /\ stage' = "scanning"
  /\ UNCHANGED <<folder, scanned, members, unread, draft, source, hops, contacted>>

Eligible(entry) == entry.kind = "text" /\ Len(entry.body) <= MaxSource

(* One turn of collect_shallow_folder_members.                             *)
(* Mutant: a full folder is cut instead of refused.                        *)
X_ScanEntry ==
  /\ stage = "scanning" /\ scanned < Len(folder) /\ scanned' = scanned + 1
  /\ LET e == folder[scanned + 1] IN
     members' = IF Eligible(e.entry) /\ Len(members) < MaxMembers
                THEN Append(members, [name |-> e.name, body |-> e.entry.body]) ELSE members
  /\ UNCHANGED <<folder, unread, draft, source, stage, hops, contacted>>

ScanEntry ==
  LET e == folder[scanned + 1] IN
  /\ stage = "scanning" /\ scanned < Len(folder) /\ scanned' = scanned + 1
  /\ \/ ~Eligible(e.entry) /\ UNCHANGED <<members, unread, stage>>
     \/ /\ Eligible(e.entry)
        /\ unread' = unread \cup {e.name} /\ UNCHANGED <<members, stage>>
     \/ /\ Eligible(e.entry) /\ UNCHANGED unread
        /\ IF Len(members) >= MaxMembers THEN stage' = "too_many" /\ UNCHANGED members
           ELSE /\ members' = Append(members, [name |-> e.name, body |-> e.entry.body])
                /\ UNCHANGED stage
  /\ UNCHANGED <<folder, draft, source, hops, contacted>>

(* The rest of capture_picked_folder.                                      *)
FrameFolder ==
  LET framed == FrameFolderMembers(members) IN
  /\ stage = "scanning" /\ scanned = Len(folder)
  /\ CASE members = <<>> -> Refuses("nothing")
       [] members # <<>> /\ ~ValidContent(framed) -> Refuses("too_large")
       [] OTHER -> Takes(Draft("folder", framed, Len(members)))
  /\ UNCHANGED <<folder, scanned, members, unread, source, hops, contacted>>

(* capture_link_source, with a URL that is well formed, or not.            *)
CaptureLink ==
  /\ stage = "idle"
  /\ stage' \in {"link", "unsupported"}
  /\ UNCHANGED <<folder, scanned, members, unread, draft, source, hops, contacted>>

(* One turn of fetch_https_text_with_redirects.  The host is resolved and  *)
(* checked again for this hop, and the client asks only the addresses that *)
(* were checked.                                                           *)
Checked(addresses) == addresses # {} /\ addresses \cap Blocked = {}

LinkHop ==
  /\ stage = "link"
  /\ \E addresses \in SUBSET Address :
       IF ~Checked(addresses) THEN Refuses("unsupported") /\ UNCHANGED <<hops, contacted>>
       ELSE /\ \E a \in addresses : contacted' = contacted \cup {a}
            /\ \/ Refuses("unreadable") /\ UNCHANGED hops
               \/ Refuses("unsupported") /\ UNCHANGED hops
               \/ /\ IF hops = MaxRedirects THEN stage' = "unsupported" ELSE UNCHANGED stage
                  /\ hops' = hops + 1 /\ UNCHANGED draft
               \/ /\ \E body \in Texts :
                       IF ValidContent(body) THEN Takes(Draft("link", body, 1)) ELSE Refuses("too_large")
                  /\ UNCHANGED hops
  /\ UNCHANGED <<folder, scanned, members, unread, source>>

-----------------------------------------------------------------------------
(* into_source and new_local_text_folder: the members are read back from   *)
(* the draft, validated and framed anew.                                   *)
SendDraft ==
  LET ms == ParseMembers(draft.content)
      content == IF draft.origin = "folder" THEN FrameFolderMembers(ms) ELSE draft.content
      count   == IF draft.origin = "folder" THEN Len(ms) ELSE 1 IN
  /\ stage \notin {"idle", "scanning", "link", "sent", "reloaded", "lost"} /\ draft # NoDraft
  /\ IF /\ draft.origin = "folder" => ms # Malformed /\ Len(ms) \in 1 .. MaxMembers
        /\ ValidContent(content)
     THEN stage' = "sent" /\ source' = Draft(draft.origin, content, count) /\ draft' = NoDraft
     ELSE stage' = "lost" /\ UNCHANGED <<draft, source>>
  /\ UNCHANGED <<folder, scanned, members, unread, hops, contacted>>

(* from_stored_parts, whenever the turn is read again.                     *)
ReloadSource ==
  LET ms == ParseMembers(source.content) IN
  /\ stage = "sent"
  /\ stage' = IF /\ ValidContent(source.content)
                 /\ IF source.origin = "folder" THEN ms # Malformed /\ ms # <<>> /\ Len(ms) = source.count
                    ELSE source.count = 1
              THEN "reloaded" ELSE "lost"
  /\ UNCHANGED <<folder, scanned, members, unread, draft, source, hops, contacted>>

CaptureNext ==
  \/ CaptureFolder \/ ScanEntry \/ FrameFolder \/ CaptureLink \/ LinkHop
  \/ SendDraft \/ ReloadSource
  \/ \E body \in Texts : CaptureFile(body)

CaptureSpec == CaptureInit /\ [][CaptureNext]_captureVars

-----------------------------------------------------------------------------
(* The files of the folder that count, as members.                         *)
Wanted ==
  {[name |-> folder[i].name, body |-> folder[i].entry.body] :
     i \in {j \in 1 .. scanned : Eligible(folder[j].entry) /\ folder[j].name \notin unread}}

(* What is sent is what was there: a folder's Source holds every file that *)
(* counts, in the order of the names and whatever the files hold           *)
(* (collect_shallow_folder_members, frame_folder_members), and is refused, *)
(* never cut, when there are too many or they are too long; a Source that  *)
(* was accepted converts and reloads (parse_folder_draft_members,          *)
(* count_folder_members); a link was asked for only at addresses that were *)
(* checked; and a capture that is refused leaves the draft there was.      *)
SourceIsExact ==
  /\ source.origin = "folder" =>
       /\ source.content = FrameFolderMembers(SetToSeq(Wanted))
       /\ ToSet(ParseMembers(source.content)) = Wanted /\ source.count = Cardinality(Wanted)
       /\ scanned = Len(folder)
  /\ stage = "too_many" => Cardinality(Wanted) > MaxMembers
  /\ stage = "nothing"  => Wanted = {}
  /\ stage = "too_large" /\ members # <<>> => Len(FrameFolderMembers(members)) > MaxSource
  /\ stage # "lost"
  /\ contacted \cap Blocked = {} /\ hops <= MaxRedirects + 1
  /\ source.origin = "link" => contacted # {} /\ hops <= MaxRedirects
  /\ stage \in {"dismissed", "unreadable", "nothing", "too_many", "too_large", "unsupported"} =>
       draft \in {NoDraft, OldDraft}
=============================================================================
