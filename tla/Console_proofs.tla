---------------------------- MODULE Console_proofs ----------------------------
(***************************************************************************)
(* What keeps the console and the apps' screens faithful, for every value  *)
(* of the constants of MCEdges: the inductive invariants of AndroidApp,    *)
(* VoiceInput and Workbench.  The theorem is in Terminals_proofs.          *)
(***************************************************************************)
EXTENDS Edges_proofs

-----------------------------------------------------------------------------
(* The console: AndroidApp.                                                *)

AppEntries == [is : {"absent", "saved"}, urls : SUBSET Urls, last : Urls \cup {App!None}]
AppTasks ==
    [kind : {"open", "pair", "refresh"}, desktop : Desktops,
     step : {"pair", "resolve", "active", "base"}, entry : AppEntries,
     base : Urls \cup {App!None}, met : Desktops \cup {App!None}]
Runnables == {"console", "setup", "offline", "home"}

AppTyped ==
    /\ Desktops # {}
    /\ saved \in [Desktops -> AppEntries]
    /\ executor \in Seq(AppTasks) /\ posted \in Seq(Runnables) /\ loading \in Seq(Urls)
    /\ token \in [Urls -> Desktops \cup {App!None}]
    /\ activeConnection \in Desktops \cup {App!None}
    /\ resolvedBaseUrl \in Urls \cup {App!None}
    /\ tokenInjected \in BOOLEAN

AppTail(s) == s[Len(s)]

\* Where one of a desktop's addresses is, unless the desktop was deleted.
IsAddress(desktop, url) == saved[desktop].is = "saved" => url \in saved[desktop].urls

\* Only the first task is under way; what it has found is an address of its desktop.
WaitingAreNew == \A i \in 2..Len(executor) : executor[i].step \in {"pair", "resolve"}
FoundFits ==
    executor # <<>> /\ executor[1].step \in {"active", "base"} =>
        executor[1].met = executor[1].desktop /\ IsAddress(executor[1].desktop, executor[1].base)

\* The fields are those of the desktop asked for last, or that was deleted.
FieldsFit ==
    \/ activeConnection = App!None
    \/ /\ activeConnection = chosen /\ chosen \in Desktops /\ met = chosen
       /\ IsAddress(chosen, resolvedBaseUrl)

\* The last task is for what the user asked for last; once it has ended, the last
\* runnable is, and once that has run, what is shown.
LastIsChosen ==
    executor # <<>> =>
        \/ AppTail(executor).kind = "refresh"
        \/ /\ AppTail(executor).desktop = chosen
           /\ AppTail(executor).step = "base" => activeConnection \in {chosen, App!None}
OutcomeFits ==
    executor = <<>> /\ posted # <<>> /\ AppTail(posted) = "console" => FieldsFit
ShownFits ==
    App!AtRest /\ screen = "console" =>
        /\ FieldsFit /\ activeConnection # App!None
        /\ view = resolvedBaseUrl /\ view \in Urls
        /\ tokenInjected => token[view] = chosen
        /\ ~tokenInjected => \E i \in DOMAIN loading : loading[i] = view
Connecting == App!AtRest => screen # "pairing"

AppSafe ==
    WaitingAreNew /\ FoundFits /\ LastIsChosen /\ OutcomeFits /\ ShownFits /\ Connecting
AppInv == AppTyped /\ AppSafe

LEMMA AppInit == App!Init => AppInv
<1> SUFFICES ASSUME App!Init PROVE AppInv
  OBVIOUS
<1>1. Desktops # {}
  BY DEF App!Init, App!List
<1>2. \A url \in Urls : App!Entry({url}, url) \in AppEntries
  BY DEF App!Entry, AppEntries
<1>3. App!Absent \in AppEntries
  BY DEF App!Absent, AppEntries
<1>4. saved \in [Desktops -> AppEntries]
  <2> DEFINE first == {App!Absent} \cup {App!Entry({url}, url) : url \in Urls}
  <2>1. saved \in [Desktops -> first]
    BY DEF App!Init
  <2>2. first \subseteq AppEntries
    BY <1>2, <1>3
  <2> HIDE DEF first
  <2> QED
    BY <2>1, <2>2
<1>5. executor = <<>> /\ posted = <<>> /\ loading = <<>> /\ screen = "home"
  BY DEF App!Init
<1>6. AppTyped
  <2>1. executor \in Seq(AppTasks) /\ posted \in Seq(Runnables) /\ loading \in Seq(Urls)
    BY <1>5
  <2>2. token \in [Urls -> Desktops \cup {App!None}]
    BY DEF App!Init
  <2> QED
    BY <1>1, <1>4, <2>1, <2>2 DEF App!Init, AppTyped
<1>7. AppSafe
  BY <1>5 DEF AppSafe, WaitingAreNew, FoundFits, LastIsChosen, OutcomeFits, ShownFits, Connecting
<1> QED
  BY <1>6, <1>7 DEF AppInv

\* A page less: the others still load.
LEMMA AppRemove ==
    ASSUME NEW S, NEW s \in Seq(S), NEW i \in DOMAIN s
    PROVE  /\ App!RemoveAt(s, i) \in Seq(S)
           /\ \A j \in DOMAIN s \ {i} :
                 \E k \in DOMAIN App!RemoveAt(s, i) : App!RemoveAt(s, i)[k] = s[j]
<1> DEFINE before == SubSeq(s, 1, i - 1)
           back == SubSeq(s, i + 1, Len(s))
<1>1. Len(s) \in Nat /\ i \in 1..Len(s)
  OBVIOUS
<1>2. before \in Seq(S) /\ Len(before) = i - 1 /\ \A j \in 1..(i - 1) : before[j] = s[j]
  BY <1>1
<1>3. back \in Seq(S) /\ Len(back) = Len(s) - i /\ \A j \in 1..(Len(s) - i) : back[j] = s[i + j]
  BY <1>1
<1> DEFINE r == before \o back
<1>4. App!RemoveAt(s, i) = r
  BY DEF App!RemoveAt
<1> HIDE DEF before, back
<1>5. r \in Seq(S) /\ Len(r) = Len(before) + Len(back)
  <2>1. before \in Seq(S) /\ back \in Seq(S)
    BY <1>2, <1>3
  <2> QED
    BY <2>1
<1>6. \A j \in 1..Len(before) : r[j] = before[j]
  BY <1>2, <1>3
<1>7. \A j \in 1..Len(back) : r[Len(before) + j] = back[j]
  <2>1. Len(before) \in Nat /\ Len(back) \in Nat /\ before \in Seq(S) /\ back \in Seq(S)
    BY <1>2, <1>3
  <2> QED
    BY <2>1
<1> HIDE DEF r
<1>8. ASSUME NEW j \in DOMAIN s \ {i} PROVE \E k \in DOMAIN r : r[k] = s[j]
  <2>1. DOMAIN r = 1..(Len(before) + Len(back)) /\ Len(before) \in Nat /\ Len(back) \in Nat
    BY <1>2, <1>3, <1>5
  <2>2. CASE j < i
    <3>1. j \in 1..(i - 1) /\ j \in 1..Len(before) /\ j \in DOMAIN r
      BY <1>1, <1>2, <2>1, <2>2
    <3> QED
      BY <1>2, <1>6, <3>1
  <2>3. CASE j > i
    <3> DEFINE k == j - i
    <3>1. k \in 1..(Len(s) - i) /\ i + k = j
      BY <1>1, <2>3
    <3> HIDE DEF k
    <3>2. k \in 1..Len(back) /\ back[k] = s[j]
      BY <1>3, <3>1
    <3>3. r[Len(before) + k] = back[k] /\ Len(before) + k \in DOMAIN r
      BY <1>7, <2>1, <3>2
    <3> QED
      BY <3>2, <3>3
  <2> QED
    BY <1>1, <2>2, <2>3
<1> QED
  BY <1>4, <1>5, <1>8

\* What is queued last is last; the head of a longer queue goes, and the last stays.
LEMMA QueueIs ==
    ASSUME NEW S, NEW s \in Seq(S), NEW x \in S
    PROVE  /\ Append(s, x) \in Seq(S) /\ Append(s, x) # <<>> /\ AppTail(Append(s, x)) = x
           /\ Len(Append(s, x)) = Len(s) + 1 /\ Append(s, x)[Len(s) + 1] = x
           /\ \A i \in 1..Len(s) : Append(s, x)[i] = s[i]
           /\ s # <<>> => Append(s, x)[1] = s[1]
<1>1. /\ Append(s, x) \in Seq(S) /\ Len(Append(s, x)) = Len(s) + 1 /\ Len(s) \in Nat
      /\ Append(s, x)[Len(s) + 1] = x /\ \A i \in 1..Len(s) : Append(s, x)[i] = s[i]
  OBVIOUS
<1>2. Append(s, x) # <<>>
  BY <1>1
<1>3. AppTail(Append(s, x)) = x
  BY <1>1 DEF AppTail
<1>4. s # <<>> => Append(s, x)[1] = s[1]
  OBVIOUS
<1> QED
  BY <1>1, <1>2, <1>3, <1>4

LEMMA TailIs ==
    ASSUME NEW S, NEW s \in Seq(S), s # <<>>
    PROVE  /\ Tail(s) \in Seq(S) /\ Len(Tail(s)) = Len(s) - 1 /\ Len(s) \in Nat \ {0}
           /\ \A i \in 1..(Len(s) - 1) : Tail(s)[i] = s[i + 1]
           /\ Tail(s) # <<>> => AppTail(Tail(s)) = AppTail(s) /\ Len(s) > 1
           /\ Tail(s) = <<>> => Len(s) = 1 /\ AppTail(s) = s[1]
           /\ s[1] \in S /\ AppTail(s) \in S
<1>1. Len(s) \in Nat \ {0} /\ \A i \in 1..Len(s) : s[i] \in S
  OBVIOUS
<1>2. /\ Tail(s) \in Seq(S) /\ Len(Tail(s)) = Len(s) - 1
      /\ \A i \in 1..(Len(s) - 1) : Tail(s)[i] = s[i + 1]
  OBVIOUS
<1>3. ASSUME Tail(s) # <<>> PROVE AppTail(Tail(s)) = AppTail(s) /\ Len(s) > 1
  <2>1. Len(s) - 1 \in 1..(Len(s) - 1) /\ Len(s) > 1 /\ (Len(s) - 1) + 1 = Len(s)
    BY <1>1, <1>2, <1>3
  <2> QED
    BY <1>2, <2>1 DEF AppTail
<1>4. Tail(s) = <<>> => Len(s) = 1 /\ AppTail(s) = s[1]
  <2>1. Tail(s) = <<>> => Len(s) = 1
    <3> DEFINE t == Tail(s)
    <3>1. Len(t) = Len(s) - 1
      BY <1>2
    <3> HIDE DEF t
    <3>2. t = <<>> => Len(s) = 1
      BY <1>1, <3>1
    <3> QED
      BY <3>2 DEF t
  <2> QED
    BY <2>1 DEF AppTail
<1>5. s[1] \in S /\ AppTail(s) \in S
  BY <1>1 DEF AppTail
<1> QED
  BY <1>1, <1>2, <1>3, <1>4, <1>5

LEMMA GoesIs ==
    ASSUME NEW S, NEW s \in Seq(S), s # <<>>, NEW x \in S
    PROVE  LET t == <<x>> \o Tail(s)
           IN  /\ t \in Seq(S) /\ t # <<>> /\ Len(t) = Len(s) /\ t[1] = x
               /\ \A i \in 2..Len(s) : t[i] = s[i]
               /\ Len(s) = 1 => AppTail(t) = x /\ AppTail(s) = s[1]
               /\ Len(s) # 1 => AppTail(t) = AppTail(s)
<1> DEFINE t == <<x>> \o Tail(s)
<1>1. Tail(s) \in Seq(S) /\ Len(Tail(s)) = Len(s) - 1 /\ Len(s) \in Nat \ {0}
      /\ \A i \in 1..(Len(s) - 1) : Tail(s)[i] = s[i + 1]
  BY TailIs
<1>2. t \in Seq(S) /\ Len(t) = Len(s) /\ t[1] = x
  BY <1>1
<1>3. \A i \in 2..Len(s) : t[i] = Tail(s)[i - 1]
  BY <1>1
<1>4. \A i \in 2..Len(s) : t[i] = s[i]
  <2> SUFFICES ASSUME NEW i \in 2..Len(s) PROVE t[i] = s[i]
    OBVIOUS
  <2>1. i - 1 \in 1..(Len(s) - 1) /\ (i - 1) + 1 = i
    BY <1>1
  <2> QED
    BY <1>1, <1>3, <2>1
<1> HIDE DEF t
<1>5. t # <<>>
  BY <1>1, <1>2
<1> QED
  BY <1>1, <1>2, <1>4, <1>5 DEF AppTail, t

\* The first task ends with a runnable, which is the last of those posted.
LEMMA EndsIs ==
    ASSUME AppTyped, executor # <<>>, NEW r \in Runnables, App!Ends(r)
    PROVE  /\ executor' \in Seq(AppTasks) /\ posted' \in Seq(Runnables)
           /\ posted' # <<>> /\ AppTail(posted') = r
           /\ executor' # <<>> => AppTail(executor') = AppTail(executor)
           /\ executor' = <<>> => AppTail(executor) = executor[1]
           /\ WaitingAreNew => \A i \in 1..Len(executor') : executor'[i].step \in {"pair", "resolve"}
<1>1. executor \in Seq(AppTasks) /\ posted \in Seq(Runnables)
  BY DEF AppTyped
<1>2. executor' = Tail(executor) /\ posted' = Append(posted, r)
  BY DEF App!Ends
<1>3. /\ executor' \in Seq(AppTasks) /\ Len(executor') = Len(executor) - 1
      /\ Len(executor) \in Nat \ {0}
      /\ \A i \in 1..(Len(executor) - 1) : executor'[i] = executor[i + 1]
      /\ executor' # <<>> => AppTail(executor') = AppTail(executor)
      /\ executor' = <<>> => AppTail(executor) = executor[1]
  BY <1>1, <1>2, TailIs
<1>4. posted' \in Seq(Runnables) /\ posted' # <<>> /\ AppTail(posted') = r
  BY <1>1, <1>2, QueueIs
<1>5. ASSUME WaitingAreNew, NEW i \in 1..Len(executor')
      PROVE  executor'[i].step \in {"pair", "resolve"}
  <2>1. i + 1 \in 2..Len(executor) /\ i \in 1..(Len(executor) - 1)
    BY <1>3
  <2> QED
    BY <1>3, <1>5, <2>1 DEF WaitingAreNew
<1> QED
  BY <1>3, <1>4, <1>5

\* What becomes of the invariant when the first task ends with r: only "console" says
\* anything of the fields.
LEMMA EndsKeeps ==
    ASSUME AppInv, AppTyped', executor # <<>>, NEW r \in Runnables, App!Ends(r),
           UNCHANGED chosen,
           executor' = <<>> /\ r = "console" => FieldsFit',
           executor' # <<>> => UNCHANGED activeConnection \/ executor'[Len(executor')].step # "base"
    PROVE  AppInv'
<1> USE DEF AppInv, AppSafe
<1>1. /\ posted' # <<>> /\ AppTail(posted') = r
      /\ executor' # <<>> => AppTail(executor') = AppTail(executor)
      /\ \A i \in 1..Len(executor') : executor'[i].step \in {"pair", "resolve"}
      /\ executor' \in Seq(AppTasks)
  BY EndsIs
<1>2. WaitingAreNew'
  BY <1>1 DEF WaitingAreNew
<1>3. executor' # <<>> => /\ executor'[1].step \in {"pair", "resolve"}
                          /\ AppTail(executor').step \in {"pair", "resolve"}
  BY <1>1 DEF AppTail
<1>4. FoundFits' /\ LastIsChosen'
  BY <1>1, <1>3 DEF FoundFits, LastIsChosen
<1>5. OutcomeFits' /\ ShownFits' /\ Connecting'
  BY <1>1 DEF OutcomeFits, ShownFits, Connecting, App!AtRest
<1> QED
  BY <1>2, <1>4, <1>5

\* The first task goes on as t, for the same desktop.
LEMMA StepKeeps ==
    ASSUME AppInv, AppTyped', executor # <<>>, NEW t \in AppTasks,
           executor' = <<t>> \o Tail(executor), UNCHANGED chosen,
           t.kind = executor[1].kind, t.desktop = executor[1].desktop,
           t.step \in {"active", "base"} =>
              /\ t.met = t.desktop
              /\ saved'[t.desktop].is = "saved" => t.base \in saved'[t.desktop].urls,
           t.step = "base" => activeConnection' \in {t.desktop, App!None}
    PROVE  AppInv'
<1> USE DEF AppInv, AppSafe
<1>1. executor \in Seq(AppTasks)
  BY DEF AppTyped
<1>2. /\ executor' # <<>> /\ Len(executor') = Len(executor) /\ executor'[1] = t
      /\ \A i \in 2..Len(executor) : executor'[i] = executor[i]
      /\ Len(executor) = 1 => AppTail(executor') = t /\ AppTail(executor) = executor[1]
      /\ Len(executor) # 1 => AppTail(executor') = AppTail(executor)
  BY <1>1, GoesIs
<1>3. WaitingAreNew'
  BY <1>2 DEF WaitingAreNew
<1>4. FoundFits'
  <2>1. executor'[1] = t
    BY <1>2
  <2> SUFFICES ASSUME executor'[1].step \in {"active", "base"}
               PROVE  /\ executor'[1].met = executor'[1].desktop
                      /\ saved'[executor'[1].desktop].is = "saved" =>
                            executor'[1].base \in saved'[executor'[1].desktop].urls
    BY DEF FoundFits, IsAddress
  <2>2. t.step \in {"active", "base"}
    BY <2>1
  <2>3. t.met = t.desktop /\ (saved'[t.desktop].is = "saved" => t.base \in saved'[t.desktop].urls)
    BY <2>2
  <2> QED
    BY <2>1, <2>3, Zenon
<1>5. LastIsChosen'
  <2>1. CASE Len(executor) = 1
    BY <1>2, <2>1 DEF LastIsChosen
  <2>2. CASE Len(executor) # 1
    <3>1. AppTail(executor).step \in {"pair", "resolve"}
      BY <1>1, <2>2 DEF WaitingAreNew, AppTail
    <3> QED
      BY <1>2, <2>2, <3>1 DEF LastIsChosen
  <2> QED
    BY <2>1, <2>2
<1>6. OutcomeFits' /\ ShownFits' /\ Connecting'
  BY <1>2 DEF OutcomeFits, ShownFits, Connecting, App!AtRest
<1> QED
  BY <1>3, <1>4, <1>5, <1>6

LEMMA PairWithCodeKeeps == ASSUME AppInv, App!PairWithCode PROVE AppInv'
<1> DEFINE c == executor[1]
<1>1. /\ AppTyped /\ executor # <<>> /\ executor \in Seq(AppTasks)
      /\ UNCHANGED <<resolvedBaseUrl, tokenInjected, loading, token, chosen>>
  BY DEF AppInv, AppTyped, App!PairWithCode, App!Going, App!Web
<1>2. c \in AppTasks
  BY <1>1
<1>3. CASE App!Ends("setup") /\ UNCHANGED <<saved, activeId, activeConnection>>
  <2>1. "setup" \in Runnables
    BY DEF Runnables
  <2>2. executor' \in Seq(AppTasks) /\ posted' \in Seq(Runnables)
    BY <1>1, <1>3, <2>1, EndsIs
  <2>3. AppTyped'
    BY <1>1, <1>3, <2>2 DEF AppTyped
  <2> QED
    BY <1>1, <1>3, <2>1, <2>3, EndsKeeps
<1>4. CASE /\ saved' = [saved EXCEPT ![c.desktop] = c.entry]
           /\ activeConnection' = c.desktop
           /\ App!Goes([c EXCEPT !.step = "resolve"])
  <2> DEFINE t == [c EXCEPT !.step = "resolve"]
  <2>1. /\ t \in AppTasks /\ t.kind = c.kind /\ t.desktop = c.desktop /\ t.step = "resolve"
        /\ c.entry \in AppEntries /\ c.desktop \in Desktops
    BY <1>2 DEF AppTasks
  <2>2. executor' = <<t>> \o Tail(executor) /\ UNCHANGED posted
    BY <1>4 DEF App!Goes
  <2> HIDE DEF t
  <2>3. executor' \in Seq(AppTasks)
    BY <1>1, <2>1, <2>2, GoesIs
  <2>4. AppTyped'
    BY <1>1, <1>4, <2>1, <2>2, <2>3 DEF AppTyped
  <2> QED
    BY <1>1, <2>1, <2>2, <2>4, StepKeeps
<1> QED
  BY <1>3, <1>4 DEF App!PairWithCode, App!Current

LEMMA ResolveKeeps == ASSUME AppInv, App!Resolve PROVE AppInv'
<1> DEFINE c == executor[1]
<1>1. /\ AppTyped /\ executor # <<>> /\ executor \in Seq(AppTasks)
      /\ UNCHANGED <<activeConnection, resolvedBaseUrl, tokenInjected, loading, token, chosen>>
  BY DEF AppInv, AppTyped, App!Resolve, App!Going, App!Fields, App!Web
<1>2. c \in AppTasks /\ c.entry \in AppEntries /\ c.desktop \in Desktops
  <2>1. c \in AppTasks
    BY <1>1
  <2> HIDE DEF c
  <2> QED
    BY <2>1 DEF AppTasks
<1>3. CASE App!Upsert(c.desktop, c.entry) /\ App!Ends("offline")
  <2>1. "offline" \in Runnables
    BY DEF Runnables
  <2>2. executor' \in Seq(AppTasks) /\ posted' \in Seq(Runnables)
    BY <1>1, <1>3, <2>1, EndsIs
  <2>3. AppTyped'
    BY <1>1, <1>2, <1>3, <2>2 DEF AppTyped, App!Upsert
  <2> QED
    BY <1>1, <1>3, <2>1, <2>3, EndsKeeps
<1>4. ASSUME NEW url \in App!Resolves(c.desktop, c.entry),
             App!Upsert(c.desktop, App!Entry(c.entry.urls, url)),
             App!Goes([c EXCEPT !.step = "active", !.base = url, !.met = answers[url]])
      PROVE  AppInv'
  <2> DEFINE t == [c EXCEPT !.step = "active", !.base = url, !.met = answers[url]]
             e == App!Entry(c.entry.urls, url)
  <2>1. url \in c.entry.urls /\ answers[url] = c.desktop /\ url \in Urls
    BY <1>2 DEF App!Resolves, AppEntries
  <2>2. /\ t \in AppTasks /\ t.kind = c.kind /\ t.desktop = c.desktop /\ t.met = c.desktop
        /\ t.base = url /\ t.step = "active"
    BY <1>2, <2>1 DEF AppTasks
  <2>3. e \in AppEntries /\ e.urls = c.entry.urls
    BY <1>2, <2>1 DEF App!Entry, AppEntries
  <2>4. executor' = <<t>> \o Tail(executor) /\ UNCHANGED posted /\ saved' = [saved EXCEPT ![c.desktop] = e]
    BY <1>4 DEF App!Goes, App!Upsert
  <2> HIDE DEF t, e
  <2>5. executor' \in Seq(AppTasks)
    BY <1>1, <2>2, <2>4, GoesIs
  <2>6. AppTyped'
    BY <1>1, <1>2, <2>3, <2>4, <2>5 DEF AppTyped
  <2>7. t.base \in saved'[t.desktop].urls
    <3>1. saved'[c.desktop] = e
      BY <1>1, <1>2, <2>4 DEF AppTyped
    <3> QED
      BY <2>1, <2>2, <2>3, <3>1
  <2> QED
    BY <1>1, <2>2, <2>4, <2>6, <2>7, StepKeeps
<1> QED
  BY <1>3, <1>4 DEF App!Resolve, App!Current

LEMMA SetsKeep ==
    ASSUME AppInv, App!SetActiveConnection \/ App!SetResolvedBaseUrl PROVE AppInv'
<1> DEFINE c == executor[1]
<1>1. /\ AppTyped /\ executor # <<>> /\ executor \in Seq(AppTasks)
      /\ UNCHANGED <<saved, tokenInjected, loading, token, chosen>>
  BY DEF AppInv, AppTyped, App!SetActiveConnection, App!SetResolvedBaseUrl, App!Going, App!Web
<1>2. /\ c \in AppTasks /\ c.desktop \in Desktops /\ c.base \in Urls \cup {App!None}
      /\ c.kind \in {"open", "pair"} /\ c.step \in {"active", "base"}
  <2>1. c \in AppTasks
    BY <1>1
  <2>2. c.kind \in {"open", "pair"} /\ c.step \in {"active", "base"}
    BY DEF App!SetActiveConnection, App!SetResolvedBaseUrl, App!Going, App!Current
  <2> HIDE DEF c
  <2> QED
    BY <2>1, <2>2 DEF AppTasks
<1>3. c.met = c.desktop /\ IsAddress(c.desktop, c.base)
  BY <1>1, <1>2 DEF AppInv, AppSafe, FoundFits
<1>4. CASE App!SetActiveConnection
  <2> DEFINE t == [c EXCEPT !.step = "base"]
  <2>1. /\ t \in AppTasks /\ t.kind = c.kind /\ t.desktop = c.desktop /\ t.met = c.met
        /\ t.base = c.base
    BY <1>2 DEF AppTasks
  <2>2. /\ executor' = <<t>> \o Tail(executor) /\ activeConnection' = c.desktop
        /\ UNCHANGED <<posted, resolvedBaseUrl>>
    BY <1>4 DEF App!SetActiveConnection, App!Goes, App!Current
  <2> HIDE DEF t
  <2>3. executor' \in Seq(AppTasks)
    BY <1>1, <2>1, <2>2, GoesIs
  <2>4. AppTyped'
    BY <1>1, <1>2, <2>2, <2>3 DEF AppTyped
  <2>5. saved'[t.desktop].is = "saved" => t.base \in saved'[t.desktop].urls
    BY <1>1, <1>3, <2>1 DEF IsAddress
  <2> QED
    BY <1>1, <1>3, <2>1, <2>2, <2>4, <2>5, StepKeeps
<1>5. CASE App!SetResolvedBaseUrl
  <2>1. "console" \in Runnables
    BY DEF Runnables
  <2>2. resolvedBaseUrl' = c.base /\ met' = c.met /\ App!Ends("console") /\ UNCHANGED activeConnection
        /\ c.step = "base"
    BY <1>5 DEF App!SetResolvedBaseUrl, App!Current, App!Going
  <2>3. /\ executor' \in Seq(AppTasks) /\ posted' \in Seq(Runnables)
        /\ executor' = <<>> => AppTail(executor) = c
    BY <1>1, <2>1, <2>2, EndsIs
  <2>4. AppTyped'
    BY <1>1, <1>2, <2>2, <2>3 DEF AppTyped
  <2>5. ASSUME executor' = <<>> PROVE FieldsFit'
    <3>1. c.desktop = chosen /\ activeConnection \in {chosen, App!None}
      BY <1>1, <1>2, <2>2, <2>3, <2>5 DEF AppInv, AppSafe, LastIsChosen
    <3> QED
      BY <1>1, <1>2, <1>3, <2>2, <3>1 DEF FieldsFit, IsAddress
  <2> QED
    BY <1>1, <2>1, <2>2, <2>4, <2>5, EndsKeeps
<1> QED
  BY <1>4, <1>5

LEMMA RefreshKeeps == ASSUME AppInv, App!Refresh PROVE AppInv'
<1>1. /\ AppTyped /\ executor # <<>> /\ executor \in Seq(AppTasks)
      /\ UNCHANGED <<activeConnection, resolvedBaseUrl, tokenInjected, loading, token, chosen>>
      /\ App!Ends("home")
  BY DEF AppInv, AppTyped, App!Refresh, App!Going, App!Fields, App!Web
<1>2. "home" \in Runnables
  BY DEF Runnables
<1>3. executor' \in Seq(AppTasks) /\ posted' \in Seq(Runnables)
  BY <1>1, <1>2, EndsIs
<1>4. saved' \in [Desktops -> AppEntries]
  <2>1. PICK found \in [App!List -> Urls \cup {App!None}] :
           saved' = [desktop \in Desktops |->
                 IF desktop \in App!List /\ found[desktop] # App!None
                 THEN App!Entry(saved[desktop].urls, found[desktop]) ELSE saved[desktop]]
    BY DEF App!Refresh
  <2>2. \A d \in Desktops : saved[d] \in AppEntries
    BY <1>1 DEF AppTyped
  <2>3. \A d \in Desktops : d \in App!List => App!Entry(saved[d].urls, found[d]) \in AppEntries
    BY <2>1, <2>2 DEF App!Entry, AppEntries
  <2> QED
    BY <2>1, <2>2, <2>3
<1>5. AppTyped'
  BY <1>1, <1>3, <1>4 DEF AppTyped
<1> QED
  BY <1>1, <1>2, <1>5, EndsKeeps

LEMMA AppInvImplies == AppInv => App!ConsoleIsTheChosen /\ App!NotLeftConnecting
<1> SUFFICES ASSUME AppInv PROVE App!ConsoleIsTheChosen /\ App!NotLeftConnecting
  OBVIOUS
<1>1. App!NotLeftConnecting
  BY DEF AppInv, AppSafe, Connecting, App!NotLeftConnecting
<1>2. ASSUME App!AtRest, screen = "console"
      PROVE  /\ activeConnection = chosen /\ view = resolvedBaseUrl /\ met = chosen
             /\ saved[chosen].is = "saved" => view \in saved[chosen].urls
             /\ loading = <<>> => token[view] = chosen
  <2>1. /\ FieldsFit /\ activeConnection # App!None
        /\ view = resolvedBaseUrl /\ view \in Urls
        /\ tokenInjected => token[view] = chosen
        /\ ~tokenInjected => \E i \in DOMAIN loading : loading[i] = view
    BY <1>2 DEF AppInv, AppSafe, ShownFits
  <2>2. loading = <<>> => tokenInjected
    <3>1. loading = <<>> => DOMAIN loading = {}
      OBVIOUS
    <3> QED
      BY <2>1, <3>1
  <2> QED
    BY <2>1, <2>2 DEF FieldsFit, IsAddress
<1> QED
  BY <1>1, <1>2 DEF App!ConsoleIsTheChosen

LEMMA TaskIs ==
    ASSUME AppTyped, NEW kind \in {"open", "pair", "refresh"}, NEW desktop \in Desktops
    PROVE  LET t == App!Task(kind, desktop)
           IN  t \in AppTasks /\ t.kind = kind /\ t.desktop = desktop /\ t.step = "resolve"
BY DEF AppTyped, App!Task, AppTasks

\* A tap: the screen is the app's own, and a task for what is asked for now is queued.
LEMMA TapKeeps ==
    ASSUME AppInv, AppTyped', NEW t \in AppTasks, executor' = Append(executor, t),
           t.step \in {"pair", "resolve"}, t.kind = "refresh" \/ t.desktop = chosen',
           \A d \in Desktops : \A url :
              IsAddress(d, url) => (saved'[d].is = "saved" => url \in saved'[d].urls)
    PROVE  AppInv'
<1> USE DEF AppInv, AppSafe
<1>1. executor \in Seq(AppTasks)
  BY DEF AppTyped
<1>2. /\ executor' # <<>> /\ AppTail(executor') = t
      /\ Len(executor') = Len(executor) + 1 /\ executor'[Len(executor) + 1] = t
      /\ \A i \in 1..Len(executor) : executor'[i] = executor[i]
      /\ executor # <<>> => executor'[1] = executor[1]
      /\ executor = <<>> => executor'[1] = t
  BY <1>1, QueueIs
<1>3. WaitingAreNew'
  <2> SUFFICES ASSUME NEW i \in 2..Len(executor') PROVE executor'[i].step \in {"pair", "resolve"}
    BY DEF WaitingAreNew
  <2>1. i \in 2..Len(executor) \/ i = Len(executor) + 1
    BY <1>1, <1>2
  <2> QED
    BY <1>1, <1>2, <2>1 DEF WaitingAreNew
<1>4. FoundFits'
  <2> SUFFICES ASSUME executor'[1].step \in {"active", "base"}
               PROVE  /\ executor'[1].met = executor'[1].desktop
                      /\ saved'[executor'[1].desktop].is = "saved" =>
                            executor'[1].base \in saved'[executor'[1].desktop].urls
    BY DEF FoundFits, IsAddress
  <2> DEFINE c == executor[1]
  <2>1. executor # <<>> /\ executor'[1] = c
    BY <1>2
  <2>2. c \in AppTasks
    BY <1>1, <2>1
  <2>3. c.desktop \in Desktops
    <3> HIDE DEF c
    <3> QED
      BY <2>2 DEF AppTasks
  <2>4. c.step \in {"active", "base"}
    BY <2>1
  <2>5. c.met = c.desktop /\ IsAddress(c.desktop, c.base)
    BY <2>1, <2>4 DEF FoundFits
  <2> HIDE DEF c
  <2>6. saved'[c.desktop].is = "saved" => c.base \in saved'[c.desktop].urls
    BY <2>3, <2>5
  <2> QED
    BY <2>1, <2>5, <2>6, Zenon
<1>5. LastIsChosen'
  BY <1>2 DEF LastIsChosen
<1>6. OutcomeFits' /\ ShownFits' /\ Connecting'
  BY <1>2 DEF OutcomeFits, ShownFits, Connecting, App!AtRest
<1> QED
  BY <1>3, <1>4, <1>5, <1>6

LEMMA TapsKeep ==
    ASSUME AppInv,
           \/ \E d \in Desktops : App!Open(d) \/ \E url \in Urls : App!AddEndpoint(d, url) \/ App!Pair(d, url)
           \/ App!Home
    PROVE  AppInv'
<1> USE DEF App!Fields, App!Web
<1>1. AppTyped
  BY DEF AppInv
<1>2. executor \in Seq(AppTasks)
  BY <1>1 DEF AppTyped
<1>3. ASSUME NEW t \in AppTasks, executor' = Append(executor, t) PROVE executor' \in Seq(AppTasks)
  BY <1>2, <1>3, QueueIs
<1>4. ASSUME UNCHANGED saved
      PROVE  \A d \in Desktops : \A url :
                IsAddress(d, url) => (saved'[d].is = "saved" => url \in saved'[d].urls)
  BY <1>4 DEF IsAddress
<1>5. ASSUME NEW d \in Desktops, App!Open(d) PROVE AppInv'
  <2> DEFINE t == App!Task("open", d)
  <2>1. t \in AppTasks /\ t.kind = "open" /\ t.desktop = d /\ t.step = "resolve"
    BY <1>1, TaskIs
  <2>2. /\ executor' = Append(executor, t) /\ chosen' = d /\ activeConnection' = d
        /\ UNCHANGED <<saved, posted, loading, token, resolvedBaseUrl, tokenInjected>>
    BY <1>5 DEF App!Open
  <2> HIDE DEF t
  <2>3. AppTyped'
    BY <1>1, <1>3, <2>1, <2>2 DEF AppTyped
  <2> QED
    BY <1>4, <2>1, <2>2, <2>3, TapKeeps
<1>6. ASSUME NEW d \in Desktops, NEW url \in Urls, App!AddEndpoint(d, url) PROVE AppInv'
  <2> DEFINE e == App!Entry(saved[d].urls \cup {url}, saved[d].last)
             u == App!Task("open", d)
             t == [u EXCEPT !.entry = e]
  <2>1. saved[d] \in AppEntries
    BY <1>1 DEF AppTyped
  <2>2. e \in AppEntries /\ e.is = "saved" /\ saved[d].urls \subseteq e.urls
    BY <2>1 DEF App!Entry, AppEntries
  <2>3. u \in AppTasks /\ u.kind = "open" /\ u.desktop = d /\ u.step = "resolve"
    BY <1>1, TaskIs
  <2>4. /\ executor' = Append(executor, t) /\ chosen' = d /\ activeConnection' = d
        /\ saved' = [saved EXCEPT ![d] = e] /\ saved[d].is = "saved"
        /\ UNCHANGED <<posted, loading, token, resolvedBaseUrl, tokenInjected>>
    BY <1>6 DEF App!AddEndpoint, App!List
  <2> HIDE DEF e, u
  <2>5. t \in AppTasks /\ t.kind = "open" /\ t.desktop = d /\ t.step = "resolve"
    BY <2>2, <2>3 DEF AppTasks
  <2> HIDE DEF t
  <2>6. AppTyped'
    BY <1>1, <1>3, <2>2, <2>4, <2>5 DEF AppTyped
  <2>7. \A x \in Desktops : \A w :
            IsAddress(x, w) => (saved'[x].is = "saved" => w \in saved'[x].urls)
    <3>1. saved'[d] = e /\ \A x \in Desktops \ {d} : saved'[x] = saved[x]
      BY <1>1, <2>4 DEF AppTyped
    <3> QED
      BY <2>2, <2>4, <3>1 DEF IsAddress
  <2> QED
    BY <2>4, <2>5, <2>6, <2>7, TapKeeps
<1>7. ASSUME NEW d \in Desktops, NEW url \in Urls, App!Pair(d, url) PROVE AppInv'
  <2> DEFINE u == App!Task("pair", d)
             e == App!Entry({url}, url)
             t == [u EXCEPT !.entry = e, !.step = "pair"]
  <2>1. u \in AppTasks /\ u.kind = "pair" /\ u.desktop = d
    BY <1>1, TaskIs
  <2>2. e \in AppEntries
    BY DEF App!Entry, AppEntries
  <2>3. /\ executor' = Append(executor, t) /\ chosen' = d
        /\ UNCHANGED <<saved, posted, loading, token, activeConnection, resolvedBaseUrl, tokenInjected>>
    BY <1>7 DEF App!Pair
  <2> HIDE DEF u, e
  <2>4. t \in AppTasks /\ t.desktop = d /\ t.step = "pair"
    BY <2>1, <2>2 DEF AppTasks
  <2> HIDE DEF t
  <2>5. AppTyped'
    BY <1>1, <1>3, <2>3, <2>4 DEF AppTyped
  <2> QED
    BY <1>4, <2>3, <2>4, <2>5, TapKeeps
<1>8. CASE App!Home
  <2> DEFINE d == CHOOSE x \in Desktops : TRUE
             u == App!Task("refresh", d)
             t == [u EXCEPT !.entry = App!Absent]
  <2>1. d \in Desktops
    BY <1>1 DEF AppTyped
  <2>2. u \in AppTasks /\ u.kind = "refresh" /\ u.step = "resolve"
    <3> HIDE DEF d
    <3> QED
      BY <1>1, <2>1, TaskIs
  <2>3. App!Absent \in AppEntries
    BY DEF App!Absent, AppEntries
  <2>4. /\ executor' = Append(executor, t)
        /\ UNCHANGED <<saved, posted, loading, token, activeConnection, resolvedBaseUrl, tokenInjected>>
    BY <1>8 DEF App!Home
  <2> HIDE DEF u
  <2>5. t \in AppTasks /\ t.kind = "refresh" /\ t.step = "resolve"
    BY <2>2, <2>3 DEF AppTasks
  <2> HIDE DEF t
  <2>6. AppTyped'
    BY <1>1, <1>3, <2>4, <2>5 DEF AppTyped
  <2> QED
    BY <1>4, <2>4, <2>5, <2>6, TapKeeps
<1> QED
  BY <1>5, <1>6, <1>7, <1>8

LEMMA AppDeleteKeeps ==
    ASSUME AppInv, NEW d \in Desktops, App!Delete(d) PROVE AppInv'
<1> USE DEF AppInv, AppSafe
<1>1. /\ saved' = [saved EXCEPT ![d] = App!Absent] /\ screen' = "home"
      /\ UNCHANGED <<executor, posted, loading, token, chosen, met, tokenInjected>>
      /\ IF activeConnection = d THEN activeConnection' = App!None /\ resolvedBaseUrl' = App!None
         ELSE UNCHANGED <<activeConnection, resolvedBaseUrl>>
  BY DEF App!Delete, App!Render
<1>2. App!Absent \in AppEntries /\ App!Absent.is = "absent"
  BY DEF App!Absent, AppEntries
<1>3. AppTyped'
  BY <1>1, <1>2 DEF AppTyped
<1>4. \A x \in Desktops : \A u :
          IsAddress(x, u) => (saved'[x].is = "saved" => u \in saved'[x].urls)
  <2>1. saved'[d] = App!Absent /\ \A x \in Desktops \ {d} : saved'[x] = saved[x]
    BY <1>1 DEF AppTyped
  <2> QED
    BY <1>2, <2>1 DEF IsAddress
<1>5. FoundFits'
  <2> SUFFICES ASSUME executor # <<>>, executor[1].step \in {"active", "base"}
               PROVE  /\ executor[1].met = executor[1].desktop
                      /\ saved'[executor[1].desktop].is = "saved" =>
                            executor[1].base \in saved'[executor[1].desktop].urls
    BY <1>1 DEF FoundFits, IsAddress
  <2> DEFINE c == executor[1]
  <2>1. c \in AppTasks /\ c.met = c.desktop /\ IsAddress(c.desktop, c.base)
    BY DEF FoundFits, AppTyped
  <2> HIDE DEF c
  <2>2. c.desktop \in Desktops
    BY <2>1 DEF AppTasks
  <2>3. saved'[c.desktop].is = "saved" => c.base \in saved'[c.desktop].urls
    BY <1>4, <2>1, <2>2
  <2> QED
    BY <2>1, <2>3 DEF c
<1>6. FieldsFit => FieldsFit'
  <2>1. CASE activeConnection = d
    BY <1>1, <2>1 DEF FieldsFit
  <2>2. CASE activeConnection # d
    BY <1>1, <1>4, <2>2 DEF FieldsFit, IsAddress
  <2> QED
    BY <2>1, <2>2
<1>7. WaitingAreNew' /\ LastIsChosen'
  BY <1>1 DEF WaitingAreNew, LastIsChosen
<1>8. OutcomeFits' /\ ShownFits' /\ Connecting'
  BY <1>1, <1>6 DEF OutcomeFits, ShownFits, Connecting, App!AtRest
<1> QED
  BY <1>3, <1>5, <1>7, <1>8

LEMMA RunPostedKeeps == ASSUME AppInv, App!RunPosted PROVE AppInv'
<1> USE DEF AppInv, AppSafe
<1>1. posted # <<>> /\ posted \in Seq(Runnables) /\ posted' = Tail(posted)
  BY DEF App!RunPosted, AppTyped
<1>2. /\ posted' \in Seq(Runnables)
      /\ posted' # <<>> => AppTail(posted') = AppTail(posted)
      /\ posted' = <<>> => AppTail(posted) = posted[1]
      /\ posted[1] \in Runnables /\ Head(posted) = posted[1]
  BY <1>1, TailIs
<1>3. UNCHANGED <<saved, activeConnection, resolvedBaseUrl, executor, token, chosen, met>>
  BY DEF App!RunPosted
<1>4. WaitingAreNew' /\ FoundFits' /\ LastIsChosen'
  BY <1>3 DEF WaitingAreNew, FoundFits, LastIsChosen, IsAddress
<1>5. FieldsFit' <=> FieldsFit
  BY <1>3 DEF FieldsFit, IsAddress
<1>6. OutcomeFits'
  BY <1>2, <1>3, <1>5, <1>1 DEF OutcomeFits
<1>7. CASE Head(posted) = "console" /\ activeConnection # App!None /\ resolvedBaseUrl # App!None
  <2>1. /\ screen' = "console" /\ view' = resolvedBaseUrl /\ tokenInjected' = FALSE
        /\ loading' = Append(loading, resolvedBaseUrl)
    BY <1>7 DEF App!RunPosted, App!RenderWebConsole
  <2>2. resolvedBaseUrl \in Urls /\ loading \in Seq(Urls)
    BY <1>7 DEF AppTyped
  <2>3. /\ loading' \in Seq(Urls) /\ Len(loading') = Len(loading) + 1 /\ Len(loading) \in Nat
        /\ loading'[Len(loading) + 1] = resolvedBaseUrl
    BY <2>1, <2>2
  <2>4. \E k \in DOMAIN loading' : loading'[k] = resolvedBaseUrl
    BY <2>3
  <2>5. AppTyped'
    BY <1>2, <1>3, <2>1, <2>3 DEF AppTyped
  <2>6. ShownFits'
    <3>1. App!AtRest' => FieldsFit
      BY <1>1, <1>2, <1>3, <1>7 DEF OutcomeFits, App!AtRest
    <3> QED
      BY <1>3, <1>5, <1>7, <2>1, <2>2, <2>4, <3>1 DEF ShownFits
  <2>7. Connecting'
    BY <2>1 DEF Connecting
  <2> QED
    BY <1>4, <1>6, <2>5, <2>6, <2>7
<1>8. CASE ~(Head(posted) = "console" /\ activeConnection # App!None /\ resolvedBaseUrl # App!None)
  <2>1. screen' \in {"home", "setup", "offline"} /\ UNCHANGED <<tokenInjected, loading>>
    BY <1>2, <1>8 DEF App!RunPosted, App!RenderWebConsole, App!Render, Runnables
  <2>2. AppTyped'
    BY <1>2, <1>3, <2>1 DEF AppTyped
  <2>3. ShownFits' /\ Connecting'
    BY <2>1 DEF ShownFits, Connecting
  <2> QED
    BY <1>4, <1>6, <2>2, <2>3
<1> QED
  BY <1>7, <1>8

\* A page that is finished is given the token once; until then the console's own page is
\* one of those that load.
LEMMA PagesKeep ==
    ASSUME AppInv, NEW i \in DOMAIN loading, App!PageFinished(i) \/ App!PageFails(i)
    PROVE  AppInv'
<1> USE DEF AppInv, AppSafe
<1>1. UNCHANGED <<saved, executor, posted, activeConnection, resolvedBaseUrl, chosen, met>>
  BY DEF App!PageFinished, App!PageFails, App!Fields
<1>2. WaitingAreNew' /\ FoundFits' /\ LastIsChosen' /\ OutcomeFits'
  BY <1>1 DEF WaitingAreNew, FoundFits, LastIsChosen, OutcomeFits, FieldsFit, IsAddress
<1>3. loading \in Seq(Urls) /\ loading[i] \in Urls
  BY DEF AppTyped
<1>4. /\ App!RemoveAt(loading, i) \in Seq(Urls)
      /\ \A j \in DOMAIN loading \ {i} :
            \E k \in DOMAIN App!RemoveAt(loading, i) : App!RemoveAt(loading, i)[k] = loading[j]
  BY <1>3, AppRemove
<1>5. CASE App!PageFails(i)
  <2>1. screen' = "offline" /\ loading' = App!RemoveAt(loading, i) /\ UNCHANGED <<token, tokenInjected>>
    BY <1>5 DEF App!PageFails, App!Render, App!Fields
  <2>2. AppTyped'
    BY <1>1, <1>4, <2>1 DEF AppTyped
  <2>3. ShownFits' /\ Connecting'
    BY <2>1 DEF ShownFits, Connecting
  <2> QED
    BY <1>2, <2>2, <2>3
<1>6. CASE App!PageFinished(i)
  <2>1. UNCHANGED <<screen, view>>
    BY <1>6 DEF App!PageFinished
  <2>2. Connecting'
    BY <1>1, <2>1 DEF Connecting, App!AtRest
  <2>3. CASE ~tokenInjected /\ loading[i] = resolvedBaseUrl /\ activeConnection # App!None
    <3>1. /\ tokenInjected' = TRUE /\ loading' = loading
          /\ token' = [token EXCEPT ![loading[i]] = activeConnection]
      BY <1>6, <2>3 DEF App!PageFinished
    <3>2. AppTyped'
      BY <1>1, <1>3, <2>3, <3>1 DEF AppTyped
    <3>3. token'[resolvedBaseUrl] = activeConnection
      BY <1>3, <2>3, <3>1 DEF AppTyped
    <3>4. ShownFits'
      BY <1>1, <2>1, <2>3, <3>1, <3>3 DEF ShownFits, FieldsFit, IsAddress, App!AtRest
    <3> QED
      BY <1>2, <2>2, <3>2, <3>4
  <2>4. CASE ~(~tokenInjected /\ loading[i] = resolvedBaseUrl /\ activeConnection # App!None)
    <3>1. loading' = App!RemoveAt(loading, i) /\ UNCHANGED <<token, tokenInjected>>
      BY <1>6, <2>4 DEF App!PageFinished
    <3>2. AppTyped'
      BY <1>1, <1>4, <3>1 DEF AppTyped
    <3>3. ShownFits'
      <4> SUFFICES ASSUME App!AtRest, screen = "console"
                   PROVE  /\ FieldsFit' /\ activeConnection # App!None
                          /\ view = resolvedBaseUrl /\ view \in Urls
                          /\ tokenInjected => token[view] = chosen
                          /\ ~tokenInjected => \E k \in DOMAIN loading' : loading'[k] = view
        BY <1>1, <2>1, <3>1 DEF ShownFits, App!AtRest
      <4>1. /\ FieldsFit /\ activeConnection # App!None
            /\ view = resolvedBaseUrl /\ view \in Urls
            /\ tokenInjected => token[view] = chosen
            /\ ~tokenInjected => \E j \in DOMAIN loading : loading[j] = view
        BY DEF ShownFits
      <4>2. FieldsFit'
        BY <1>1, <4>1 DEF FieldsFit, IsAddress
      <4>3. ASSUME ~tokenInjected PROVE \E k \in DOMAIN loading' : loading'[k] = view
        <5>1. PICK j \in DOMAIN loading : loading[j] = view
          BY <4>1, <4>3
        <5>2. j # i
          BY <2>4, <4>1, <4>3, <5>1
        <5> QED
          BY <1>4, <3>1, <5>1, <5>2
      <4> QED
        BY <4>1, <4>2, <4>3
    <3> QED
      BY <1>2, <2>2, <3>2, <3>3
  <2> QED
    BY <2>3, <2>4
<1> QED
  BY <1>5, <1>6

LEMMA AppNext == ASSUME AppInv, [App!Next]_AppVars PROVE AppInv'
<1>1. CASE UNCHANGED AppVars
  BY <1>1 DEF AppVars, AppInv, AppTyped, AppSafe, WaitingAreNew, FoundFits, LastIsChosen, OutcomeFits,
     ShownFits, Connecting, FieldsFit, IsAddress, App!AtRest
<1>2. ASSUME NEW url \in Urls, App!Moves(url) PROVE AppInv'
  BY <1>2 DEF App!Moves, App!Fields, App!Web, AppInv, AppTyped, AppSafe, WaitingAreNew, FoundFits,
     LastIsChosen, OutcomeFits, ShownFits, Connecting, FieldsFit, IsAddress, App!AtRest
<1>3. CASE App!Next
  BY <1>2, <1>3, TapsKeep, AppDeleteKeeps, RunPostedKeeps, PagesKeep, PairWithCodeKeeps, ResolveKeeps,
     SetsKeep, RefreshKeeps DEF App!Next
<1> QED
  BY <1>1, <1>3

LEMMA AppRests == [EdgesNext]_<<focus, vars, edges>> => [App!Next]_AppVars
BY DEF EdgesNext, edges, OthersRest

-----------------------------------------------------------------------------
(* The console: VoiceInput.                                                *)

VoiceRequests ==
    [id : Nat, final : BOOLEAN, seq : Nat, of : Nat, answer : {"none", "text", "error"}]
VoiceEndings == [awaits : Nat, sent : Nat]

VoiceTyped ==
    /\ asking \in Nat /\ recordings \in Nat /\ previewSeq \in Nat
    /\ promise \in Nat /\ requested \in Nat
    /\ transcripts \subseteq VoiceRequests /\ ending \subseteq VoiceEndings
    /\ voiceState \in {"idle", "recording", "transcribing"}

\* One phase after the other: the microphone is asked for once, only while nothing else
\* goes on; a recording has one microphone, one timer and at most the preview its promise
\* stands for; its end waits for that preview, and then for its one final request.
IdlePhase ==
    /\ asking \in {0, 1}
    /\ mics = {} /\ timers = {} /\ transcripts = {} /\ ending = {} /\ flags = {}
RecordingPhase ==
    /\ asking = 0
    /\ mics = {mic} /\ timers = {mic} /\ ending = {} /\ "finalizing" \notin flags
    /\ \A q \in transcripts : ~q.final /\ q.id = promise
    /\ \A p, q \in transcripts : p = q
    /\ transcripts # {} => "inFlight" \in flags
TranscribingPhase ==
    /\ asking = 0
    /\ mics = {} /\ timers = {} /\ "finalizing" \in flags
    /\ \A p, q \in transcripts : p = q
    /\ \E e \in VoiceEndings :
          /\ ending = {e}
          /\ \A q \in transcripts :
                IF e.sent = 0 THEN ~q.final /\ q.id = e.awaits ELSE q.final /\ q.id = e.sent

VoiceSafe ==
    /\ voiceState = "idle" => IdlePhase
    /\ voiceState = "recording" => RecordingPhase
    /\ voiceState = "transcribing" => TranscribingPhase
VoiceInv == VoiceTyped /\ (overlapped \/ VoiceSafe)

LEMMA VoiceInit == Voice!Init => VoiceInv
<1> SUFFICES ASSUME Voice!Init PROVE VoiceTyped /\ VoiceSafe
  BY DEF VoiceInv
<1>1. VoiceTyped
  BY DEF Voice!Init, VoiceTyped
<1>2. VoiceSafe
  BY DEF Voice!Init, VoiceSafe, IdlePhase
<1> QED
  BY <1>1, <1>2

\* A request more, or an answer.
LEMMA RequestIs ==
    ASSUME VoiceTyped, NEW final \in BOOLEAN, NEW n \in Nat, Voice!Request(final, n)
    PROVE  \E q \in VoiceRequests :
              /\ q.id = requested + 1 /\ q.final = final
              /\ transcripts' = transcripts \cup {q} /\ requested' = requested + 1
<1> DEFINE q == [id |-> requested + 1, final |-> final, seq |-> n, of |-> recordings,
                 answer |-> "none"]
<1>1. q \in VoiceRequests /\ q.id = requested + 1 /\ q.final = final
  BY DEF VoiceTyped, VoiceRequests
<1>2. transcripts' = transcripts \cup {q} /\ requested' = requested + 1
  BY DEF Voice!Request
<1> QED
  BY <1>1, <1>2

LEMMA AnswerIs ==
    ASSUME VoiceTyped, NEW q \in transcripts, Voice!Transcribe(q)
    PROVE  \E p \in VoiceRequests :
              /\ p.id = q.id /\ p.final = q.final
              /\ transcripts' = (transcripts \ {q}) \cup {p}
<1>1. q \in VoiceRequests
  BY DEF VoiceTyped
<1>2. \A answer \in {"text", "error"} :
          /\ [q EXCEPT !.answer = answer] \in VoiceRequests
          /\ [q EXCEPT !.answer = answer].id = q.id /\ [q EXCEPT !.answer = answer].final = q.final
  BY <1>1 DEF VoiceRequests
<1> QED
  BY <1>2 DEF Voice!Transcribe, Voice!Transcribed, Voice!TranscribeFails

LEMMA VoiceTypes == ASSUME VoiceTyped, Voice!Next PROVE VoiceTyped'
<1> USE DEF VoiceTyped, Voice!Mic, Voice!StopVoiceStream
<1>1. CASE Voice!ToggleOn
  BY <1>1 DEF Voice!ToggleOn
<1>11. CASE Voice!MicOpens \/ Voice!MicFails \/ Voice!Samples
  BY <1>11 DEF Voice!MicOpens, Voice!MicFails, Voice!Samples
<1>2. CASE Voice!RequestVoicePreview
  <2>1. UNCHANGED <<asking, recordings, voiceState, ending>>
    BY <1>2 DEF Voice!RequestVoicePreview
  <2>2. CASE UNCHANGED <<previewSeq, promise, transcripts, requested>>
    BY <2>1, <2>2
  <2>3. CASE /\ previewSeq' = previewSeq + 1 /\ promise' = requested + 1
             /\ Voice!Request(FALSE, previewSeq + 1)
    <3>1. previewSeq + 1 \in Nat /\ FALSE \in BOOLEAN
      OBVIOUS
    <3>2. \E q \in VoiceRequests : transcripts' = transcripts \cup {q} /\ requested' = requested + 1
      BY <2>3, <3>1, RequestIs, Zenon
    <3> QED
      BY <2>1, <2>3, <3>2
  <2> QED
    BY <1>2, <2>2, <2>3, Zenon DEF Voice!RequestVoicePreview
<1>3. CASE Voice!ToggleOff
  <2>1. [awaits |-> promise, sent |-> 0] \in VoiceEndings
    BY DEF VoiceEndings
  <2> QED
    BY <1>3, <2>1 DEF Voice!ToggleOff
<1>4. ASSUME NEW q \in transcripts, Voice!Transcribe(q) PROVE VoiceTyped'
  <2>1. transcripts' \subseteq VoiceRequests
    BY <1>4, AnswerIs
  <2> QED
    BY <1>4, <2>1 DEF Voice!Transcribe
<1>5. ASSUME NEW q \in transcripts, Voice!PreviewArrives(q) PROVE VoiceTyped'
  BY <1>5 DEF Voice!PreviewArrives
<1>6. ASSUME NEW e \in ending, Voice!SendFinal(e) PROVE VoiceTyped'
  <2>1. transcripts' \subseteq VoiceRequests /\ requested' \in Nat
    <3>1. Voice!Request(TRUE, 0) /\ TRUE \in BOOLEAN
      BY <1>6, Zenon DEF Voice!SendFinal
    <3>2. 0 \in Nat
      OBVIOUS
    <3>3. \E q \in VoiceRequests : transcripts' = transcripts \cup {q} /\ requested' = requested + 1
      BY <3>1, <3>2, RequestIs, Zenon
    <3> QED
      BY <3>3
  <2>2. [e EXCEPT !.sent = requested + 1] \in VoiceEndings
    <3>1. e \in VoiceEndings
      OBVIOUS
    <3> QED
      BY <3>1 DEF VoiceEndings
  <2> QED
    BY <1>6, <2>1, <2>2 DEF Voice!SendFinal
<1>7. ASSUME NEW e \in ending, NEW q \in transcripts, Voice!FinalArrives(e, q) PROVE VoiceTyped'
  BY <1>7 DEF Voice!FinalArrives
<1> QED
  BY <1>1, <1>11, <1>2, <1>3, <1>4, <1>5, <1>6, <1>7 DEF Voice!Next

LEMMA VoicePhases ==
    ASSUME VoiceTyped, VoiceSafe, Voice!Next, ~overlapped, ~overlapped' PROVE VoiceSafe'
<1> USE DEF VoiceSafe, Voice!Mic, Voice!StopVoiceStream
<1>1. CASE Voice!ToggleOn
  <2>1. ~(asking > 0) /\ voiceState = "idle"
    BY <1>1, Zenon DEF Voice!ToggleOn
  <2>2. asking' = asking + 1 /\ UNCHANGED <<voiceState, mics, timers, transcripts, ending, flags>>
    BY <1>1 DEF Voice!ToggleOn
  <2> QED
    BY <2>1, <2>2 DEF IdlePhase
<1>2. CASE Voice!MicOpens
  <2>1. voiceState = "idle" /\ asking = 1
    BY <1>2 DEF Voice!MicOpens, IdlePhase, RecordingPhase, TranscribingPhase, VoiceTyped
  <2> QED
    BY <1>2, <2>1 DEF Voice!MicOpens, IdlePhase, RecordingPhase
<1>3. CASE Voice!MicFails
  <2>1. voiceState = "idle" /\ asking = 1
    BY <1>3 DEF Voice!MicFails, IdlePhase, RecordingPhase, TranscribingPhase, VoiceTyped
  <2> QED
    BY <1>3, <2>1 DEF Voice!MicFails, IdlePhase
<1>4. CASE Voice!Samples
  BY <1>4 DEF Voice!Samples, IdlePhase, RecordingPhase, TranscribingPhase
<1>5. CASE Voice!RequestVoicePreview
  <2>1. voiceState = "recording" /\ RecordingPhase
    BY <1>5 DEF Voice!RequestVoicePreview, IdlePhase, TranscribingPhase, VoiceTyped
  <2>2. CASE "inFlight" \in flags
    BY <1>5, <2>1, <2>2 DEF Voice!RequestVoicePreview, RecordingPhase
  <2>3. CASE "inFlight" \notin flags
    <3>1. /\ Voice!Request(FALSE, previewSeq + 1) /\ promise' = requested + 1
          /\ flags' = (flags \cup {"inFlight"}) \ {"pending"}
      BY <1>5, <2>3, Zenon DEF Voice!RequestVoicePreview
    <3>4. UNCHANGED <<voiceState, asking, mics, timers, mic, ending>>
      BY <1>5 DEF Voice!RequestVoicePreview
    <3>5. previewSeq + 1 \in Nat /\ FALSE \in BOOLEAN
      BY DEF VoiceTyped
    <3>2. PICK q \in VoiceRequests :
              q.id = requested + 1 /\ q.final = FALSE /\ transcripts' = transcripts \cup {q}
      BY <3>1, <3>5, RequestIs, Zenon
    <3>3. transcripts' = {q}
      BY <2>1, <2>3, <3>2 DEF RecordingPhase
    <3> QED
      BY <2>1, <3>1, <3>2, <3>3, <3>4 DEF RecordingPhase
  <2> QED
    BY <2>2, <2>3
<1>6. CASE Voice!ToggleOff
  <2> DEFINE e == [awaits |-> promise, sent |-> 0]
  <2>1. RecordingPhase /\ voiceState' = "transcribing"
    BY <1>6 DEF Voice!ToggleOff
  <2>2. e \in VoiceEndings /\ e.sent = 0 /\ e.awaits = promise
    BY DEF VoiceEndings, VoiceTyped
  <2>3. /\ ending' = {e} /\ mics' = {} /\ timers' = {} /\ "finalizing" \in flags'
        /\ UNCHANGED <<asking, transcripts>>
    BY <1>6, <2>1 DEF Voice!ToggleOff, RecordingPhase
  <2> HIDE DEF e
  <2> QED
    BY <2>1, <2>2, <2>3 DEF RecordingPhase, TranscribingPhase
<1>7. ASSUME NEW q \in transcripts, Voice!Transcribe(q) PROVE VoiceSafe'
  <2>1. PICK p \in VoiceRequests :
            p.id = q.id /\ p.final = q.final /\ transcripts' = (transcripts \ {q}) \cup {p}
    BY <1>7, AnswerIs
  <2>2. UNCHANGED <<voiceState, asking, mics, timers, mic, flags, promise, ending>>
    BY <1>7 DEF Voice!Transcribe
  <2>3. voiceState # "idle"
    BY DEF IdlePhase
  <2>4. (\A a, b \in transcripts : a = b) => transcripts' = {p}
    BY <2>1
  <2>5. CASE voiceState = "recording"
    BY <2>1, <2>2, <2>4, <2>5 DEF RecordingPhase
  <2>6. CASE voiceState = "transcribing"
    BY <2>1, <2>2, <2>4, <2>6 DEF TranscribingPhase
  <2> QED
    BY <2>2, <2>3, <2>5, <2>6
<1>8. ASSUME NEW q \in transcripts, Voice!PreviewArrives(q) PROVE VoiceSafe'
  <2>1. /\ transcripts' = transcripts \ {q} /\ flags' = flags \ {"inFlight"} /\ ~q.final
        /\ UNCHANGED <<voiceState, asking, mics, timers, mic, promise, ending>>
    BY <1>8 DEF Voice!PreviewArrives
  <2>2. voiceState # "idle"
    BY DEF IdlePhase
  <2>3. (\A a, b \in transcripts : a = b) => transcripts' = {}
    BY <2>1
  <2>4. CASE voiceState = "recording"
    BY <2>1, <2>3, <2>4 DEF RecordingPhase
  <2>5. CASE voiceState = "transcribing"
    BY <2>1, <2>3, <2>5 DEF TranscribingPhase
  <2> QED
    BY <2>1, <2>2, <2>4, <2>5
<1>9. ASSUME NEW e \in ending, Voice!SendFinal(e) PROVE VoiceSafe'
  <2>1. voiceState = "transcribing" /\ TranscribingPhase
    BY DEF IdlePhase, RecordingPhase, VoiceTyped
  <2>2. /\ e.sent = 0 /\ \A q \in transcripts : q.id # e.awaits
        /\ Voice!Request(TRUE, 0)
        /\ ending' = (ending \ {e}) \cup {[e EXCEPT !.sent = requested + 1]}
        /\ UNCHANGED <<voiceState, asking, mics, timers, flags>>
    BY <1>9 DEF Voice!SendFinal
  <2>3. ending = {e} /\ e \in VoiceEndings /\ transcripts = {}
    BY <2>1, <2>2 DEF TranscribingPhase
  <2>4. PICK q \in VoiceRequests :
            q.id = requested + 1 /\ q.final = TRUE /\ transcripts' = transcripts \cup {q}
    <3>1. 0 \in Nat /\ TRUE \in BOOLEAN
      OBVIOUS
    <3> QED
      BY <2>2, <3>1, RequestIs, Zenon
  <2> DEFINE d == [e EXCEPT !.sent = requested + 1]
  <2>5. d \in VoiceEndings /\ d.sent = requested + 1 /\ d.sent # 0
    BY <2>3 DEF VoiceEndings, VoiceTyped
  <2>6. ending' = {d} /\ transcripts' = {q}
    BY <2>2, <2>3, <2>4
  <2> HIDE DEF d
  <2> QED
    BY <2>1, <2>2, <2>4, <2>5, <2>6 DEF TranscribingPhase
<1>10. ASSUME NEW e \in ending, NEW q \in transcripts, Voice!FinalArrives(e, q) PROVE VoiceSafe'
  <2>1. voiceState = "transcribing" /\ TranscribingPhase
    BY DEF IdlePhase, RecordingPhase, VoiceTyped
  <2> QED
    BY <1>10, <2>1 DEF Voice!FinalArrives, TranscribingPhase, IdlePhase
<1> QED
  BY <1>1, <1>2, <1>3, <1>4, <1>5, <1>6, <1>7, <1>8, <1>9, <1>10 DEF Voice!Next

LEMMA VoiceNext == ASSUME VoiceInv, [Voice!Next]_VoiceVars PROVE VoiceInv'
<1>1. CASE UNCHANGED VoiceVars
  BY <1>1 DEF VoiceVars, VoiceInv, VoiceTyped, VoiceSafe, IdlePhase, RecordingPhase, TranscribingPhase
<1>2. CASE Voice!Next
  <2>1. VoiceTyped'
    BY <1>2, VoiceTypes DEF VoiceInv
  <2>2. overlapped => overlapped'
    BY <1>2 DEF Voice!Next, Voice!ToggleOn, Voice!MicOpens, Voice!MicFails, Voice!Samples,
       Voice!RequestVoicePreview, Voice!ToggleOff, Voice!Transcribe, Voice!PreviewArrives,
       Voice!SendFinal, Voice!FinalArrives
  <2> QED
    BY <1>2, <2>1, <2>2, VoicePhases DEF VoiceInv
<1> QED
  BY <1>1, <1>2

LEMMA VoiceInvImplies == VoiceInv => Voice!IdleIsQuiet
BY DEF VoiceInv, VoiceSafe, IdlePhase, Voice!IdleIsQuiet

LEMMA VoiceRests == [EdgesNext]_<<focus, vars, edges>> => [Voice!Next]_VoiceVars
BY DEF EdgesNext, edges, OthersRest

-----------------------------------------------------------------------------
(* The console: Workbench.                                                 *)

BenchPlaces == Bench!Sessions \cup {Bench!Nothing}
BenchBranches == {"main", "edit"}
BenchSteps == {"load", "loadBranch", "reload", "listed", "create", "upload", "send", "variant",
               "patch", "delete", "merge"}
BenchNexts == {"end", "load", "merge", "send", "loadBranch", "upload"}
BenchKinds == {"load", "submit", "create", "project", "branch", "edit", "delete", "list",
               "reconcile"}
BenchOps == [is : BenchKinds, at : BenchSteps, s : BenchPlaces, b : BenchBranches,
             p : Bench!Projects \cup {Bench!Nothing}, prefer : BenchPlaces,
             list : SUBSET Bench!Sessions, next : BenchNexts, text : SUBSET Texts,
             home : BenchPlaces]
BenchMessages == [text : SUBSET Texts, s : BenchPlaces, b : BenchBranches, home : BenchPlaces]

BenchTyped ==
    /\ exists \subseteq Bench!Sessions /\ listed \subseteq Bench!Sessions
    /\ picked \in [Bench!Sessions -> BenchBranches]
    /\ project \in Bench!Projects
    /\ selected \in BenchPlaces /\ branch \in BenchBranches
    /\ handlers \subseteq BenchOps
    /\ \A o \in handlers : o.at = "load" => o.s \in Bench!Sessions
    /\ sent \in Seq(BenchMessages)
    /\ draft \subseteq Texts /\ written \subseteq Texts

\* Handlers that have a message the core has not got from them yet.
Sending(o) == o.at \in {"upload", "send"} \/ o.next \in {"upload", "send"}

\* A message that is under way keeps the session it is for.
KeptForHome ==
    /\ \A o \in handlers : Sending(o) => o.is = "submit" /\ o.s = o.home
    /\ \A i \in 1..Len(sent) : sent[i].s = sent[i].home

\* What is under way, sent or in the composer was written.
WasWritten ==
    /\ draft \subseteq written
    /\ \A o \in handlers : Sending(o) => o.text \subseteq written
    /\ \A i \in 1..Len(sent) : sent[i].text \subseteq written

\* A text that is not doubtful is in the composer while it is under way, with one handler,
\* and has not been sent: as long as it is in the composer, and in the end once.
OnItsWay ==
    /\ \A o \in handlers : Sending(o) => draft \subseteq doubtful \cup o.text
    /\ \A o, q \in handlers : Sending(o) /\ Sending(q) /\ o # q =>
          o.text \cap q.text \subseteq doubtful
    /\ \A o \in handlers : Sending(o) => \A t \in o.text \ doubtful : Bench!SentAs(t) = {}
    /\ \A t \in draft \ doubtful : Bench!SentAs(t) = {}
    /\ \A t \in written \ doubtful : t \in draft \/ Bench!SentAs(t) # {}
    /\ \A t \in written \ doubtful : \A i, j \in Bench!SentAs(t) : i = j

BenchSafe == KeptForHome /\ WasWritten /\ OnItsWay

BenchInv == BenchTyped /\ BenchSafe

LEMMA BenchInit == Bench!Init => BenchInv
<1> SUFFICES ASSUME Bench!Init PROVE BenchInv
  OBVIOUS
<1>1. /\ exists \subseteq Bench!Sessions /\ listed \subseteq Bench!Sessions
      /\ picked \in [Bench!Sessions -> BenchBranches]
      /\ project \in Bench!Projects
      /\ selected \in BenchPlaces /\ branch \in BenchBranches
  BY DEF Bench!Init, Bench!SessionsOf, Bench!FirstOf, BenchBranches, BenchPlaces
<1>2. handlers = {} /\ sent = <<>> /\ draft = {} /\ written = {}
  BY DEF Bench!Init
<1>3. sent \in Seq(BenchMessages) /\ Len(sent) = 0
  BY <1>2
<1>4. BenchTyped
  BY <1>1, <1>2, <1>3 DEF BenchTyped
<1> QED
  BY <1>2, <1>3, <1>4 DEF BenchInv, BenchSafe, KeptForHome, WasWritten, OnItsWay

LEMMA BenchInvImplies == BenchInv => Bench!MessagesArrive
<1> SUFFICES ASSUME BenchInv PROVE Bench!MessagesArrive
  OBVIOUS
<1>1. DOMAIN sent = 1..Len(sent)
  BY DEF BenchInv, BenchTyped
<1> QED
  BY <1>1 DEF BenchInv, BenchSafe, KeptForHome, OnItsWay, Bench!MessagesArrive

LEMMA BenchRests == [EdgesNext]_<<focus, vars, edges>> => [Bench!Next]_BenchVars
BY DEF EdgesNext, edges, OthersRest

\* A handler that goes on to n, or on without a message, keeps what is safe.
LEMMA OthersKeepSafe ==
    ASSUME BenchSafe, UNCHANGED <<sent, draft, written>>, doubtful \subseteq doubtful',
           \A x \in handlers' : x \in handlers \/ ~Sending(x)
    PROVE  BenchSafe'
<1>1. KeptForHome' /\ WasWritten'
  BY DEF BenchSafe, KeptForHome, WasWritten, Sending
<1>2. \A t : Bench!SentAs(t)' = Bench!SentAs(t)
  BY DEF Bench!SentAs
<1>3. \A x \in handlers' : Sending(x) => x \in handlers
  OBVIOUS
<1>4. OnItsWay'
  BY <1>2, <1>3 DEF BenchSafe, OnItsWay
<1> QED
  BY <1>1, <1>4 DEF BenchSafe

LEMMA StepKeepsSafe ==
    ASSUME BenchSafe, UNCHANGED <<sent, draft, written, doubtful>>,
           NEW o \in handlers, NEW n, Sending(o),
           n.is = o.is, n.s = n.home, n.text = o.text,
           \A x \in handlers' : x \in handlers \ {o} \/ ~Sending(x) \/ x = n
    PROVE  BenchSafe'
<1>1. KeptForHome' /\ WasWritten'
  BY DEF BenchSafe, KeptForHome, WasWritten
<1>2. \A t : Bench!SentAs(t)' = Bench!SentAs(t)
  BY DEF Bench!SentAs
<1>3. \A x \in handlers' : Sending(x) => x \in handlers \ {o} \/ x = n
  OBVIOUS
<1>4. OnItsWay'
  BY <1>2, <1>3 DEF BenchSafe, OnItsWay
<1> QED
  BY <1>1, <1>4 DEF BenchSafe

\* The records of the handlers.
LEMMA OpIs ==
    ASSUME NEW is \in BenchKinds, NEW at \in BenchSteps, NEW s \in BenchPlaces,
           NEW p \in Bench!Projects \cup {Bench!Nothing}, NEW next \in BenchNexts,
           NEW b \in BenchBranches, NEW text \in SUBSET Texts, NEW h \in BenchPlaces
    PROVE  [is |-> is, at |-> at, s |-> s, b |-> b, p |-> p, prefer |-> Bench!Nothing,
            list |-> {}, next |-> next, text |-> text, home |-> h] \in BenchOps
BY DEF BenchOps, BenchPlaces

LEMMA BenchLoadIs ==
    ASSUME NEW s \in Bench!Sessions, NEW is \in BenchKinds
    PROVE  /\ Bench!Load(s) \in BenchOps /\ ~Sending(Bench!Load(s)) /\ Bench!Load(s).s = s
           /\ [Bench!Load(s) EXCEPT !.is = is] \in BenchOps
           /\ ~Sending([Bench!Load(s) EXCEPT !.is = is])
           /\ [Bench!Load(s) EXCEPT !.is = is].s = s
BY DEF Bench!Load, Bench!Op, BenchOps, BenchPlaces, BenchBranches, BenchKinds, BenchSteps,
   BenchNexts, Sending, Bench!Nothing

LEMMA BenchLoadBranchIs ==
    ASSUME NEW s \in BenchPlaces, NEW b \in BenchBranches, NEW is \in BenchKinds
    PROVE  /\ Bench!LoadBranch(s, b) \in BenchOps /\ ~Sending(Bench!LoadBranch(s, b))
           /\ Bench!LoadBranch(s, b).at = "loadBranch"
           /\ [Bench!LoadBranch(s, b) EXCEPT !.is = is] \in BenchOps
           /\ ~Sending([Bench!LoadBranch(s, b) EXCEPT !.is = is])
           /\ [Bench!LoadBranch(s, b) EXCEPT !.is = is].at = "loadBranch"
BY DEF Bench!LoadBranch, Bench!Load, Bench!Op, BenchOps, BenchPlaces, BenchBranches, BenchKinds,
   BenchSteps, BenchNexts, Sending, Bench!Nothing

LEMMA ReloadingIs ==
    ASSUME NEW o \in BenchOps, project \in Bench!Projects, NEW prefer \in BenchPlaces,
           NEW next \in BenchNexts
    PROVE  /\ Bench!Reloading(o, prefer, next) \in BenchOps
           /\ Bench!Reloading(o, prefer, next).at = "reload"
           /\ Bench!Reloading(o, prefer, next).next = next
           /\ Bench!Reloading(o, prefer, next).is = o.is
           /\ Bench!Reloading(o, prefer, next).text = o.text
BY DEF Bench!Reloading, BenchOps, BenchSteps

\* What a handler does next: the same handler at another step.
LEMMA GoesOnIs ==
    ASSUME NEW o \in BenchOps, NEW at \in BenchSteps
    PROVE  /\ [o EXCEPT !.at = at] \in BenchOps /\ [o EXCEPT !.at = at].at = at
           /\ [o EXCEPT !.at = at].next = o.next /\ [o EXCEPT !.at = at].is = o.is
           /\ [o EXCEPT !.at = at].s = o.s /\ [o EXCEPT !.at = at].home = o.home
           /\ [o EXCEPT !.at = at].text = o.text
BY DEF BenchOps, BenchSteps

\* The types after a step that leaves the composer and what was sent alone, or not.
LEMMA HandlersTyped ==
    ASSUME BenchTyped, NEW o, NEW new, handlers' = (handlers \ {o}) \cup new,
           \A x \in new : x \in BenchOps /\ (x.at = "load" => x.s \in Bench!Sessions)
    PROVE  /\ handlers' \subseteq BenchOps
           /\ \A x \in handlers' : x.at = "load" => x.s \in Bench!Sessions
BY DEF BenchTyped

LEMMA LoadEndsKeeps == ASSUME BenchInv, NEW o \in handlers, Bench!LoadEnds(o) PROVE BenchInv'
<1>1. handlers' \subseteq handlers
  BY DEF Bench!LoadEnds, Bench!Done, Bench!Replace
<1>2. BenchSafe'
  BY <1>1, OthersKeepSafe DEF BenchInv, Bench!LoadEnds, Bench!composerVars
<1>3. branch' \in BenchBranches
  BY DEF Bench!LoadEnds, BenchInv, BenchTyped, BenchOps
<1>4. BenchTyped'
  BY <1>1, <1>3 DEF BenchInv, BenchTyped, Bench!LoadEnds, Bench!composerVars, Bench!serverVars
<1> QED
  BY <1>2, <1>4 DEF BenchInv

LEMMA ListServedKeeps == ASSUME BenchInv, NEW o \in handlers, Bench!ListServed(o) PROVE BenchInv'
<1> DEFINE n == [o EXCEPT !.at = "listed", !.list = Bench!SessionsOf(o.p)]
<1>1. o \in BenchOps /\ Bench!SessionsOf(o.p) \subseteq Bench!Sessions
  BY DEF BenchInv, BenchTyped, Bench!SessionsOf
<1>2. /\ n \in BenchOps /\ n.at = "listed" /\ n.next = o.next /\ n.is = o.is /\ n.s = o.s
      /\ n.home = o.home /\ n.text = o.text
  BY <1>1 DEF BenchOps, BenchSteps
<1>3. handlers' = (handlers \ {o}) \cup {n}
  BY DEF Bench!ListServed, Bench!Replace
<1> HIDE DEF n
<1>4. BenchTyped'
  BY <1>2, <1>3, HandlersTyped
  DEF BenchInv, BenchTyped, Bench!ListServed, Bench!composerVars, Bench!serverVars
<1>5. BenchSafe'
  <2>1. UNCHANGED <<sent, draft, written, doubtful>>
    BY DEF Bench!ListServed, Bench!composerVars
  <2>2. Sending(n) <=> o.next \in {"upload", "send"}
    BY <1>2 DEF Sending
  <2>3. CASE Sending(n)
    <3>1. Sending(o) /\ n.s = n.home
      BY <1>2, <2>2, <2>3 DEF Sending, BenchInv, BenchSafe, KeptForHome
    <3> QED
      BY <1>2, <1>3, <2>1, <3>1, StepKeepsSafe DEF BenchInv
  <2>4. CASE ~Sending(n)
    BY <1>3, <2>1, <2>4, OthersKeepSafe DEF BenchInv
  <2> QED
    BY <2>3, <2>4
<1> QED
  BY <1>4, <1>5 DEF BenchInv

\* What comes after a list: at most one handler, with the message of the one before it.
LEMMA AfterListIs ==
    ASSUME BenchTyped, NEW o \in BenchOps, NEW x \in BenchPlaces
    PROVE  /\ \A n \in Bench!AfterList(o, x) :
                 /\ n \in BenchOps /\ (n.at = "load" => n.s \in Bench!Sessions)
                 /\ Sending(n) => /\ Sending(o) /\ n.is = o.is /\ n.s = o.s
                                  /\ n.home = o.home /\ n.text = o.text
           /\ \E n : Bench!AfterList(o, x) \subseteq {n}
<1> DEFINE on == [o EXCEPT !.at = o.next, !.list = {}, !.p = Bench!Nothing,
                           !.prefer = Bench!Nothing, !.next = "end"]
           onBranch(b) == [on EXCEPT !.b = b]
<1>1. o.next \in BenchNexts /\ o.is \in BenchKinds /\ o.s \in BenchPlaces /\ o.b \in BenchBranches
      /\ branch \in BenchBranches
  BY DEF BenchOps, BenchTyped
<1>2. ASSUME NEW b \in BenchBranches, o.next \in {"merge", "send", "upload"}
      PROVE  /\ onBranch(b) \in BenchOps /\ onBranch(b).at = o.next
             /\ onBranch(b).next = "end" /\ onBranch(b).is = o.is /\ onBranch(b).s = o.s
             /\ onBranch(b).home = o.home /\ onBranch(b).text = o.text
  BY <1>2 DEF BenchOps, BenchSteps, BenchNexts, BenchPlaces
<1>3. CASE o.next = "end"
  BY <1>3 DEF Bench!AfterList
<1>4. CASE o.next = "load"
  <2>1. Bench!AfterList(o, x)
          = IF x = Bench!Nothing THEN {} ELSE {[Bench!Load(x) EXCEPT !.is = o.is]}
    BY <1>4 DEF Bench!AfterList
  <2>2. CASE x = Bench!Nothing
    BY <2>1, <2>2
  <2>3. CASE x # Bench!Nothing
    <3>1. x \in Bench!Sessions
      BY <2>3 DEF BenchPlaces
    <3> DEFINE n == [Bench!Load(x) EXCEPT !.is = o.is]
    <3>2. n \in BenchOps /\ ~Sending(n) /\ n.s = x
      BY <1>1, <3>1, BenchLoadIs
    <3>3. Bench!AfterList(o, x) = {n}
      BY <2>1, <2>3
    <3> HIDE DEF n
    <3> QED
      BY <3>1, <3>2, <3>3
  <2> QED
    BY <2>2, <2>3
<1>5. CASE o.next = "loadBranch"
  <2>1. Bench!AfterList(o, x) = {[Bench!LoadBranch(o.s, o.b) EXCEPT !.is = o.is]}
    BY <1>5 DEF Bench!AfterList
  <2> QED
    BY <1>1, <2>1, BenchLoadBranchIs
<1>6. CASE o.next \in {"merge", "send", "upload"}
  <2>1. PICK b \in BenchBranches : Bench!AfterList(o, x) \subseteq {onBranch(b)}
    <3>1. "main" \in BenchBranches
      BY DEF BenchBranches
    <3> QED
      BY <1>1, <1>6, <3>1 DEF Bench!AfterList
  <2>2. Sending(onBranch(b)) => Sending(o)
    BY <1>2, <1>6 DEF Sending
  <2> HIDE DEF on, onBranch
  <2>3. onBranch(b).at # "load"
    BY <1>2, <1>6
  <2> QED
    BY <1>2, <1>6, <2>1, <2>2, <2>3
<1> QED
  BY <1>1, <1>3, <1>4, <1>5, <1>6 DEF BenchNexts

\* Going to a session adds a handler that loads it, if anything.
LEMMA GoToIs ==
    ASSUME BenchTyped, NEW x \in BenchPlaces, NEW o, NEW new, Bench!GoTo(x, o, new)
    PROVE  /\ selected' = x /\ branch' \in BenchBranches
           /\ \E more : /\ handlers' = (handlers \ {o}) \cup (new \cup more)
                        /\ \A n \in more : n \in BenchOps /\ ~Sending(n) /\ n.s \in Bench!Sessions
<1>1. selected' = x /\ branch' \in BenchBranches
  BY DEF Bench!GoTo, BenchTyped, BenchBranches
<1> DEFINE more == IF x = selected \/ x = Bench!Nothing THEN {} ELSE {Bench!Load(x)}
<1>2. handlers' = (handlers \ {o}) \cup (new \cup more)
  BY DEF Bench!GoTo, Bench!Replace
<1>3. "main" \in BenchBranches /\ "load" \in BenchKinds
  BY DEF BenchBranches, BenchKinds
<1>4. \A n \in more : n \in BenchOps /\ ~Sending(n) /\ n.s \in Bench!Sessions
  BY <1>3, BenchLoadIs DEF BenchPlaces
<1> HIDE DEF more
<1> QED
  BY <1>1, <1>2, <1>4

LEMMA ListArrivesKeeps ==
    ASSUME BenchInv, NEW o \in handlers, Bench!ListArrives(o) PROVE BenchInv'
<1>1. /\ o \in BenchOps /\ o.list \subseteq Bench!Sessions /\ o.prefer \in BenchPlaces
      /\ BenchTyped /\ BenchSafe
  BY DEF BenchInv, BenchTyped, BenchOps
<1>2. PICK x \in BenchPlaces : Bench!GoTo(x, o, Bench!AfterList(o, x))
  <2>1. PICK x \in IF o.next = "load" THEN Bench!FirstOf(o.list \ {o.s})
                   ELSE Bench!Preferred(o) :
               Bench!GoTo(x, o, Bench!AfterList(o, x))
    BY DEF Bench!ListArrives
  <2>2. x \in BenchPlaces
    BY <1>1, <2>1 DEF BenchTyped, BenchPlaces, Bench!FirstOf, Bench!Preferred
  <2> QED
    BY <2>1, <2>2
<1>3. PICK more : /\ handlers' = (handlers \ {o}) \cup (Bench!AfterList(o, x) \cup more)
                  /\ \A n \in more : n \in BenchOps /\ ~Sending(n) /\ n.s \in Bench!Sessions
  BY <1>1, <1>2, GoToIs
<1>4. selected' \in BenchPlaces /\ branch' \in BenchBranches
  BY <1>1, <1>2, GoToIs
<1>5. BenchTyped'
  <2>1. \A n \in Bench!AfterList(o, x) \cup more :
           n \in BenchOps /\ (n.at = "load" => n.s \in Bench!Sessions)
    BY <1>1, <1>3, AfterListIs
  <2>2. /\ handlers' \subseteq BenchOps
        /\ \A n \in handlers' : n.at = "load" => n.s \in Bench!Sessions
    BY <1>1, <1>3, <2>1, HandlersTyped
  <2> QED
    BY <1>1, <1>4, <2>2 DEF BenchTyped, Bench!ListArrives, Bench!serverVars
<1>6. BenchSafe'
  <2>1. UNCHANGED <<sent, draft, written, doubtful>>
    BY DEF Bench!ListArrives
  <2>2. PICK n : Bench!AfterList(o, x) \subseteq {n}
    BY <1>1, AfterListIs
  <2>3. CASE n \in Bench!AfterList(o, x) /\ Sending(n)
    <3>1. Sending(o) /\ n.is = o.is /\ n.s = o.s /\ n.home = o.home /\ n.text = o.text
      BY <1>1, <2>3, AfterListIs
    <3>2. n.s = n.home
      BY <1>1, <3>1 DEF BenchSafe, KeptForHome
    <3>3. \A y \in handlers' : y \in handlers \ {o} \/ ~Sending(y) \/ y = n
      BY <1>3, <2>2
    <3> QED
      BY <1>1, <2>1, <3>1, <3>2, <3>3, StepKeepsSafe
  <2>4. CASE ~(n \in Bench!AfterList(o, x) /\ Sending(n))
    <3>1. \A y \in handlers' : y \in handlers \/ ~Sending(y)
      BY <1>3, <2>2, <2>4
    <3> QED
      BY <1>1, <2>1, <3>1, OthersKeepSafe
  <2> QED
    BY <2>3, <2>4
<1> QED
  BY <1>5, <1>6 DEF BenchInv

\* A handler starts that has no message.
LEMMA StartsKeeps ==
    ASSUME BenchInv, NEW o \in BenchOps, ~Sending(o), o.at # "load",
           handlers' = handlers \cup {o},
           UNCHANGED <<exists, picked, selected, branch, listed, sent, draft, written>>,
           project' \in Bench!Projects, doubtful \subseteq doubtful'
    PROVE  BenchInv'
<1>1. BenchTyped'
  BY DEF BenchInv, BenchTyped
<1>2. BenchSafe'
  BY OthersKeepSafe DEF BenchInv
<1> QED
  BY <1>1, <1>2 DEF BenchInv

LEMMA WriteKeeps == ASSUME BenchInv, NEW t \in Texts, Bench!Write(t) PROVE BenchInv'
<1>1. /\ draft' = draft \cup {t} /\ written' = written \cup {t} /\ t \notin written
      /\ doubtful' = IF Bench!Under("submit") = {} THEN doubtful ELSE doubtful \cup {t}
      /\ handlers' = handlers /\ sent' = sent
  BY DEF Bench!Write
<1>2. BenchTyped'
  BY <1>1 DEF BenchInv, BenchTyped, Bench!Write, Bench!serverVars
<1>3. DOMAIN sent = 1..Len(sent)
  BY DEF BenchInv, BenchTyped
<1>4. \A x : Bench!SentAs(x)' = Bench!SentAs(x)
  BY <1>1 DEF Bench!SentAs
<1>5. Bench!SentAs(t) = {}
  BY <1>1, <1>3 DEF Bench!SentAs, BenchInv, BenchSafe, WasWritten
<1>6. (\E o \in handlers : Sending(o)) => t \in doubtful'
  BY <1>1 DEF Bench!Under, BenchInv, BenchSafe, KeptForHome
<1>7. doubtful \subseteq doubtful' /\ \A x \in written : x \in doubtful' => x \in doubtful
  BY <1>1
<1>8. KeptForHome' /\ WasWritten'
  BY <1>1 DEF BenchInv, BenchSafe, KeptForHome, WasWritten
<1>9. OnItsWay'
  BY <1>1, <1>4, <1>5, <1>6, <1>7 DEF BenchInv, BenchSafe, OnItsWay, WasWritten
<1> QED
  BY <1>2, <1>8, <1>9 DEF BenchInv, BenchSafe

\* The handler of a message begins, with all that is in the composer.
LEMMA SubmitKeeps == ASSUME BenchInv, Bench!Submit PROVE BenchInv'
<1>1. PICK n \in BenchOps : /\ handlers' = handlers \cup {n}
                            /\ Sending(n) /\ n.is = "submit" /\ n.s = n.home
                            /\ n.text = draft /\ n.at # "load"
  <2> DEFINE next == IF attached THEN "upload" ELSE "send"
             first == [Bench!FromHere(Bench!Op("submit", "create", selected)) EXCEPT
                         !.text = draft, !.next = next]
             n == IF selected = Bench!Nothing THEN [first EXCEPT !.p = project]
                  ELSE [first EXCEPT !.at = first.next, !.b = IF attached THEN "main" ELSE branch,
                                     !.next = "end"]
  <2>1. handlers' = handlers \cup {n}
    BY DEF Bench!Submit, Bench!Starts
  <2>2. /\ selected \in BenchPlaces /\ branch \in BenchBranches /\ "main" \in BenchBranches
        /\ draft \in SUBSET Texts /\ project \in Bench!Projects
        /\ Bench!Nothing \in BenchPlaces
    BY DEF BenchInv, BenchTyped, BenchBranches, BenchPlaces
  <2>3. next \in {"upload", "send"}
    OBVIOUS
  <2>4. /\ first \in BenchOps /\ first.is = "submit" /\ first.at = "create"
        /\ first.s = first.home /\ first.text = draft /\ first.next = next
    <3> HIDE DEF next, n
    <3> DEFINE base == Bench!FromHere(Bench!Op("submit", "create", selected))
    <3>1. /\ base \in BenchOps /\ base.is = "submit" /\ base.at = "create"
          /\ base.s = base.home
      BY <2>2 DEF Bench!FromHere, Bench!Op, BenchOps, BenchKinds, BenchSteps, BenchNexts
    <3> HIDE DEF base
    <3>2. first = [base EXCEPT !.text = draft, !.next = next]
      BY DEF base
    <3> QED
      BY <2>2, <2>3, <3>1, <3>2 DEF BenchOps, BenchNexts
  <2> DEFINE b == IF attached THEN "main" ELSE branch
  <2>5. b \in BenchBranches
    BY <2>2
  <2>6. n = IF selected = Bench!Nothing THEN [first EXCEPT !.p = project]
            ELSE [first EXCEPT !.at = first.next, !.b = b, !.next = "end"]
    OBVIOUS
  <2> HIDE DEF first, n, next, b
  <2>7. n \in BenchOps /\ Sending(n) /\ n.is = "submit" /\ n.s = n.home /\ n.text = draft
        /\ n.at # "load"
    <3>1. CASE selected = Bench!Nothing
      BY <2>2, <2>3, <2>4, <2>6, <3>1 DEF BenchOps, Sending
    <3>2. CASE selected # Bench!Nothing
      BY <2>2, <2>3, <2>4, <2>5, <2>6, <3>2
      DEF BenchOps, BenchSteps, BenchNexts, Sending
    <3> QED
      BY <3>1, <3>2
  <2> QED
    BY <2>1, <2>7
<1>2. /\ UNCHANGED <<sent, draft, written>>
      /\ doubtful' = IF Bench!Holders = {} THEN doubtful ELSE doubtful \cup draft
  BY DEF Bench!Submit
<1>3. BenchTyped'
  BY <1>1, <1>2 DEF BenchInv, BenchTyped, Bench!Submit, Bench!serverVars
<1>4. \A x : Bench!SentAs(x)' = Bench!SentAs(x)
  BY <1>2 DEF Bench!SentAs
<1>5. doubtful \subseteq doubtful'
  BY <1>2
<1>6. (\E o \in handlers : Sending(o)) => draft \subseteq doubtful'
  BY <1>2 DEF Bench!Holders, Bench!Busying, BenchInv, BenchSafe, KeptForHome
<1>7. KeptForHome' /\ WasWritten'
  BY <1>1, <1>2 DEF BenchInv, BenchSafe, KeptForHome, WasWritten
<1>8. OnItsWay'
  <2>1. \A o \in handlers' : o \in handlers \/ o = n
    BY <1>1
  <2>2. (\A o \in handlers' : Sending(o) => draft' \subseteq doubtful' \cup o.text)
    BY <1>1, <1>2, <1>5, <1>6, <2>1
  <2>3. \A o, q \in handlers' : Sending(o) /\ Sending(q) /\ o # q =>
           o.text \cap q.text \subseteq doubtful'
    BY <1>1, <1>5, <1>6, <2>1 DEF BenchInv, BenchSafe, OnItsWay
  <2>4. \A o \in handlers' : Sending(o) => \A t \in o.text \ doubtful' : Bench!SentAs(t)' = {}
    BY <1>1, <1>4, <1>5, <2>1 DEF BenchInv, BenchSafe, OnItsWay
  <2> QED
    BY <1>2, <1>4, <1>5, <2>2, <2>3, <2>4 DEF BenchInv, BenchSafe, OnItsWay
<1> QED
  BY <1>3, <1>7, <1>8 DEF BenchInv, BenchSafe

LEMMA ClicksKeep ==
    ASSUME BenchInv,
           \/ Bench!Create \/ Bench!Edit
           \/ \E p \in Bench!Projects : Bench!SelectProject(p)
           \/ \E s \in Bench!Sessions : Bench!Delete(s) \/ Bench!DeletedElsewhere(s)
           \/ \E b \in BenchBranches : Bench!SelectBranch(b)
           \/ \E is \in {"list", "reconcile"} : Bench!ReloadStarts(is)
    PROVE  BenchInv'
<1> USE DEF Bench!Starts, Bench!serverVars, Bench!composerVars
<1>1. /\ selected \in BenchPlaces /\ project \in Bench!Projects
      /\ Bench!Nothing \in BenchPlaces /\ Bench!Sessions \subseteq BenchPlaces
  BY DEF BenchInv, BenchTyped, BenchPlaces
<1>2. CASE Bench!Create
  <2> DEFINE o == [Bench!Op("create", "create", Bench!Nothing) EXCEPT !.p = project]
  <2>1. o \in BenchOps /\ ~Sending(o) /\ o.at # "load"
    BY <1>1 DEF Bench!Op, BenchOps, BenchKinds, BenchSteps, BenchNexts, BenchBranches, Sending
  <2>2. handlers' = handlers \cup {o}
    BY <1>2 DEF Bench!Create
  <2> HIDE DEF o
  <2>3. UNCHANGED <<exists, picked, selected, branch, listed, sent, draft, written, project,
                    doubtful>>
    BY <1>2 DEF Bench!Create
  <2> QED
    BY <1>1, <2>1, <2>2, <2>3, StartsKeeps
<1>3. CASE Bench!Edit
  <2> DEFINE o == [Bench!Op("edit", "variant", selected) EXCEPT !.b = "edit"]
  <2>1. o \in BenchOps /\ ~Sending(o) /\ o.at # "load"
    BY <1>1 DEF Bench!Op, BenchOps, BenchKinds, BenchSteps, BenchNexts, BenchBranches, Sending
  <2>2. handlers' = handlers \cup {o}
    BY <1>3 DEF Bench!Edit
  <2> HIDE DEF o
  <2>3. UNCHANGED <<exists, picked, selected, branch, listed, sent, draft, written, project>>
        /\ doubtful \subseteq doubtful'
    BY <1>3 DEF Bench!Edit
  <2> QED
    BY <1>1, <2>1, <2>2, <2>3, StartsKeeps
<1>4. ASSUME NEW p \in Bench!Projects, Bench!SelectProject(p) PROVE BenchInv'
  <2> DEFINE o == [Bench!Op("project", "reload", Bench!Nothing) EXCEPT !.p = p, !.next = "load"]
  <2>1. o \in BenchOps /\ ~Sending(o) /\ o.at # "load"
    BY <1>1 DEF Bench!Op, BenchOps, BenchKinds, BenchSteps, BenchNexts, BenchBranches, Sending
  <2>2. handlers' = handlers \cup {o}
    BY <1>4 DEF Bench!SelectProject
  <2> HIDE DEF o
  <2>3. UNCHANGED <<exists, picked, selected, branch, listed, sent, draft, written, doubtful>>
        /\ project' \in Bench!Projects
    BY <1>4 DEF Bench!SelectProject
  <2> QED
    BY <2>1, <2>2, <2>3, StartsKeeps
<1>5. ASSUME NEW s \in Bench!Sessions, Bench!Delete(s) PROVE BenchInv'
  <2> DEFINE o == Bench!FromHere(Bench!Op("delete", "delete", s))
  <2>1. o \in BenchOps /\ ~Sending(o) /\ o.at # "load"
    BY <1>1 DEF Bench!FromHere, Bench!Op, BenchOps, BenchKinds, BenchSteps, BenchNexts,
       BenchBranches, Sending
  <2>2. handlers' = handlers \cup {o}
    BY <1>5 DEF Bench!Delete
  <2> HIDE DEF o
  <2>3. UNCHANGED <<exists, picked, selected, branch, listed, sent, draft, written, project,
                    doubtful>>
    BY <1>5 DEF Bench!Delete
  <2> QED
    BY <1>1, <2>1, <2>2, <2>3, StartsKeeps
<1>6. ASSUME NEW s \in Bench!Sessions, Bench!DeletedElsewhere(s) PROVE BenchInv'
  <2>1. BenchTyped'
    BY <1>6 DEF BenchInv, BenchTyped, Bench!DeletedElsewhere
  <2>2. BenchSafe'
    BY <1>6, OthersKeepSafe DEF BenchInv, Bench!DeletedElsewhere
  <2> QED
    BY <2>1, <2>2 DEF BenchInv
<1>7. ASSUME NEW b \in BenchBranches, Bench!SelectBranch(b) PROVE BenchInv'
  <2> DEFINE o == [Bench!Op("branch", "patch", selected) EXCEPT !.b = b]
  <2>1. o \in BenchOps /\ ~Sending(o) /\ o.at # "load"
    BY <1>1 DEF Bench!Op, BenchOps, BenchKinds, BenchSteps, BenchNexts, Sending
  <2>2. handlers' = handlers \cup {o}
    BY <1>7 DEF Bench!SelectBranch
  <2> HIDE DEF o
  <2>3. UNCHANGED <<exists, picked, selected, branch, listed, sent, draft, written, project,
                    doubtful>>
    BY <1>7 DEF Bench!SelectBranch
  <2> QED
    BY <1>1, <2>1, <2>2, <2>3, StartsKeeps
<1>8. ASSUME NEW is \in {"list", "reconcile"}, Bench!ReloadStarts(is) PROVE BenchInv'
  <2> DEFINE first == Bench!FromHere(Bench!Op(is, "reload", Bench!Nothing))
             next == IF is = "reconcile" THEN "merge" ELSE "end"
             o == Bench!Reloading(first, selected, next)
  <2>1. first \in BenchOps /\ next \in BenchNexts /\ next \notin {"upload", "send"}
    BY <1>1 DEF Bench!FromHere, Bench!Op, BenchOps, BenchKinds, BenchSteps, BenchNexts,
       BenchBranches
  <2>2. handlers' = handlers \cup {o}
    BY <1>8 DEF Bench!ReloadStarts
  <2> HIDE DEF first, next
  <2>3. o \in BenchOps /\ ~Sending(o) /\ o.at # "load"
    BY <1>1, <2>1, ReloadingIs DEF Sending
  <2> HIDE DEF o
  <2>4. UNCHANGED <<exists, picked, selected, branch, listed, sent, draft, written, project,
                    doubtful>>
    BY <1>8 DEF Bench!ReloadStarts
  <2> QED
    BY <1>1, <2>2, <2>3, <2>4, StartsKeeps
<1> QED
  BY <1>2, <1>3, <1>4, <1>5, <1>6, <1>7, <1>8

LEMMA SelectSessionKeeps ==
    ASSUME BenchInv, NEW s \in Bench!Sessions, Bench!SelectSession(s) PROVE BenchInv'
<1>1. s \in BenchPlaces /\ BenchTyped /\ BenchSafe
  BY DEF BenchPlaces, BenchInv
<1>2. Bench!GoTo(s, Bench!Load(s), {})
  BY DEF Bench!SelectSession
<1>3. PICK more : /\ handlers' = (handlers \ {Bench!Load(s)}) \cup ({} \cup more)
                  /\ \A n \in more : n \in BenchOps /\ ~Sending(n) /\ n.s \in Bench!Sessions
  BY <1>1, <1>2, GoToIs
<1>4. selected' \in BenchPlaces /\ branch' \in BenchBranches
  BY <1>1, <1>2, GoToIs
<1>5. UNCHANGED <<exists, picked, project, listed, draft, sent, written, doubtful>>
  BY DEF Bench!SelectSession, Bench!serverVars
<1>6. BenchTyped'
  BY <1>1, <1>3, <1>4, <1>5 DEF BenchTyped
<1>7. BenchSafe'
  BY <1>1, <1>3, <1>5, OthersKeepSafe
<1> QED
  BY <1>6, <1>7 DEF BenchInv

\* A handler goes on with the message it had, if it had one.
LEMMA CarriesOn ==
    ASSUME BenchInv, NEW o \in handlers, NEW n, handlers' = (handlers \ {o}) \cup {n},
           UNCHANGED <<sent, draft, written, doubtful>>,
           Sending(n) => Sending(o) /\ n.is = o.is /\ n.s = n.home /\ n.text = o.text
    PROVE  BenchSafe'
<1>1. CASE Sending(n)
  BY <1>1, StepKeepsSafe DEF BenchInv
<1>2. CASE ~Sending(n)
  BY <1>2, OthersKeepSafe DEF BenchInv
<1> QED
  BY <1>1, <1>2

LEMMA CreatedKeeps == ASSUME BenchInv, NEW o \in handlers, Bench!Created(o) PROVE BenchInv'
<1>1. PICK s \in Bench!Sessions :
         /\ exists' = exists \cup {s}
         /\ handlers' = (handlers \ {o})
                          \cup {[Bench!Reloading(o, s, o.next) EXCEPT !.s = s, !.home = s]}
  BY DEF Bench!Created, Bench!Replace
<1>2. /\ o \in BenchOps /\ s \in BenchPlaces /\ o.next \in BenchNexts
      /\ project \in Bench!Projects /\ BenchTyped
  BY DEF BenchInv, BenchTyped, BenchOps, BenchPlaces
<1> DEFINE r == Bench!Reloading(o, s, o.next)
           n == [r EXCEPT !.s = s, !.home = s]
<1>3. r \in BenchOps /\ r.at = "reload" /\ r.next = o.next /\ r.is = o.is /\ r.text = o.text
  BY <1>2, ReloadingIs
<1>4. handlers' = (handlers \ {o}) \cup {n}
  BY <1>1
<1> HIDE DEF r
<1>5. /\ n \in BenchOps /\ n.at = "reload" /\ n.next = o.next /\ n.is = o.is
      /\ n.text = o.text /\ n.s = s /\ n.home = s
  BY <1>2, <1>3 DEF BenchOps
<1> HIDE DEF n
<1>6. BenchTyped'
  BY <1>1, <1>2, <1>4, <1>5, HandlersTyped
  DEF BenchTyped, Bench!Created, Bench!composerVars
<1>7. BenchSafe'
  <2>1. Sending(n) => Sending(o)
    BY <1>5 DEF Sending
  <2>2. UNCHANGED <<sent, draft, written, doubtful>>
    BY DEF Bench!Created, Bench!composerVars
  <2> QED
    BY <1>4, <1>5, <2>1, <2>2, CarriesOn
<1> QED
  BY <1>6, <1>7 DEF BenchInv

LEMMA UploadedKeeps == ASSUME BenchInv, NEW o \in handlers, Bench!Uploaded(o) PROVE BenchInv'
<1> DEFINE n == [o EXCEPT !.at = "send", !.b = branch]
<1>1. handlers' = (handlers \ {o}) \cup {n}
  BY DEF Bench!Uploaded, Bench!Replace
<1>2. o \in BenchOps /\ branch \in BenchBranches /\ BenchTyped /\ o.at = "upload"
  BY DEF BenchInv, BenchTyped, Bench!Uploaded
<1>3. /\ n \in BenchOps /\ n.at = "send" /\ n.is = o.is /\ n.text = o.text /\ n.s = o.s
      /\ n.home = o.home
  BY <1>2 DEF BenchOps, BenchSteps
<1> HIDE DEF n
<1>4. BenchTyped'
  BY <1>1, <1>2, <1>3, HandlersTyped
  DEF BenchTyped, Bench!Uploaded, Bench!composerVars, Bench!serverVars
<1>5. Sending(o) /\ o.s = o.home
  BY <1>2 DEF Sending, BenchInv, BenchSafe, KeptForHome
<1>6. UNCHANGED <<sent, draft, written, doubtful>>
  BY DEF Bench!Uploaded, Bench!composerVars
<1> QED
  BY <1>1, <1>3, <1>4, <1>5, <1>6, CarriesOn DEF BenchInv

LEMMA VariantMadeKeeps ==
    ASSUME BenchInv, NEW o \in handlers, Bench!VariantMade(o) PROVE BenchInv'
<1> DEFINE n == [o EXCEPT !.at = "patch"]
<1>1. handlers' = (handlers \ {o}) \cup {n}
  BY DEF Bench!VariantMade, Bench!Replace
<1>2. o \in BenchOps /\ BenchTyped
  BY DEF BenchInv, BenchTyped
<1>3. /\ n \in BenchOps /\ n.at = "patch" /\ n.next = o.next /\ n.is = o.is /\ n.s = o.s
      /\ n.home = o.home /\ n.text = o.text
  BY <1>2, GoesOnIs DEF BenchSteps
<1> HIDE DEF n
<1>4. picked' \in [Bench!Sessions -> BenchBranches]
  BY <1>2 DEF BenchTyped, Bench!VariantMade, BenchBranches
<1>5. BenchTyped'
  BY <1>1, <1>2, <1>3, <1>4, HandlersTyped
  DEF BenchTyped, Bench!VariantMade, Bench!composerVars
<1>6. Sending(n) => Sending(o) /\ o.s = o.home
  BY <1>3 DEF Sending, BenchInv, BenchSafe, KeptForHome
<1>7. UNCHANGED <<sent, draft, written, doubtful>>
  BY DEF Bench!VariantMade, Bench!composerVars
<1> QED
  BY <1>1, <1>3, <1>5, <1>6, <1>7, CarriesOn DEF BenchInv

LEMMA PatchedKeeps == ASSUME BenchInv, NEW o \in handlers, Bench!Patched(o) PROVE BenchInv'
<1> DEFINE n == IF o.is = "edit" THEN Bench!Reloading(o, o.s, "loadBranch")
                ELSE Bench!LoadBranch(o.s, o.b)
<1>1. handlers' = (handlers \ {o}) \cup {n}
  BY DEF Bench!Patched, Bench!Replace
<1>2. /\ o \in BenchOps /\ BenchTyped /\ project \in Bench!Projects
      /\ o.s \in BenchPlaces /\ o.b \in BenchBranches
  BY DEF BenchInv, BenchTyped, BenchOps
<1>3. n \in BenchOps /\ n.at # "load" /\ ~Sending(n)
  <2>1. CASE o.is = "edit"
    <3>1. n = Bench!Reloading(o, o.s, "loadBranch") /\ "loadBranch" \in BenchNexts
      BY <2>1 DEF BenchNexts
    <3> HIDE DEF n
    <3> QED
      BY <1>2, <3>1, ReloadingIs DEF Sending
  <2>2. CASE o.is # "edit"
    <3>1. n = Bench!LoadBranch(o.s, o.b) /\ "load" \in BenchKinds
      BY <2>2 DEF BenchKinds
    <3> HIDE DEF n
    <3> QED
      BY <1>2, <3>1, BenchLoadBranchIs
  <2> QED
    BY <2>1, <2>2
<1> HIDE DEF n
<1>4. picked' \in [Bench!Sessions -> BenchBranches] /\ branch' \in BenchBranches
  BY <1>2 DEF BenchTyped, Bench!Patched
<1>5. BenchTyped'
  BY <1>1, <1>2, <1>3, <1>4, HandlersTyped
  DEF BenchTyped, Bench!Patched, Bench!composerVars
<1>6. UNCHANGED <<sent, draft, written, doubtful>>
  BY DEF Bench!Patched, Bench!composerVars
<1> QED
  BY <1>1, <1>3, <1>5, <1>6, CarriesOn DEF BenchInv

LEMMA DeletedKeeps == ASSUME BenchInv, NEW o \in handlers, Bench!Deleted(o) PROVE BenchInv'
<1> DEFINE n == IF o.s = o.home THEN Bench!Reloading(o, Bench!Nothing, "load")
                ELSE Bench!Reloading(o, o.home, "end")
<1>1. handlers' = (handlers \ {o}) \cup {n}
  BY DEF Bench!Deleted, Bench!Replace
<1>2. /\ o \in BenchOps /\ BenchTyped /\ project \in Bench!Projects
      /\ o.home \in BenchPlaces /\ Bench!Nothing \in BenchPlaces
      /\ "load" \in BenchNexts /\ "end" \in BenchNexts
  BY DEF BenchInv, BenchTyped, BenchOps, BenchPlaces, BenchNexts
<1>3. n \in BenchOps /\ n.at # "load" /\ ~Sending(n)
  <2>1. PICK prefer \in BenchPlaces, next \in {"load", "end"} :
               n = Bench!Reloading(o, prefer, next)
    BY <1>2
  <2> HIDE DEF n
  <2> QED
    BY <1>2, <2>1, ReloadingIs DEF Sending
<1> HIDE DEF n
<1>4. BenchTyped'
  BY <1>1, <1>2, <1>3, HandlersTyped
  DEF BenchTyped, Bench!Deleted, Bench!composerVars
<1>5. UNCHANGED <<sent, draft, written, doubtful>>
  BY DEF Bench!Deleted, Bench!composerVars
<1> QED
  BY <1>1, <1>3, <1>4, <1>5, CarriesOn DEF BenchInv

LEMMA MergedKeeps == ASSUME BenchInv, NEW o \in handlers, Bench!Merged(o) PROVE BenchInv'
<1>1. handlers' \subseteq handlers
  BY DEF Bench!Merged, Bench!Done, Bench!Replace
<1>2. BenchSafe'
  BY <1>1, OthersKeepSafe DEF BenchInv, Bench!Merged, Bench!composerVars
<1>3. BenchTyped'
  BY <1>1 DEF BenchInv, BenchTyped, Bench!Merged, Bench!composerVars, Bench!serverVars
<1> QED
  BY <1>2, <1>3 DEF BenchInv

\* The core has the message of o, which goes on without it or ends.
LEMMA AcceptedIs ==
    ASSUME BenchInv, NEW o \in handlers, Bench!Accepted(o)
    PROVE  /\ sent' \in Seq(BenchMessages) /\ Len(sent') = Len(sent) + 1
           /\ \A i \in 1..Len(sent) : sent'[i] = sent[i]
           /\ sent'[Len(sent) + 1].text = o.text
           /\ sent'[Len(sent) + 1].s = sent'[Len(sent) + 1].home
           /\ picked' \in [Bench!Sessions -> BenchBranches]
           /\ Sending(o) /\ o.text \subseteq written /\ o.text \subseteq Texts
<1>1. /\ o \in BenchOps /\ Sending(o) /\ sent \in Seq(BenchMessages)
      /\ sent' = Append(sent, Bench!Message(o))
      /\ picked \in [Bench!Sessions -> BenchBranches] /\ picked' = [picked EXCEPT ![o.s] = o.b]
  BY DEF BenchInv, BenchTyped, Bench!Accepted, Bench!Receiver, Sending
<1>2. /\ o.text \in SUBSET Texts /\ o.s \in BenchPlaces /\ o.home \in BenchPlaces
      /\ o.b \in BenchBranches
  BY <1>1 DEF BenchOps
<1>3. o.s = o.home /\ o.text \subseteq written
  BY <1>1 DEF BenchInv, BenchSafe, KeptForHome, WasWritten
<1> DEFINE m == Bench!Message(o)
<1>4. m \in BenchMessages /\ m.text = o.text /\ m.s = m.home
  BY <1>2, <1>3 DEF Bench!Message, Bench!Receiver, BenchMessages
<1> HIDE DEF m
<1>5. /\ Append(sent, m) \in Seq(BenchMessages) /\ Len(Append(sent, m)) = Len(sent) + 1
      /\ \A i \in 1..Len(sent) : Append(sent, m)[i] = sent[i]
      /\ Append(sent, m)[Len(sent) + 1] = m
  BY <1>1, <1>4
<1>6. sent' = Append(sent, m)
  BY <1>1 DEF m
<1> QED
  BY <1>1, <1>2, <1>3, <1>4, <1>5, <1>6

\* A text has been sent once more if it is in that message.
LEMMA SentMore ==
    ASSUME BenchInv, NEW o \in handlers, Bench!Accepted(o), NEW t
    PROVE  /\ t \in o.text => Bench!SentAs(t)' = Bench!SentAs(t) \cup {Len(sent) + 1}
           /\ t \notin o.text => Bench!SentAs(t)' = Bench!SentAs(t)
<1>1. sent \in Seq(BenchMessages) /\ Len(sent) \in Nat
  BY DEF BenchInv, BenchTyped
<1>2. DOMAIN sent = 1..Len(sent) /\ DOMAIN sent' = 1..(Len(sent) + 1)
  BY <1>1, AcceptedIs
<1>3. 1..(Len(sent) + 1) = 1..Len(sent) \cup {Len(sent) + 1}
  BY <1>1
<1> QED
  BY <1>2, <1>3, AcceptedIs DEF Bench!SentAs

\* What is safe when the core has the message of o: o no longer has it, and the composer is
\* empty, or what was in it and was sent is doubtful.
LEMMA AcceptedKeepsSafe ==
    ASSUME BenchInv, NEW o \in handlers, Bench!Accepted(o), written' = written,
           \A x \in handlers' : x \in handlers \ {o} \/ ~Sending(x),
           \/ draft' = {} /\ doubtful' = doubtful
           \/ draft' = draft /\ doubtful' = doubtful \cup o.text
    PROVE  BenchSafe'
<1>1. Len(sent) \in Nat /\ \A i \in 1..Len(sent') : i \in 1..Len(sent) \/ i = Len(sent) + 1
  BY AcceptedIs DEF BenchInv, BenchTyped
<1>2. KeptForHome' /\ WasWritten'
  BY <1>1, AcceptedIs DEF BenchInv, BenchSafe, KeptForHome, WasWritten
<1>3. doubtful \subseteq doubtful' /\ Sending(o) /\ BenchSafe
  BY AcceptedIs DEF BenchInv
<1>4. \A t : /\ t \in o.text => Bench!SentAs(t)' = Bench!SentAs(t) \cup {Len(sent) + 1}
             /\ t \notin o.text => Bench!SentAs(t)' = Bench!SentAs(t)
  BY SentMore
<1>5. \A x \in handlers' : Sending(x) => x \in handlers /\ x # o
  OBVIOUS
<1>6. \A x \in handlers' : Sending(x) => draft' \subseteq doubtful' \cup x.text
  BY <1>3, <1>5 DEF BenchSafe, OnItsWay
<1>7. \A x, y \in handlers' : Sending(x) /\ Sending(y) /\ x # y =>
         x.text \cap y.text \subseteq doubtful'
  BY <1>3, <1>5 DEF BenchSafe, OnItsWay
<1>8. \A x \in handlers' : Sending(x) => \A t \in x.text \ doubtful' : Bench!SentAs(t)' = {}
  <2> SUFFICES ASSUME NEW x \in handlers', Sending(x), NEW t \in x.text \ doubtful'
               PROVE  Bench!SentAs(t)' = {}
    OBVIOUS
  <2>1. t \notin o.text /\ Bench!SentAs(t) = {}
    BY <1>3, <1>5 DEF BenchSafe, OnItsWay
  <2> QED
    BY <1>4, <2>1
<1>9. \A t \in draft' \ doubtful' : Bench!SentAs(t)' = {}
  <2> SUFFICES ASSUME NEW t \in draft' \ doubtful' PROVE Bench!SentAs(t)' = {}
    OBVIOUS
  <2>1. t \in draft \ doubtful /\ t \notin o.text
    OBVIOUS
  <2>2. Bench!SentAs(t) = {}
    BY <1>3, <2>1 DEF BenchSafe, OnItsWay
  <2> QED
    BY <1>4, <2>1, <2>2
<1>10. \A t \in written \ doubtful' : t \in draft' \/ Bench!SentAs(t)' # {}
  <2> SUFFICES ASSUME NEW t \in written \ doubtful' PROVE t \in draft' \/ Bench!SentAs(t)' # {}
    OBVIOUS
  <2>1. t \in draft \/ Bench!SentAs(t) # {}
    BY <1>3 DEF BenchSafe, OnItsWay
  <2>2. t \in draft => t \in o.text
    BY <1>3 DEF BenchSafe, OnItsWay
  <2> QED
    BY <1>4, <2>1, <2>2
<1>11. \A t \in written \ doubtful' : \A i, j \in Bench!SentAs(t)' : i = j
  <2> SUFFICES ASSUME NEW t \in written \ doubtful'
               PROVE  \A i, j \in Bench!SentAs(t)' : i = j
    OBVIOUS
  <2>1. \A i, j \in Bench!SentAs(t) : i = j
    BY <1>3 DEF BenchSafe, OnItsWay
  <2>2. t \in o.text => Bench!SentAs(t) = {}
    BY <1>3 DEF BenchSafe, OnItsWay
  <2> QED
    BY <1>4, <2>1, <2>2
<1>12. OnItsWay'
  BY <1>6, <1>7, <1>8, <1>9, <1>10, <1>11 DEF OnItsWay
<1> QED
  BY <1>2, <1>12 DEF BenchSafe

LEMMA SentKeeps == ASSUME BenchInv, NEW o \in handlers, Bench!Sent(o) PROVE BenchInv'
<1> DEFINE n == Bench!Reloading(o, o.s, "loadBranch")
<1>1. handlers' = (handlers \ {o}) \cup {n}
  BY DEF Bench!Sent, Bench!Replace
<1>2. /\ o \in BenchOps /\ BenchTyped /\ project \in Bench!Projects /\ o.s \in BenchPlaces
      /\ "loadBranch" \in BenchNexts
  BY DEF BenchInv, BenchTyped, BenchOps, BenchNexts
<1>3. n \in BenchOps /\ n.at # "load" /\ ~Sending(n)
  BY <1>2, ReloadingIs DEF Sending
<1> HIDE DEF n
<1>4. BenchTyped'
  BY <1>1, <1>2, <1>3, HandlersTyped, AcceptedIs DEF BenchTyped, Bench!Sent
<1>5. BenchSafe'
  BY <1>1, <1>3, AcceptedKeepsSafe DEF Bench!Sent
<1> QED
  BY <1>4, <1>5 DEF BenchInv

LEMMA FailsKeeps == ASSUME BenchInv, NEW o \in handlers, Bench!Fails(o) PROVE BenchInv'
<1>1. handlers' = handlers \ {o} /\ UNCHANGED <<exists, project, selected, branch, listed, draft,
                                               written>>
  BY DEF Bench!Fails, Bench!Done, Bench!Replace
<1>2. CASE UNCHANGED <<sent, picked, doubtful>>
  <2>1. BenchSafe'
    BY <1>1, <1>2, OthersKeepSafe DEF BenchInv
  <2>2. BenchTyped'
    BY <1>1, <1>2 DEF BenchInv, BenchTyped
  <2> QED
    BY <2>1, <2>2 DEF BenchInv
<1>3. CASE Bench!Accepted(o) /\ doubtful' = doubtful \cup o.text
  <2>1. BenchSafe'
    BY <1>1, <1>3, AcceptedKeepsSafe
  <2>2. BenchTyped'
    BY <1>1, <1>3, AcceptedIs DEF BenchInv, BenchTyped
  <2> QED
    BY <2>1, <2>2 DEF BenchInv
<1> QED
  BY <1>2, <1>3 DEF Bench!Fails

LEMMA BenchNext == ASSUME BenchInv, [Bench!Next]_BenchVars PROVE BenchInv'
<1>1. CASE UNCHANGED BenchVars
  <2>1. BenchTyped'
    BY <1>1 DEF BenchVars, BenchInv, BenchTyped
  <2>2. BenchSafe'
    BY <1>1, OthersKeepSafe DEF BenchVars, BenchInv
  <2> QED
    BY <2>1, <2>2 DEF BenchInv
<1>2. CASE Bench!Next
  BY <1>2, WriteKeeps, SubmitKeeps, ClicksKeep, SelectSessionKeeps, LoadEndsKeeps,
     ListServedKeeps, ListArrivesKeeps, CreatedKeeps, UploadedKeeps, SentKeeps,
     VariantMadeKeeps, PatchedKeeps, DeletedKeeps, MergedKeeps, FailsKeeps
  DEF Bench!Next, BenchBranches
<1> QED
  BY <1>1, <1>2
=============================================================================
