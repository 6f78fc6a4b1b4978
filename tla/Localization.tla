---------------------------- MODULE Localization ----------------------------
(***************************************************************************)
(* LocalizationService (src/src/services/localization/index.services.ts)   *)
(* and its middleware: the language of one user in the users table, cached *)
(* in Redis for a week, and the language of a session, kept in the session *)
(* and in Redis until it moves to the user who signs in.                   *)
(***************************************************************************)
EXTENDS Naturals

CONSTANTS Visits,      \* calls in flight together
          Languages,
          Default      \* of the column users.language

ASSUME LanguageAssumption == Default \in Languages

VARIABLES
  language,         \* users.language
  cached,           \* user:preferences:<id>, None when absent
  sessionLanguage,  \* session.preferences.language, None without one
  sessionKey,       \* session:<id>:language, None when absent
  visit,            \* call -> [at, language]
  torn              \* history: language and cache were left to differ by a call that
                    \* was cut short, or by calls that overlapped
langVars == <<language, cached, sessionLanguage, sessionKey, visit, torn>>

None == "none"
Away == [at |-> "away", language |-> None]

LangInit ==
  /\ language = Default
  /\ cached = None
  /\ sessionLanguage = None /\ sessionKey = None
  /\ visit = [v \in Visits |-> Away]
  /\ torn = FALSE

VisitAt(v, label) == visit[v].at = label
VisitGoto(v, label, lang) == visit' = [visit EXCEPT ![v] = [at |-> label, language |-> lang]]
VisitEnds(v) == visit' = [visit EXCEPT ![v] = Away]

\* Calls that hold a language they have yet to write to the cache.
Carrying == {v \in Visits : visit[v].at \in {"set row", "read row", "migrating"}}

\* getUserLanguage, from the middleware: a cached language is the answer;
\* otherwise the row is read, then the cache is filled.
getUserLanguage(v) ==
  /\ VisitAt(v, "away")
  /\ IF cached # None THEN UNCHANGED visit ELSE VisitGoto(v, "missed", None)
  /\ UNCHANGED <<language, cached, sessionLanguage, sessionKey, torn>>

ReadRow(v) ==
  /\ VisitAt(v, "missed")
  /\ VisitGoto(v, "read row", language)
  /\ torn' = (torn \/ Carrying # {})
  /\ UNCHANGED <<language, cached, sessionLanguage, sessionKey>>

\* setUserLanguage: the row, then the cache.
UpdateRow(v, lang, label) ==
  /\ language' = lang
  /\ VisitGoto(v, label, lang)
  /\ torn' = (torn \/ Carrying # {})

setUserLanguage(v, lang) ==
  /\ VisitAt(v, "away")
  /\ UpdateRow(v, lang, "set row")
  /\ UNCHANGED <<cached, sessionLanguage, sessionKey>>

\* What is cached: the language of the call, or, as a mistake, only where the
\* cache is empty.
CacheIfAbsent(v) == cached' = IF cached = None THEN visit[v].language ELSE cached
Cache(v) == cached' = visit[v].language

cacheUserLanguage(v) ==
  /\ visit[v].at \in {"set row", "read row"}
  /\ Cache(v)
  /\ VisitEnds(v)
  /\ UNCHANGED <<language, sessionLanguage, sessionKey, torn>>

\* setSessionLanguage; the Redis write may fail, the session keeps it.
setSessionLanguage(lang) ==
  /\ sessionLanguage' = lang
  /\ sessionKey' \in {lang, sessionKey}
  /\ UNCHANGED <<language, cached, visit, torn>>

\* migrateSessionLanguageToUser: what the session holds, or else what the Redis key
\* holds, goes to the row, then to the cache; then session and session key go.
migrateSessionLanguageToUser(v) ==
  /\ VisitAt(v, "away") /\ sessionLanguage # None
  /\ UpdateRow(v, sessionLanguage, "migrating")
  /\ UNCHANGED <<cached, sessionLanguage, sessionKey>>

getSessionLanguage(v) ==
  /\ VisitAt(v, "away") /\ sessionLanguage = None /\ sessionKey # None
  /\ VisitGoto(v, "found", sessionKey)
  /\ UNCHANGED <<language, cached, sessionLanguage, sessionKey, torn>>

MigrateFound(v) ==
  /\ VisitAt(v, "found")
  /\ UpdateRow(v, visit[v].language, "migrating")
  /\ UNCHANGED <<cached, sessionLanguage, sessionKey>>

MigrateCache(v) ==
  /\ VisitAt(v, "migrating")
  /\ Cache(v)
  /\ sessionLanguage' = None
  /\ VisitGoto(v, "clearing", None)
  /\ UNCHANGED <<language, sessionKey, torn>>

clearSessionLanguage(v) ==
  /\ VisitAt(v, "clearing")
  /\ sessionKey' = None
  /\ VisitEnds(v)
  /\ UNCHANGED <<language, cached, sessionLanguage, torn>>

\* Redis or the database fails, or the process stops.
VisitCut(v) ==
  /\ ~VisitAt(v, "away")
  /\ VisitEnds(v)
  /\ torn' = (torn \/ visit[v].at \in {"set row", "migrating"})
  /\ UNCHANGED <<language, cached, sessionLanguage, sessionKey>>

\* The time to live of a key is over.
LangTimeout ==
  /\ \/ cached # None /\ cached' = None /\ UNCHANGED sessionKey
     \/ sessionKey # None /\ sessionKey' = None /\ UNCHANGED cached
  /\ UNCHANGED <<language, sessionLanguage, visit, torn>>

VisitStep(v) ==
  \/ getUserLanguage(v) \/ ReadRow(v) \/ cacheUserLanguage(v)
  \/ \E lang \in Languages : setUserLanguage(v, lang)
  \/ migrateSessionLanguageToUser(v) \/ getSessionLanguage(v) \/ MigrateFound(v)
  \/ MigrateCache(v) \/ clearSessionLanguage(v) \/ VisitCut(v)

LangElapse == LangTimeout \/ \E lang \in Languages : setSessionLanguage(lang)

-----------------------------------------------------------------------------
\* The cached language is the user's, when nobody is between the table and the
\* cache; unless two calls were there at once, or one stopped there
\* (index.services.ts:84-150: the two writes have no transaction).
CacheFollowsRow ==
  Carrying = {} /\ ~torn => cached \in {None, language}
=============================================================================
