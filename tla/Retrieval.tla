----------------------------- MODULE Retrieval -----------------------------
(***************************************************************************)
(* Searching the published pieces of a project and reading a citation back: *)
(* KnowledgeRepository (knowledge/store.py), rank_chunks                    *)
(* (knowledge/retrieval.py), the queries of the two ingestion stores, and   *)
(* the evidence state of an answer (knowledge/evidence_state.py).  Versions *)
(* of a source are published by workers in any order, see IngestionJobs,    *)
(* each in one transaction.  A text stands for the terms it holds.          *)
(***************************************************************************)
EXTENDS Naturals, Sequences, FiniteSets, SequencesExt, FiniteSetsExt

CONSTANTS
    Documents,     \* the versions of the sources
    SourceRank,    \* document -> its source, numbered in the order of their ids
    VersionOf,     \* document -> its version
    ChunksOf,      \* document -> its pieces: [from, to, heading, body, text]
    Hashes,        \* the hashes a client may send with a citation, "" for none
    Claims,        \* conclusions an answer may have to support
    Lookups,       \* the requests
    LookupKind,    \* request -> "search", "judge" or "read"
    QueryOf,       \* search -> [phrase, terms]
    LimitOf,       \* search -> how many hits it asks for
    LookupLoads    \* the sets of requests that are tried together

\* A source has one document of each version, and a document one piece of each span:
\* the keys of the tables, and the splitter never stays where it is.
ASSUME PiecesHaveKeys ==
    /\ IsFiniteSet(Documents)
    /\ \A d \in Documents :
          /\ SourceRank[d] \in Nat /\ VersionOf[d] \in Nat
          /\ Len(ChunksOf[d]) \in Nat /\ DOMAIN ChunksOf[d] = 1..Len(ChunksOf[d])
          /\ \A i, j \in DOMAIN ChunksOf[d] :
                ChunksOf[d][i].from = ChunksOf[d][j].from /\ ChunksOf[d][i].to = ChunksOf[d][j].to
                  => i = j
    /\ \A d, e \in Documents :
          SourceRank[d] = SourceRank[e] /\ VersionOf[d] = VersionOf[e] => d = e

ASSUME LookupsAreWellFormed ==
    /\ \A L \in LookupLoads : L \subseteq Lookups
    /\ \A l \in Lookups : LookupKind[l] = "search" =>
          LimitOf[l] \in Nat /\ IsFiniteSet(QueryOf[l].terms)

VARIABLES
    lookups,    \* the requests of this behaviour
    published,  \* documents whose pieces are stored
    hits,       \* request -> the answer of a search, or NoAnswer
    read,       \* request -> [asked, got], or NoRead
    verdict     \* request -> what the evidence of an answer was found to be

retrievalVars == <<lookups, published, hits, read, verdict>>

NoAnswer == [query |-> [phrase |-> "", terms |-> {}], limit |-> 0, from |-> {}, found |-> <<>>]
NoCitation == [source |-> 0, document |-> "none", from |-> 0, to |-> 0, hash |-> ""]
NoPiece == [document |-> "none", index |-> 0]
NoRead == [asked |-> NoCitation, got |-> NoPiece]
NoVerdict == [state |-> "none", issues |-> {}, required |-> {}, covered |-> {}, signals |-> {}]

RetrievalInit ==
    /\ lookups \in LookupLoads
    /\ published = {}
    /\ hits = [l \in Lookups |-> NoAnswer]
    /\ read = [l \in Lookups |-> NoRead]
    /\ verdict = [l \in Lookups |-> NoVerdict]

-----------------------------------------------------------------------------
(* The stored pieces.                                                      *)

PiecesOf(documents) ==
    UNION {{[document |-> d, index |-> i] : i \in DOMAIN ChunksOf[d]} : d \in documents}

Stored == PiecesOf(published)

Piece(c) == ChunksOf[c.document][c.index]
Source(c) == SourceRank[c.document]

\* The newest version of its source that has pieces: one that failed hides nothing.
Newest(c) ==
    \A d \in published :
        SourceRank[d] = Source(c) /\ ChunksOf[d] # <<>> => VersionOf[d] <= VersionOf[c.document]

\* stored_chunks with latest_only.
Searchable == {c \in Stored : Newest(c)}

\* as_artifact_ref: a citation names the version; the hash stands for the text.
Citation(c) ==
    [source |-> Source(c), document |-> c.document,
     from |-> Piece(c).from, to |-> Piece(c).to, hash |-> Piece(c).text]

\* A read by source and span alone takes the first it meets.
ReadFirst(asked) ==
    LET there == {c \in Stored : /\ Piece(c).from = asked.from /\ Piece(c).to = asked.to
                                 /\ Source(c) = asked.source}
    IN IF there = {} THEN NoPiece ELSE CHOOSE c \in there : TRUE

\* chunk_at, and the two checks of read_span; an empty hash is not checked.
ReadSpan(asked) ==
    LET there == {c \in Stored : /\ c.document = asked.document
                                 /\ Piece(c).from = asked.from /\ Piece(c).to = asked.to
                                 /\ Source(c) = asked.source
                                 /\ asked.hash \in {"", Piece(c).text}}
    IN IF there = {} THEN NoPiece ELSE CHOOSE c \in there : TRUE

-----------------------------------------------------------------------------
(* Ranking.                                                                *)

\* score_chunk: a term found in the heading is not counted again in the body.
Score(c, query) ==
    LET inHeading == query.terms \cap Piece(c).heading
        inBody == (query.terms \ inHeading) \cap Piece(c).body
    IN (IF query.phrase \in Piece(c).body THEN 100 ELSE 0)
       + 10 * Cardinality(inHeading) + 3 * Cardinality(inBody)
       + (IF query.terms # {} /\ inHeading \cup inBody = query.terms THEN 15 ELSE 0)

\* The sort key (-score, source_id, chunk_index): nothing random decides a tie.
RanksBefore(a, b, query) ==
    \/ Score(a, query) > Score(b, query)
    \/ /\ Score(a, query) = Score(b, query)
       /\ \/ Source(a) < Source(b)
          \/ Source(a) = Source(b) /\ a.index < b.index

\* How many of some pieces are sorted before one of them.
PiecesBefore(c, pieces, query) == Cardinality({b \in pieces : RanksBefore(b, c, query)})

\* rank_chunks: what scores nothing is no candidate, and a query needs a term.
RankChunks(query, limit) ==
    LET scored == {c \in Searchable : query.terms # {} /\ Score(c, query) > 0}
    IN [place \in 1..Min({limit, Cardinality(scored)}) |->
          CHOOSE c \in scored : PiecesBefore(c, scored, query) = place - 1]

-----------------------------------------------------------------------------
(* The evidence.                                                           *)

\* RetrievalSignals: candidates, best score below the floor, the claims an answer has
\* to support and those that stand, and what went wrong on the way.
Signals ==
    {s \in [candidates : 0..1, below : BOOLEAN, required : SUBSET Claims,
            covered : SUBSET Claims, faults : SUBSET {"steps", "fetch", "scope", "unknown"}] :
        s.candidates = 0 => ~s.below}

Gap(s) == s.required = {} \/ ~(s.required \subseteq s.covered) \/ "steps" \in s.faults

\* The issues of assess_retrieval, by their code.
IssuesOf(s) ==
    {i \in {"SCOPE_BLOCKED", "TOOL_RESULT_UNKNOWN", "SOURCE_FETCH_FAILED",
            "NO_CANDIDATES", "LOW_RELEVANCE", "MISSING_SUPPORT"} :
        \/ i = "SCOPE_BLOCKED" /\ "scope" \in s.faults
        \/ i = "TOOL_RESULT_UNKNOWN" /\ "unknown" \in s.faults
        \/ i = "SOURCE_FETCH_FAILED" /\ "fetch" \in s.faults
        \/ i = "NO_CANDIDATES" /\ s.candidates = 0
        \/ i = "LOW_RELEVANCE" /\ s.candidates > 0 /\ s.below
        \/ i = "MISSING_SUPPORT" /\ Gap(s)}

\* Claims stand only when it is known which ones are asked for.
EffectiveClaims(s) == IF s.required = {} THEN {} ELSE s.covered

\* _derive_state
DerivedState(issues, claims) ==
    IF issues = {} THEN "supported"
    ELSE IF claims # {} THEN "partially_supported" ELSE "insufficient"

\* EvidenceAssessment refuses to exist when its parts contradict one another.
Contradicts(state, issues, required, claims) ==
    \/ state = "supported" /\ (issues # {} \/ required = {} \/ ~(required \subseteq claims))
    \/ state # "supported" /\ issues = {}
    \/ state # "supported" /\ required = {} /\ (claims # {} \/ "MISSING_SUPPORT" \notin issues)
    \/ state = "partially_supported" /\ claims = {}
    \/ state = "insufficient" /\ required # {} /\ claims # {}

AssessRetrieval(s) ==
    LET claims == EffectiveClaims(s)
        issues == IssuesOf(s)
        state == DerivedState(issues, claims)
    IN [state |-> IF Contradicts(state, issues, s.required, claims) THEN "raised" ELSE state,
        issues |-> issues, required |-> s.required, covered |-> claims, signals |-> {s}]

\* KnowledgeRepository.assess: nothing else had to be fetched, no claims are known.
SearchSignals(found) ==
    [candidates |-> IF found = <<>> THEN 0 ELSE 1, below |-> FALSE,
     required |-> {}, covered |-> {}, faults |-> {}]

-----------------------------------------------------------------------------
(* Actions.                                                                *)

Waits(l, kind) ==
    /\ LookupKind[l] = kind
    /\ hits[l] = NoAnswer /\ read[l] = NoRead /\ verdict[l] = NoVerdict

\* A worker publishes a version: all its pieces, see IngestionJobs!Complete.
PublishVersion(d) ==
    /\ d \notin published
    /\ published' = published \cup {d}
    /\ UNCHANGED <<lookups, hits, read, verdict>>

\* search_knowledge
SearchKnowledge(l) ==
    /\ Waits(l, "search")
    /\ LET found == RankChunks(QueryOf[l], LimitOf[l])
       IN /\ hits' = [hits EXCEPT ![l] = [query |-> QueryOf[l], limit |-> LimitOf[l],
                                          from |-> published, found |-> found]]
          /\ verdict' = [verdict EXCEPT ![l] = AssessRetrieval(SearchSignals(found))]
    /\ UNCHANGED <<lookups, published, read>>

\* assess_retrieval for any other signals it may be given, as _handle_retrieve has them.
Judge(l) ==
    /\ Waits(l, "judge")
    /\ \E s \in Signals : verdict' = [verdict EXCEPT ![l] = AssessRetrieval(s)]
    /\ UNCHANGED <<lookups, published, hits, read>>

\* What a client may ask for: a citation of an answer, or one put together of the parts
\* of two, with or without a hash.
CitedPieces == UNION {Range(hits[l].found) : l \in lookups}
Askable ==
    {[source |-> Source(b), document |-> c.document,
      from |-> Piece(c).from, to |-> Piece(c).to, hash |-> h] :
        c \in CitedPieces, b \in CitedPieces, h \in Hashes}

\* read_source_span
ReadSourceSpan(l) ==
    /\ Waits(l, "read")
    /\ \E asked \in Askable :
         read' = [read EXCEPT ![l] = [asked |-> asked, got |-> ReadSpan(asked)]]
    /\ UNCHANGED <<lookups, published, hits, verdict>>

RetrievalNext ==
    \/ \E d \in Documents : PublishVersion(d)
    \/ \E l \in lookups : SearchKnowledge(l) \/ Judge(l) \/ ReadSourceSpan(l)

-----------------------------------------------------------------------------
(* Properties.                                                             *)

RetrievalTypeOK ==
    /\ lookups \in LookupLoads /\ published \subseteq Documents
    /\ \A l \in lookups :
         /\ \A c \in Range(hits[l].found) : c.document \in Documents
         /\ read[l].got = NoPiece \/ read[l].got.document \in Documents
         /\ verdict[l].state \in {"none", "supported", "partially_supported", "insufficient", "raised"}

Searched == {l \in lookups : LookupKind[l] = "search" /\ hits[l].limit > 0}

\* An answer is of one version of a source, and a later answer never of an older one:
\* versions that are published late do not come back.
NeverGoesBack ==
    \A l, m \in Searched : hits[l].from \subseteq hits[m].from =>
        \A c \in Range(hits[l].found), d \in Range(hits[m].found) :
            Source(c) = Source(d) => VersionOf[c.document] <= VersionOf[d.document]

\* Where a hit stands is what its score, source and place say, however the rows come:
\* the candidates before it are those that rank before it, and none is left out.
Candidates(a) ==
    {c \in PiecesOf(a.from) :
        /\ a.query.terms # {}
        /\ \A d \in a.from :
             SourceRank[d] = Source(c) /\ VersionOf[d] > VersionOf[c.document] => ChunksOf[d] = <<>>
        /\ Score(c, a.query) > 0}

PlacesAreEarned ==
    \A l \in Searched :
        LET a == hits[l]
            candidates == Candidates(a)
        IN /\ Len(a.found) = Min({a.limit, Cardinality(candidates)})
           /\ \A i \in DOMAIN a.found :
                {c \in candidates : RanksBefore(c, a.found[i], a.query)}
                  = {a.found[j] : j \in 1..(i - 1)}

\* A citation of an answer can be read back at any later time, and gives the text that
\* was cited; no citation, whole or put together, gives anything but what it names.
CitationsReadBack ==
    \A l \in {m \in lookups : LookupKind[m] = "read" /\ read[m] # NoRead} : LET r == read[l] IN
        /\ r.got # NoPiece =>
             Citation(r.got) = [r.asked EXCEPT !.hash = Piece(r.got).text]
             /\ r.asked.hash \in {"", Piece(r.got).text}
        /\ \A m \in Searched : \A c \in Range(hits[m].found) :
             r.asked = Citation(c) => r.got = c

\* An answer is called supported only when the claims it has to support are known and
\* all stand, and nothing went wrong; a state is always found, and found explained.
EvidenceIsNotOverstated ==
    \A l \in lookups : \A s \in verdict[l].signals :
        /\ verdict[l].state # "raised"
        /\ verdict[l].state = "supported" <=>
             /\ s.required # {} /\ s.required \subseteq s.covered
             /\ s.faults = {} /\ s.candidates > 0 /\ ~s.below
        /\ verdict[l].state = "partially_supported" => s.required # {} /\ verdict[l].covered # {}

\* What a search answers stays true: which pieces, in which order, of which version,
\* with which evidence, and what its citations say when they are read later.
AnswersStayTrue ==
    NeverGoesBack /\ PlacesAreEarned /\ CitationsReadBack /\ EvidenceIsNotOverstated
=============================================================================
