----------------------------- MODULE LimitParser ----------------------------
(***************************************************************************)
(* What discovery reads out of the output of a command: Parser             *)
(* (pkg/discovery/parser.go) and EnhancedParser (enhanced_parser.go).      *)
(*                                                                         *)
(* An output is a sequence of lines "name: number" or "name: number;w=     *)
(* seconds", then perhaps a JSON document, of which the first `seen` parts *)
(* are within the 50 KB that Parser looks at.  Only the numbers of the     *)
(* document that the code knows count: json is a function from some of     *)
(* their names to integers.  A command is a sequence of arguments.  Time   *)
(* counts in seconds.                                                      *)
(***************************************************************************)
EXTENDS Integers, Sequences, FiniteSets

CONSTANTS
  Texts,          \* sequences of lines
  Documents,      \* JSON documents, Nil for none
  Mentions,       \* words that may occur anywhere in the output
  Commands,       \* sequences of arguments
  URLs,           \* the arguments that are URLs; each its own host and path
  Clock,          \* time.Now() in seconds
  Hour,           \* the default window
  MaxSeconds,     \* a Duration holds fewer than this many seconds
  Huge,           \* digits that strconv.Atoi refuses
  Nil             \* a pointer that is nil, a value that is not a number

(* What a line holds, and what the parsers return.                         *)
Lines == [name: STRING, num: Nat \cup {Nil, Huge}, w: Nat \cup {Nil, Huge}]
Reports == [source: {"http_header", "json_body"}, limit: Int, remaining: Int,
            window: Int, failed: Int]

ASSUME ParserAssumption ==
  /\ Clock \in Nat /\ Hour \in Nat \ {0} /\ MaxSeconds \in Nat \ {0}
  /\ Nil # Huge /\ {Nil, Huge} \cap Int = {} /\ Nil \notin Reports \cup Lines
  /\ Texts \subseteq Seq(Lines)
  /\ \A doc \in Documents : doc = Nil \/ \A n \in DOMAIN doc : doc[n] \in Int
  /\ Commands \subseteq Seq(STRING) /\ URLs \subseteq STRING
  /\ Nil \notin URLs /\ URLs \cap {"-s", "-X", "-u", "--url"} = {}

VARIABLES
  output, command,   \* the last call
  base,              \* the info of ParseFromCommandOutput, or Nil
  enhanced,          \* the info of ParseFromCommandOutputEnhanced, or Nil
  resource           \* resourceID of extractResourceInfo

parserVars == <<output, command, base, enhanced, resource>>

Line(name, num, w) == [name |-> name, num |-> num, w |-> w]

(* time.Duration(n) * time.Second in 64 bits.                              *)
Seconds(n) == ((n + MaxSeconds) % (2 * MaxSeconds)) - MaxSeconds

(* time.Until, an hour if that is past.                                    *)
Until(t) ==
  LET d == t - Clock
  IN  IF d < 0 THEN Hour ELSE IF d >= MaxSeconds THEN MaxSeconds - 1 ELSE d

First(a, b) == IF a # Nil THEN a ELSE b
OrZero(a) == First(a, 0)
OrHour(window) == IF window = 0 THEN Hour ELSE window

Smallest(S) == CHOOSE i \in S : \A j \in S : i <= j

-----------------------------------------------------------------------------
(* extractRateLimitHeaders, one pattern: the first line of this name with  *)
(* digits; Nil also if the digits are too many.                            *)
Header(lines, name) ==
  LET at == {i \in DOMAIN lines : lines[i].name = name /\ lines[i].num # Nil}
      first == lines[Smallest(at)]
  IN  IF at = {} \/ first.num = Huge THEN Nil ELSE first.num

Info(source, limit, remaining, window) ==
  [source |-> source, limit |-> limit, remaining |-> remaining,
   window |-> window, failed |-> 0]

(* parseHTTPHeaders, the window.                                           *)
HeaderWindow(reset, retry) ==
  OrHour(IF reset # Nil THEN Until(reset)
         ELSE IF retry # Nil THEN Seconds(retry) ELSE 0)

(* parseHTTPHeaders.  (The GitHub fields repeat the standard ones.)        *)
ParseHTTPHeaders(lines) ==
  LET h == [n \in {"x-ratelimit-limit", "x-ratelimit-remaining",
                   "x-ratelimit-reset", "retry-after", "x-rate-limit-limit",
                   "x-rate-limit-remaining", "x-rate-limit-reset"} |->
              Header(lines, n)]
      reset == First(h["x-ratelimit-reset"], h["x-rate-limit-reset"])
  IN  IF \A n \in DOMAIN h : h[n] = Nil THEN Nil
      ELSE Info("http_header",
             OrZero(First(h["x-ratelimit-limit"], h["x-rate-limit-limit"])),
             OrZero(First(h["x-ratelimit-remaining"],
                          h["x-rate-limit-remaining"])),
             HeaderWindow(reset, h["retry-after"]))

(* parseJSONResponse, extractRateLimitFromJSON and hasJSONRateLimitInfo.   *)
ParseJSONResponse(json) ==
  LET j(n) == IF n \in DOMAIN json THEN json[n] ELSE Nil
      retry == OrZero(First(First(j("retry_after"), j("retry_after_seconds")),
                            j("error.retry_after")))
      reset == j("rate_limit.reset")
  IN  IF json = Nil \/ DOMAIN json = {} THEN Nil
      ELSE Info("json_body",
             OrZero(First(j("limit"), j("rate_limit.limit"))),
             OrZero(First(j("remaining"), j("rate_limit.remaining"))),
             OrHour(IF retry > 0 THEN Seconds(retry)
                    ELSE IF reset # Nil THEN Until(reset) ELSE 0))

(* The lines within maxProcessingSize.                                     *)
Visible(out) ==
  SubSeq(out.lines, 1, IF out.seen > Len(out.lines) THEN Len(out.lines) ELSE out.seen)

(* Mutated ParseFromCommandOutput: the document is asked first.            *)
ParseDocumentFirst(out) ==
  LET document == IF out.seen > Len(out.lines) /\ out.json # Nil
                  THEN ParseJSONResponse(out.json) ELSE Nil
  IN  First(document, ParseHTTPHeaders(Visible(out)))

(* ParseFromCommandOutput: a document that is cut off does not parse.      *)
ParseFromCommandOutput(out) ==
  LET document == IF out.seen > Len(out.lines) /\ out.json # Nil
                  THEN ParseJSONResponse(out.json) ELSE Nil
  IN  First(ParseHTTPHeaders(Visible(out)), document)

-----------------------------------------------------------------------------
(* The names that the generic patterns of EnhancedParser accept: anything  *)
(* that contains the words.                                                *)
XRateLimit == {"x-rate-limit-limit", "x-rate-limit-remaining",
               "x-rate-limit-reset", "x-rate-limit-window"}

(* A message like "rate-limit exceeded" without a colon: the pattern runs  *)
(* on to the number of the next line.                                      *)
Message == "rate-limit message"

RunOn(lines) ==
  [i \in DOMAIN lines |->
     IF lines[i].name = Message
     THEN Line(Message, IF i < Len(lines) THEN lines[i + 1].num ELSE Nil, Nil)
     ELSE lines[i]]

(* compileEnhancedPatterns: the lines that a pattern matches.              *)
Accepts(pattern, l) ==
  /\ l.num # Nil
  /\ CASE pattern = "x-rate-limit" -> l.name \in XRateLimit
       [] pattern = "rate-limit"   -> l.name \in XRateLimit \cup {Message}
       [] pattern = "quota-limit"  -> l.name = "x-goog-quota-limit"
       [] pattern = "x-amzn-ratelimit" -> l.name = "x-amzn-ratelimit-limit"
       [] pattern = "ratelimit-policy" -> l.name = pattern /\ l.w # Nil
       [] pattern = "ratelimit-limit"  ->
            l.w # Nil /\ l.name \in {"ratelimit-limit", "x-ratelimit-limit",
                                     "x-amzn-ratelimit-limit"}
       [] OTHER -> l.name = pattern

(* extractEnhancedHeaders, the first match; Nil without one.               *)
Found(out, pattern) ==
  LET lines == RunOn(out.lines)
      at == {i \in DOMAIN lines : Accepts(pattern, lines[i])}
  IN  IF at = {} THEN Nil ELSE lines[Smallest(at)]

(* hasEnhancedRateLimitInfo.                                               *)
Indicators == {"ratelimit-policy", "x-ratelimit-window", "x-rate-limit-window",
               "x-ratelimit-limit", "x-amzn-ratelimit", "x-goog-quota-limit",
               "x-ms-ratelimit-remaining", "ratelimit-limit", "x-rate-limit",
               "rate-limit", "quota-limit", "throttle-limit"}

HasEnhanced(out) ==
  LET lines == RunOn(out.lines)
  IN  \E i \in DOMAIN lines, p \in Indicators : Accepts(p, lines[i])

(* The first of these patterns whose number Atoi accepts.                  *)
FirstNumber(out, patterns) ==
  LET at == {i \in DOMAIN patterns : /\ Found(out, patterns[i]) # Nil
                                     /\ Found(out, patterns[i]).num # Huge}
  IN  IF at = {} THEN Nil ELSE Found(out, patterns[Smallest(at)]).num

(* inferRateLimitFromContext.                                              *)
InferRateLimit(out) ==
  IF "github" \in out.mentions THEN 5000
  ELSE IF "docker" \in out.mentions THEN 100
  ELSE IF "kubernetes" \in out.mentions THEN 400
  ELSE IF "aws" \in out.mentions THEN 1000
  ELSE 100

(* populateFromEnhancedHeaders.                                            *)
Populate(info, out) ==
  LET policy == Found(out, "ratelimit-policy")
      docker == Found(out, "ratelimit-limit")
      Num(l) == IF l = Nil \/ l.num = Huge THEN Nil ELSE l.num
      Win(l) == IF l = Nil \/ l.w = Huge THEN Nil ELSE Seconds(l.w)
      limit == First(FirstNumber(out, <<"x-goog-quota-limit", "x-amzn-ratelimit",
                                        "x-rate-limit", "rate-limit",
                                        "quota-limit">>),
                     OrZero(First(Num(docker), Num(policy))))
      remaining == FirstNumber(out, <<"x-goog-quota-remaining",
                                      "x-ms-ratelimit-remaining">>)
  IN  [info EXCEPT
         !.limit = IF limit = 0 THEN InferRateLimit(out) ELSE limit,
         !.remaining = First(remaining, @),
         !.window = First(First(Win(docker), Win(policy)), Hour),
         !.failed = IF "429" \in out.mentions THEN 1 ELSE @]

(* enhanceDiscoveryResult (the confidence, which is returned but not       *)
(* stored, left out).                                                      *)
EnhanceDiscoveryResult(info, out) ==
  LET filled == IF info.limit = 0 /\ HasEnhanced(out) THEN Populate(info, out)
                ELSE info
  IN  IF "429" \in out.mentions THEN [filled EXCEPT !.failed = @ + 1] ELSE filled

(* ParseFromCommandOutputEnhanced and parseWithEnhancedPatterns.           *)
ParseEnhanced(out) ==
  LET found == ParseFromCommandOutput(out)
  IN  IF found # Nil THEN EnhanceDiscoveryResult(found, out)
      ELSE IF HasEnhanced(out)
      THEN Populate(Info("http_header", 0, 0, Hour), out)
      ELSE Nil

-----------------------------------------------------------------------------
Flags == {"-s", "-X", "-u", "--url"}
Valued == {"-X", "-u"}             \* of curl; --url takes the URL itself

(* extractURLFromCurl and extractURLFromWget (for which -u is a flag like  *)
(* any other), and HTTPie's second word.                                   *)
ExtractURL(cmd) ==
  LET at == {i \in 2 .. Len(cmd) :
               \/ cmd[i] \notin Flags
               \/ cmd[1] = "curl" /\ cmd[i] \in {"-u", "--url"} /\ i < Len(cmd)}
      i == Smallest(at)
  IN  IF cmd[1] \in {"http", "https"} THEN IF Len(cmd) > 1 THEN cmd[2] ELSE Nil
      ELSE IF cmd[1] \notin {"curl", "wget"} \/ at = {} THEN Nil
      ELSE IF cmd[i] \in Flags THEN cmd[i + 1] ELSE cmd[i]

(* extractResourceInfo: host and path of the URL, or what url.Parse makes  *)
(* of another word; else the words of the command.                         *)
ExtractResourceInfo(cmd) ==
  IF cmd = <<>> THEN <<"unknown">>
  ELSE IF ExtractURL(cmd) # Nil THEN <<ExtractURL(cmd)>> ELSE cmd

-----------------------------------------------------------------------------
ParserInit ==
  /\ output = Nil
  /\ command = <<>>
  /\ base = Nil
  /\ enhanced = Nil
  /\ resource = <<"unknown">>

(* Both parsers on one output.                                             *)
Parse(out) ==
  /\ output = Nil /\ command = <<>>
  /\ output' = out
  /\ base' = ParseFromCommandOutput(out)
  /\ enhanced' = ParseEnhanced(out)
  /\ UNCHANGED <<command, resource>>

(* The resource of a command, for ProcessCommandOutput and for             *)
(* GetRateLimitForCommand.                                                 *)
Identify(cmd) ==
  /\ output = Nil /\ command = <<>>
  /\ command' = cmd
  /\ resource' = ExtractResourceInfo(cmd)
  /\ UNCHANGED <<output, base, enhanced>>

ParserNext ==
  \/ \E text \in Texts, doc \in Documents, words \in Mentions :
       \E seen \in 0 .. Len(text) + 1 :
         Parse([lines |-> text, json |-> doc, seen |-> seen, mentions |-> words])
  \/ \E cmd \in Commands : Identify(cmd)

ParserSpec == ParserInit /\ [][ParserNext]_parserVars

-----------------------------------------------------------------------------
Stated(names) == {output.lines[i].num : i \in
                    {i \in DOMAIN output.lines : output.lines[i].name \in names}}

InJSON(names) == IF output.json = Nil THEN {}
                 ELSE {output.json[n] : n \in DOMAIN output.json \cap names}

Retries == Stated({"retry-after"}) \cup
           InJSON({"retry_after", "retry_after_seconds", "error.retry_after"})

Windows == {output.lines[i].w : i \in DOMAIN output.lines}

(* The window that goes into the database is positive, whatever the        *)
(* response says of resets in the past and of zero seconds: exceptions are *)
(* durations that overflow and, with EnhancedParser, a policy of no time   *)
(* at all (w=0), which parseHTTPHeaders and parseJSONResponse guard        *)
(* against and populateFromEnhancedHeaders does not.                       *)
WindowIsUsable ==
  LET Overflows == \E s \in Retries : s \notin {Nil, Huge} /\ s >= MaxSeconds
  IN  /\ base # Nil => base.window > 0 \/ Overflows
      /\ enhanced # Nil =>
           \/ enhanced.window > 0 \/ Overflows
           \/ \E w \in Windows \ {Nil, Huge} : w = 0 \/ w >= MaxSeconds

(* A limit is never made up by Parser, and headers go before the document: *)
(* a non-zero limit was stated, as a limit, by the part of the output that *)
(* the info says it comes from.                                            *)
LimitWasStated ==
  base # Nil /\ base.limit # 0 =>
    IF base.source = "http_header"
    THEN base.limit \in Stated({"x-ratelimit-limit", "x-rate-limit-limit"})
    ELSE /\ base.limit \in InJSON({"limit", "rate_limit.limit"})
         /\ \/ Stated({"x-ratelimit-limit", "retry-after"}) \subseteq {Nil}
            \/ Huge \in Stated({"x-ratelimit-limit", "retry-after"})

(* EnhancedParser only adds to what Parser finds: if Parser has found a    *)
(* limit it stays, with its window and what remains; and an info of        *)
(* EnhancedParser has a limit wherever one of its patterns matches.        *)
EnhancedOnlyAdds ==
  /\ base # Nil => enhanced # Nil /\ enhanced.source = base.source
  /\ base # Nil /\ base.limit # 0 =>
       [enhanced EXCEPT !.failed = 0] = [base EXCEPT !.failed = 0]
  /\ enhanced # Nil /\ HasEnhanced(output) => enhanced.limit # 0

(* Two commands share a row of the database only if they ask for the same  *)
(* URL, as long as only options without a value, and its own --url, come   *)
(* before the URL: with another one ("curl -X POST <url>"), the value is   *)
(* taken for the URL.                                                      *)
ResourceIsTheURL ==
  \A i \in 2 .. Len(command) :
    /\ command[1] \in {"curl", "wget"} /\ command[i] \in URLs
    /\ \A j \in 2 .. i - 1 : /\ command[j] \in Flags \ Valued
                             /\ command[j] = "--url" => j = i - 1
    => resource = <<command[i]>>

(* Whatever lines, fields and words an output mixes, the limit that a      *)
(* parser reports was stated by the source it names, and the enhanced one  *)
(* only fills gaps; the window is positive unless a duration overflows or  *)
(* a policy says w=0; and the key is the URL if only options without a     *)
(* value come before it.                                                   *)
InfoFollowsOutput ==
  LimitWasStated /\ WindowIsUsable /\ EnhancedOnlyAdds /\ ResourceIsTheURL
=============================================================================
