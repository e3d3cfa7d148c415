--------------------------- MODULE MCCrawlerRuntime ---------------------------
(***************************************************************************)
(* The instances the run crawler_runtime explores, one after the other: a  *)
(* behaviour stays in the scenario it starts in.                           *)
(*   crawler   a crawler whose bot nobody else calls                       *)
(*   direct    a crawler and callers that go past it to the bot            *)
(*   http      the bot's HTTP client, its session and their close          *)
(*   pipeline  a processing pipeline                                       *)
(*   csv       texts, and mappings, through a CSV processor                *)
(*   html      pages, tag by tag                                           *)
(*   settings  settings from a base mapping and an environment             *)
(***************************************************************************)
EXTENDS CrawlerRun, HttpClient, ProcessingPipeline, CsvProcessor, HtmlTree,
        ConfigLoader

VARIABLE scenario

MCStages == <<"processor", "middleware", "validator", "sink">>

\* Rows blank in two ways, of different lengths, with one header twice, with
\* two that differ by a blank alone, and one that could be a path
MCRows == {<<>>, <<"">>, <<" ">>, <<"a">>, <<"a", "b">>, <<"a", "a">>, <<" a", "a">>, <<"", "b">>,
           <<"a", "b", "a">>, <<"b", "b", "a">>, <<"a/b">>}
MCTexts == BoundedSeq(MCRows, 3)
MCMappings == BoundedSeq(UNION {[fields -> {"", "b"}] : fields \in SUBSET {"a", "b"}}, 2)
MCOrders == {<<"a", "b">>, <<"b", "a">>, <<"a">>, <<"">>, <<"a", "a">>, <<" a", "a">>,
             <<" ", "a", "b">>, <<"a/b">>}

\* Bases with and without errors, that agree with the environments and not
Entry(section, field, value) ==
  [section |-> section, field |-> field, padded |-> FALSE, value |-> value]
Timeout == Entry("http", "timeout_seconds", "some")
Enabled == Entry("storage", "enabled", "yes")
Root == Entry("storage", "root", "some")
MCBases ==
  {{}, {Timeout}, {[Timeout EXCEPT !.value = "bad"]}, {Timeout, [Timeout EXCEPT !.padded = TRUE]},
   {Entry("download", "max_bytes", "null"), Root}, {Enabled}, {Enabled, Root},
   {Entry("other", "root", "some")}, {Root, Entry("storage", "other", "some")}}

\* Up to two variables, with every text
MCEnvironments ==
  UNION {[variables -> {"some", "bad", "null", "yes", "no", "blank"}] :
           variables \in {v \in SUBSET (AllFields \union {"other"}) : Cardinality(v) <= 2}}

ViaCrawler == INSTANCE CrawlerRun WITH DirectBotCalls <- FALSE

dataVars == <<csvVars, htmlVars, configVars>>
MCVars == <<crawlerVars, httpVars, pipeVars, dataVars, scenario>>

\* csv and settings begin with their inputs, which the other scenarios fix.
ConfigOption == {"has_header", "reject_duplicate_headers", "reject_empty_headers",
                 "strict_row_length", "skip_blank_rows"}
CsvFixed == config = [option \in ConfigOption |-> TRUE] /\ csv_stage = "mappings" /\ CsvInit
ConfigFixed == base = {} /\ env = <<>> /\ ConfigInit

MCInit ==
  /\ CrawlerInit /\ HttpInit /\ PipeInit /\ HtmlInit
  /\ \/ /\ scenario \in {"crawler", "direct", "http", "pipeline", "html"}
        /\ CsvFixed /\ ConfigFixed
     \/ scenario = "csv" /\ ConfigFixed /\ CsvInit
     \/ scenario = "settings" /\ CsvFixed /\ ConfigInit

MCNext ==
  /\ UNCHANGED scenario
  /\ \/ /\ \/ scenario = "crawler" /\ ViaCrawler!CrawlerNext
           \/ scenario = "direct" /\ CrawlerNext
        /\ UNCHANGED <<httpVars, pipeVars, dataVars>>
     \/ scenario = "http" /\ HttpNext /\ UNCHANGED <<crawlerVars, pipeVars, dataVars>>
     \/ scenario = "pipeline" /\ PipeNext /\ UNCHANGED <<crawlerVars, httpVars, dataVars>>
     \/ /\ \/ scenario = "csv" /\ CsvNext /\ UNCHANGED <<htmlVars, configVars>>
           \/ scenario = "html" /\ HtmlNext /\ UNCHANGED <<csvVars, configVars>>
           \/ scenario = "settings" /\ ConfigNext /\ UNCHANGED <<csvVars, htmlVars>>
        /\ UNCHANGED <<crawlerVars, httpVars, pipeVars>>

MCSpec ==
  /\ MCInit /\ [][MCNext]_MCVars
  /\ \A t \in Thread :
       WF_MCVars(Proceeds(t) /\ UNCHANGED <<httpVars, pipeVars, dataVars, scenario>>)
  /\ WF_MCVars(scenario = "http" /\ Tick /\ UNCHANGED <<crawlerVars, pipeVars, dataVars, scenario>>)

(***************************************************************************)
(* The type invariants of the six modules                                  *)
(***************************************************************************)
RuntimeTypeOK ==
  CrawlerTypeOK /\ HttpTypeOK /\ PipeTypeOK /\ CsvTypeOK /\ HtmlTypeOK /\ ConfigTypeOK

(***************************************************************************)
(* A bot that is asked to stop stops (StopEndsBotRun of CrawlerRun); and a *)
(* crawler that is stopping finishes, when every call is one of the        *)
(* crawler's own (StoppingCrawlerFinishes).                                *)
(***************************************************************************)
StopRequestsWork ==
  /\ StopEndsBotRun
  /\ scenario = "crawler" => StoppingCrawlerFinishes
=============================================================================
