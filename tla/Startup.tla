------------------------------- MODULE Startup -------------------------------
(***************************************************************************)
(* How the program starts: the command line (util/cli_options.cpp), the    *)
(* configuration file (config/config.cpp) and the choice of what to run    *)
(* (main.cpp).  A file is a set of entries [section, key, value]; a value  *)
(* is one of a few of each JSON kind, "wide" being 2^32, whose int is 0.   *)
(* An option of the command line is given with a usable argument, or the   *)
(* line is garbled.                                                        *)
(***************************************************************************)
EXTENDS Naturals, FiniteSets

CONSTANTS
  Starts,     \* command line [sub, given : options] and file of a start
  Unreadable  \* the files that cannot be opened or parsed

VARIABLES stage, args, file, config, errors, chosen

uvars == <<stage, args, file, config, errors, chosen>>

Values == {"zero", "one", "wide", "real", "true", "false", "text", "object"}
Integers32 == {"zero", "one", "wide"}

(* The keys of each section, by the kind of their field. *)
Keys(ints, texts, bools, reals, longs) ==
  [k \in ints \cup texts \cup bools \cup reals \cup longs |->
     CASE k \in ints -> "INT" [] k \in texts -> "STRING" [] k \in bools -> "BOOL"
       [] k \in reals -> "DOUBLE" [] k \in longs -> "LONG"]

HardwareSchema ==
  [io |-> Keys({"step", "dir", "enable", "limit_open", "limit_closed", "hopper_en",
                "hopper_pulse", "hx_dt", "hx_sck"}, {}, {}, {}, {}),
   mechanics |-> Keys({"steps_per_mm", "open_mm", "max_mm"}, {}, {}, {}, {}),
   hopper |-> Keys({"pulses_per_coin", "min_edge_interval_us"}, {}, {}, {}, {}),
   dispense |-> Keys({"jam_ms", "settle_ms", "max_ms_per_coin", "hard_timeout_ms"}, {}, {}, {}, {}),
   audit |-> Keys({"samples_pre", "samples_post", "settle_ms", "stuck_epsilon_raw"}, {}, {},
                  {"coin_mass_g", "tolerance_per_coin_g", "grams_per_raw"}, {"tare_raw"}),
   presentation |-> Keys({"present_ms"}, {}, {}, {}, {}),
   selftest |-> Keys({}, {}, {"enable_coin_test"}, {}, {}),
   aws |-> Keys({"qos", "rotation_check_minutes"},
                {"endpoint", "thing_name", "client_id", "root_ca_env", "cert_env", "key_env",
                 "topic_prefix", "queue_dir"},
                {"enable", "use_tls_identity"}, {}, {"max_queue_bytes"})]

PlatformSchema ==
  [security |-> Keys({}, {"allow_ssh_from", "service_user"},
                     {"enable_ro_root", "ssh_keys_only", "firewall_enable", "auditd_enable"}, {}, {}),
   identity |-> Keys({}, {"tpm_parent_handle", "ca_endpoint", "cert_dir", "device_id_prefix"},
                     {"use_tpm"}, {}, {}),
   safety |-> Keys({"estop_pin", "lid_tamper_pin", "overcurrent_pin", "debounce_ms"}, {},
                   {"active_high"}, {}, {}),
   service |-> Keys({"jam_clear_shutter_mm", "jam_clear_cycles", "hopper_nudge_ms", "hopper_max_retries"},
                    {"pin_code", "audit_path"}, {"enable"}, {}, {}),
   pos |-> Keys({"port"}, {"key", "tls_cert", "tls_key"}, {"enable_http"}, {}, {}),
   ota |-> Keys({"poll_seconds", "health_grace_seconds"},
                {"backend", "feed_url", "channel", "ring", "state_dir", "key_pub"},
                {"enable", "require_signed"}, {}, {}),
   manufacturing |-> Keys({}, {"label_printer_uri", "label_template", "company_name"},
                          {"enable_first_boot_eol"}, {}, {}),
   eol |-> Keys({"coins_for_test", "open_mm", "present_ms", "retries", "min_success_txn_visible_seconds"},
                {"result_dir"}, {}, {"weigh_tolerance_g"}, {}),
   burnin |-> Keys({"cycles", "rest_ms"}, {"log_path"}, {"abort_on_fault"}, {}, {}),
   quant |-> Keys({"heartbeat_seconds", "reserve_floor_cents", "max_daily_outflow_cents",
                   "min_step_change_cents", "max_update_rate_hz", "tolerance_cents"},
                  {"endpoint", "client_id", "hmac_key_hex", "topic", "queue_dir", "backoff_ms"},
                  {"enable"}, {}, {})]

(* A file that parses is a set of entries. *)
ASSUME StartAssumption ==
  \A s \in Starts : s.file \subseteq [section : STRING, key : STRING, value : Values]

Sections == DOMAIN HardwareSchema \cup DOMAIN PlatformSchema
Schema(s) == IF s \in DOMAIN HardwareSchema THEN HardwareSchema[s] ELSE PlatformSchema[s]

(* What is set has a field, and a verdict comes at the end.                *)
UTypeOK ==
  /\ stage \in {"start", "cli", "loaded", "done"}
  /\ \A e \in config : e.section \in Sections /\ e.key \in DOMAIN Schema(e.section) /\ e.value \in Values
  /\ (chosen # "none") = (stage = "done")

UInit ==
  /\ stage = "start" /\ \E s \in Starts : args = s.args /\ file = s.file
  /\ config = {} /\ errors = {} /\ chosen = "none"
-----------------------------------------------------------------------------
(* What the setter of a field takes, and what it keeps of it. *)
accepts(kind, v) ==
  CASE kind \in {"INT", "LONG"} -> v \in Integers32
    [] kind = "DOUBLE" -> v \in Integers32 \cup {"real"}
    [] kind = "BOOL" -> v \in Integers32 \cup {"true", "false"}
    [] kind = "STRING" -> v = "text"

keeps(kind, v) ==
  CASE kind = "INT" /\ v = "wide" -> "zero"
    [] kind = "BOOL" /\ v \in {"zero", "wide"} -> "false"
    [] kind = "BOOL" /\ v = "one" -> "true"
    [] OTHER -> v

Known(e) == e.section \in Sections /\ e.key \in DOMAIN Schema(e.section)

(* load: what is set, the rest being the default, and what is complained   *)
(* of; a file that cannot be read leaves the defaults and one complaint.   *)
apply_object(f) ==
  {[e EXCEPT !.value = keeps(Schema(e.section)[e.key], @)] :
     e \in {x \in f : Known(x) /\ accepts(Schema(x.section)[x.key], x.value)}}

\* Bug: an unknown key is skipped without a word.
complaints_known(f) == {e \in f : Known(e) /\ ~accepts(Schema(e.section)[e.key], e.value)}

complaints(f) == {e \in f : ~Known(e) \/ ~accepts(Schema(e.section)[e.key], e.value)}

load ==
  /\ stage = "cli" /\ stage' = "loaded"
  /\ IF file \in Unreadable
     THEN config' = {} /\ errors' = {"file"}
     ELSE config' = apply_object(file) /\ errors' = complaints(file)
  /\ UNCHANGED <<args, file, chosen>>

(* parse throws outside main's try when the line is garbled. *)
parse ==
  /\ stage = "start"
  /\ IF "garbled" \in args.given
     THEN stage' = "done" /\ chosen' = "terminated"
     ELSE stage' = "cli" /\ UNCHANGED chosen
  /\ UNCHANGED <<args, file, config, errors>>

Requested(what) ==
  \/ what \in args.given
  \/ what = args.sub /\ what \in {"selftest", "api", "dispense"}
  \/ what = "api" /\ "tui" \in args.given

PosEnabled == [section |-> "pos", key |-> "enable_http", value |-> "false"] \notin config

any_action ==
  \E what \in {"demo-shutter", "with-scale", "selftest", "dispense", "purchase", "api", "tui", "service"} : Requested(what)

pos_http == Requested("pos-http") \/ (~any_action /\ PosEnabled)

Chosen ==
  IF Requested("compliance-mode") /\ Requested("prescan-cycle") THEN "prescan"
  ELSE IF Requested("selftest") THEN "selftest"
  ELSE IF Requested("demo-shutter") THEN "demo"
  ELSE IF Requested("api") THEN "api"
  ELSE IF pos_http THEN "pos"
  ELSE IF Requested("purchase") /\ Requested("deposit") THEN "purchase"
  ELSE IF Requested("dispense") THEN "dispense"
  ELSE "idle"

main ==
  /\ stage = "loaded" /\ stage' = "done"
  /\ chosen' = IF errors # {} THEN "refused" ELSE Chosen
  /\ UNCHANGED <<args, file, config, errors>>

UNext == parse \/ load \/ main
USpec == UInit /\ [][UNext]_uvars
-----------------------------------------------------------------------------
(***************************************************************************)
(* Properties.                                                             *)
(***************************************************************************)
(* The program does what it was asked to, and nothing else.  One that runs *)
(* has read its whole file: each entry is in force, as written or as the   *)
(* truth value or narrow integer that it stands for, and nothing else      *)
(* differs from the defaults.  And coins move at start only when the       *)
(* command line says how many, a purchase with both amounts or a dispense, *)
(* and names no server mode, which takes precedence; a drawer started bare *)
(* waits for the point of sale.                                            *)
StartIsDeliberate ==
  /\ chosen \notin {"none", "refused", "terminated"} =>
       /\ file \notin Unreadable
       /\ \A e \in file : \E c \in config :
            /\ c.section = e.section /\ c.key = e.key
            /\ \/ c.value = e.value
               \/ e.value \in Integers32 /\ c.value = (IF e.value = "one" THEN "true" ELSE "false")
               \/ e.value = "wide" /\ c.value = "zero"
       /\ \A c \in config : \E e \in file : c.section = e.section /\ c.key = e.key
  /\ chosen \in {"purchase", "dispense"} =>
       /\ errors = {} /\ {"api", "tui", "pos-http"} \cap args.given = {} /\ args.sub # "api"
       /\ {"purchase", "deposit"} \subseteq args.given \/ Requested("dispense")
  /\ chosen = "idle" => args.given # {} \/ args.sub # "" \/ config # {}
=============================================================================
