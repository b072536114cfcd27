---------------------------- MODULE JsonKeyLimit ----------------------------
(***************************************************************************)
(* JsonKeyLimitReader of openai_request.rs: a filter in front of the JSON  *)
(* parser that bounds the length of object keys and the depth of nesting,  *)
(* with a few flags instead of a parser.  Here any JSON document is        *)
(* written byte by byte, as long as it likes, and the filter inspects each *)
(* byte: its flags have to follow the document's structure.                *)
(***************************************************************************)
EXTENDS Integers, Sequences

CONSTANTS
  MaxKeyBytes,    \* MAX_JSON_KEY_BYTES
  MaxDepth        \* MAX_JSON_NESTING_DEPTH

ASSUME JsonKeyLimitAssumption == MaxKeyBytes \in Nat /\ MaxDepth \in Nat

VARIABLES
  (* The document. *)
  nesting,      \* open containers, the innermost last
  next,         \* what may come: a "value", "key", "colon" or "separator"
  string,       \* the string being written: "none", "key" or "value"
  escape,       \* a backslash was written just now
  length,       \* bytes of the string so far, counted for keys
  (* The filter. *)
  containers,   \* containers: an array, or an object and expecting_key
  escaped,
  in_key,
  in_string,
  key_bytes,
  refused       \* inspect returned an error

document == <<nesting, next, string, escape, length>>
filter == <<containers, escaped, in_key, in_string, key_bytes, refused>>
filterVars == <<nesting, next, string, escape, length,
                containers, escaped, in_key, in_string, key_bytes, refused>>

Array == [object |-> FALSE, expecting_key |-> FALSE]
Object == [object |-> TRUE, expecting_key |-> TRUE]

FilterInit ==
  /\ nesting = <<>>
  /\ next = "value"
  /\ string = "none"
  /\ escape = FALSE
  /\ length = 0
  /\ containers = <<>>
  /\ escaped = FALSE
  /\ in_key = FALSE
  /\ in_string = FALSE
  /\ key_bytes = 0
  /\ refused = FALSE

Innermost(seq) == seq[Len(seq)]
Outer(seq) == SubSeq(seq, 1, Len(seq) - 1)

-----------------------------------------------------------------------------
(* inspect, for one byte.                                                  *)

KeepFlags == UNCHANGED <<containers, escaped, in_key, in_string>>

(* A byte of a string other than its closing quote counts in a key.        *)
CountKeyByte ==
  IF in_key
  THEN /\ key_bytes' = key_bytes + 1
       /\ IF key_bytes + 1 > MaxKeyBytes THEN refused' = TRUE
          ELSE UNCHANGED refused
  ELSE UNCHANGED <<key_bytes, refused>>

(* Mutant of InspectInString: escapes are not looked at.                   *)
InspectWithoutEscapes(byte) ==
  IF byte = "quote"
  THEN /\ in_string' = FALSE /\ in_key' = FALSE
       /\ UNCHANGED <<containers, escaped, key_bytes, refused>>
  ELSE /\ CountKeyByte
       /\ KeepFlags

InspectInString(byte) ==
  IF ~escaped /\ byte = "quote"
  THEN /\ in_string' = FALSE /\ in_key' = FALSE
       /\ UNCHANGED <<containers, escaped, key_bytes, refused>>
  ELSE /\ escaped' = (~escaped /\ byte = "backslash")
       /\ CountKeyByte
       /\ UNCHANGED <<containers, in_key, in_string>>

ExpectingKey == containers # <<>> /\ Innermost(containers).expecting_key

OpenString ==
  /\ in_string' = TRUE
  /\ in_key' = ExpectingKey
  /\ key_bytes' = 0
  /\ UNCHANGED <<containers, escaped, refused>>

(* Mutant of Push: one container too many.                                 *)
PushOneMore(container) ==
  /\ IF Len(containers) > MaxDepth
     THEN refused' = TRUE /\ UNCHANGED containers
     ELSE containers' = Append(containers, container) /\ UNCHANGED refused
  /\ UNCHANGED <<escaped, in_key, in_string, key_bytes>>

(* push_container.                                                         *)
Push(container) ==
  /\ IF Len(containers) >= MaxDepth
     THEN refused' = TRUE /\ UNCHANGED containers
     ELSE containers' = Append(containers, container) /\ UNCHANGED refused
  /\ UNCHANGED <<escaped, in_key, in_string, key_bytes>>

Pop ==
  /\ containers' = IF containers = <<>> THEN <<>> ELSE Outer(containers)
  /\ UNCHANGED <<escaped, in_key, in_string, key_bytes, refused>>

(* A colon or a comma in an object.                                        *)
ExpectKey(expected) ==
  /\ containers' = IF containers # <<>> /\ Innermost(containers).object
                   THEN [containers EXCEPT ![Len(containers)].expecting_key = expected]
                   ELSE containers
  /\ UNCHANGED <<escaped, in_key, in_string, key_bytes, refused>>

InspectStructure(byte) ==
  \/ byte = "quote" /\ OpenString
  \/ byte = "openBrace" /\ Push(Object)
  \/ byte = "openBracket" /\ Push(Array)
  \/ byte \in {"closeBrace", "closeBracket"} /\ Pop
  \/ byte = "colonMark" /\ ExpectKey(FALSE)
  \/ byte = "comma" /\ ExpectKey(TRUE)
  \/ byte \in {"other", "backslash"} /\ UNCHANGED filter

Inspect(byte) ==
  IF in_string THEN InspectInString(byte) ELSE InspectStructure(byte)

-----------------------------------------------------------------------------
(* The documents: one action per kind of byte, with its inspection.        *)

InObject == nesting # <<>> /\ Innermost(nesting) = "object"

(* After a value a separator comes, in a container; the document's value   *)
(* is followed by white space only.                                        *)
OpenBracket(byte, kind) ==
  /\ string = "none" /\ next \in {"value", "valueOrEnd"}
  /\ nesting' = Append(nesting, kind)
  /\ next' = IF kind = "object" THEN "keyOrEnd" ELSE "valueOrEnd"
  /\ UNCHANGED <<string, escape, length>>
  /\ Inspect(byte)

CloseBracket ==
  /\ string = "none" /\ nesting # <<>>
  /\ next \in {"separator", IF InObject THEN "keyOrEnd" ELSE "valueOrEnd"}
  /\ nesting' = Outer(nesting)
  /\ next' = "separator"
  /\ UNCHANGED <<string, escape, length>>
  /\ Inspect(IF InObject THEN "closeBrace" ELSE "closeBracket")

Comma ==
  /\ string = "none" /\ next = "separator" /\ nesting # <<>>
  /\ next' = IF InObject THEN "key" ELSE "value"
  /\ UNCHANGED <<nesting, string, escape, length>>
  /\ Inspect("comma")

Colon ==
  /\ string = "none" /\ next = "colon"
  /\ next' = "value"
  /\ UNCHANGED <<nesting, string, escape, length>>
  /\ Inspect("colonMark")

OpenQuote ==
  /\ string = "none" /\ next \in {"value", "valueOrEnd", "key", "keyOrEnd"}
  /\ string' = IF next \in {"key", "keyOrEnd"} THEN "key" ELSE "value"
  /\ length' = 0
  /\ UNCHANGED <<nesting, next, escape>>
  /\ Inspect("quote")

CloseQuote ==
  /\ string # "none" /\ ~escape
  /\ next' = IF string = "key" THEN "colon" ELSE "separator"
  /\ string' = "none"
  /\ length' = 0
  /\ UNCHANGED <<nesting, escape>>
  /\ Inspect("quote")

(* Brackets, commas and colons may be in a string, and escaped bytes.      *)
StringByte ==
  /\ string # "none"
  /\ \E byte \in {"other", "openBrace", "closeBracket", "colonMark", "comma",
                   "backslash", "quote"} :
       /\ byte = "quote" => escape
       /\ escape' = (byte = "backslash" /\ ~escape)
       /\ Inspect(byte)
  /\ length' = IF string = "key" THEN length + 1 ELSE 0
  /\ UNCHANGED <<nesting, next, string>>

(* A number, a literal or white space.                                     *)
OtherByte ==
  /\ string = "none"
  /\ next' \in IF next \in {"value", "valueOrEnd"} THEN {next, "separator"}
               ELSE {next}
  /\ UNCHANGED <<nesting, string, escape, length>>
  /\ Inspect("other")

DocumentNext ==
  \/ OpenBracket("openBrace", "object") \/ OpenBracket("openBracket", "array")
  \/ CloseBracket \/ Comma \/ Colon \/ OpenQuote \/ CloseQuote \/ StringByte \/ OtherByte

(* An error ends the reading.                                              *)
FilterNext == ~refused /\ DocumentNext

FilterSpec == FilterInit /\ [][FilterNext]_filterVars

-----------------------------------------------------------------------------
Kinds == {"object", "array"}

(* Every variable has its type, and only a string is a key.                *)
FilterTypeOK ==
  /\ nesting \in Seq(Kinds)
  /\ next \in {"value", "valueOrEnd", "key", "keyOrEnd", "colon", "separator"}
  /\ string \in {"none", "key", "value"}
  /\ escape \in BOOLEAN
  /\ length \in Nat
  /\ containers \in Seq([object : BOOLEAN, expecting_key : BOOLEAN])
  /\ escaped \in BOOLEAN
  /\ in_key \in BOOLEAN
  /\ in_string \in BOOLEAN
  /\ key_bytes \in Nat
  /\ refused \in BOOLEAN
  /\ string = "none" => ~escape
  /\ in_key => in_string

(* The filter's flags follow the document: what is a string, what a key,   *)
(* what is nested in what, through escapes, empty containers and brackets  *)
(* inside strings.                                                         *)
FilterFollowsDocument ==
  ~refused =>
    /\ in_string <=> string # "none"
    /\ in_key <=> string = "key"
    /\ escaped <=> escape
    /\ in_key => key_bytes = length
    /\ Len(containers) = Len(nesting)
    /\ \A i \in 1..Len(nesting) :
         containers[i].object <=> nesting[i] = "object"

(* What the parser behind the filter gets to see is within the limits.     *)
LimitsHold ==
  ~refused => Len(nesting) <= MaxDepth /\ length <= MaxKeyBytes

(* A document is refused only for a key or a nesting beyond its limit: no  *)
(* string value is long enough, and no document with short keys too long.  *)
RefusalsAreDeserved ==
  refused => Len(nesting) > MaxDepth \/ length > MaxKeyBytes

(* The limits are exact: what is refused is beyond one of them, and what   *)
(* gets through is not.                                                    *)
RefusedExactlyBeyondLimits == LimitsHold /\ RefusalsAreDeserved
=============================================================================
