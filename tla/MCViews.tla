------------------------------ MODULE MCViews ------------------------------
(* Two jobs whose JDLs differ in encoding, in the spelling of LPMPassName, *)
(* in the types of their values, or cannot be read at all; a contract of   *)
(* two fields, one of them typed NULL; ProxyTTL has no contract field.     *)
EXTENDS ContractViews

MCKeys == {"LPMPassName", "LPMPASSNAME", "TTL", "ProxyTTL"}
MCColumnOf ==
  [k \in MCKeys |-> CASE k = "LPMPassName" -> "jdl__lpm_pass_name"
                      [] k = "LPMPASSNAME" -> "jdl__lpmpassname"
                      [] k = "TTL" -> "jdl__ttl"
                      [] OTHER -> "jdl__proxy_ttl"]

MCRawJdls ==
  {Text(0, "object", <<<<"TTL", "text">>, <<"ProxyTTL", "list">>>>),
   Text(1, "object", <<<<"LPMPassName", "null">>, <<"TTL", "number">>,
                       <<"LPMPASSNAME", "text">>>>),
   Text(2, "object", <<<<"TTL", "text">>>>),
   NotText}

MCSourceColumns ==
  [t \in {"job_info", "trace"} |->
     IF t = "job_info" THEN JOB_INFO_COLUMNS ELSE TRACE_COLUMNS \cup {"extra"}]

MCContractFields == {"LPMPassName", "TTL"}
MCNulledFields == {"LPMPassName"}
=============================================================================
