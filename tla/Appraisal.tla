----------------------------- MODULE Appraisal ------------------------------
(***************************************************************************)
(* What the verifier asks of an SNP report and of AMD's certificates:      *)
(* crates/verifier/src/lib.rs, evidence/snp.rs and the certificate half of *)
(* evidence/amd.rs.  Each operator is one function's verdict; which error  *)
(* it reports is left out.                                                 *)
(*                                                                         *)
(* A mask is the set of its bits, a TCB the tuple of its eight bytes, a    *)
(* CPUID the triple family, model, stepping, and a chip id the pair of its *)
(* first eight bytes and the rest, where 0 stands for zero bytes.          *)
(***************************************************************************)
EXTENDS Integers, Sequences, SequencesExt, FiniteSets

-----------------------------------------------------------------------------
(* AMD's products.                                                         *)

\* AMD_PRODUCT_PROFILES; Genoa and Siena share one root key.
AMD_PRODUCT_PROFILES ==
    [product \in {"Milan", "Genoa", "Siena", "Turin"} |->
       [root |-> IF product = "Siena" THEN "Genoa" ELSE product,
        struct_version |-> IF product = "Turin" THEN 1 ELSE 0,
        layout |-> IF product = "Turin" THEN "Family1ah" ELSE "Family19h",
        required |-> IF product = "Milan" THEN {} ELSE {"mem_aes_256_xts"}]]

Products == DOMAIN AMD_PRODUCT_PROFILES

\* amd_product_from_cpuid: the product, or "unsupported".
AmdProductFromCpuid(cpuid) ==
    LET extended == cpuid[2] \div 16
    IN  CASE cpuid[1] = 25 /\ extended = 0 -> "Milan"
          [] cpuid[1] = 25 /\ extended = 1 -> "Genoa"
          [] cpuid[1] = 25 /\ extended = 10 -> "Siena"
          [] cpuid[1] = 26 /\ extended \in {0, 1} -> "Turin"
          [] OTHER -> "unsupported"

\* validate_snp_launch_policy; "reserved_high" stands for any bit from 26 up.
LaunchPolicyValid(policy, product) ==
    /\ "reserved_high" \notin policy.bits
    /\ {"page_swap_disable", "single_socket", "reserved_one"}
          \cup AMD_PRODUCT_PROFILES[product].required \subseteq policy.bits
    /\ policy.bits \cap {"cxl_allow", "debug", "migrate_ma"} = {}
    /\ policy.abi[1] > 1 \/ (policy.abi[1] = 1 /\ policy.abi[2] >= 58)

-----------------------------------------------------------------------------
(* A report's product and encoding.                                        *)

\* inspect_report_product: version 2 carries no CPUID, so no product is known.
InspectReportProduct(report) ==
    IF report.version = 2
    THEN IF report.chip[2] = 0 /\ report.chip[1] # 0 THEN "invalid" ELSE "unknown"
    ELSE LET product == AmdProductFromCpuid(report.cpuid)
         IN  IF \/ product = "unsupported"
                \/ /\ AMD_PRODUCT_PROFILES[product].layout = "Family1ah"
                   /\ report.version < 5
             THEN "invalid" ELSE product

KnownPlatformInfo == {0, 1, 2, 3, 4, 5, 7}

\* validate_raw_snp_report_encoding: the ranges that are zero in older versions hold the
\* CPUID and the mitigation vectors of version 5.
EncodingValid(report, product) ==
    /\ report.reserved = 0
    /\ report.version # 5 =>
          /\ report.cpuid = <<0, 0, 0>>
          /\ report.launch_mitigations = {} /\ report.current_mitigations = {}
    /\ report.platform_info \subseteq KnownPlatformInfo
    /\ product \in Products /\ AMD_PRODUCT_PROFILES[product].layout = "Family19h" =>
          \A tcb \in {report.current_tcb, report.reported_tcb,
                      report.committed_tcb, report.launch_tcb} :
             \A byte \in 3 .. 6 : tcb[byte] = 0

\* check_raw_report_bindings without its appraisal: what the report says is what the
\* approved launch and the caller's commitment say.  The code also compares the chip id
\* and the TCB with values its one caller reads from the same report.
BindingsHold(report, data, measurement, launch) ==
    LET product == InspectReportProduct(report) IN
    /\ report.version \in 2 .. 5
    /\ product # "invalid"
    /\ EncodingValid(report, product)
    /\ report.family_id = launch.family_id
    /\ report.image_id = launch.image_id
    /\ report.report_data = data
    /\ report.measurement = measurement
    /\ report.host_data = launch.host_data
    /\ report.id_key_digest = launch.id_key_digest
    /\ report.author_key_digest = launch.author_key_digest
    /\ report.vmpl = launch.vmpl
    /\ report.policy = launch.policy
    /\ report.signature_algo = 1
    /\ report.report_info \subseteq {0}
    /\ 0 \in report.report_info <=> launch.author_key_digest # 0
    /\ "migrate_ma" \in launch.policy.bits \/ report.migration_agent \in {"zero", "ones"}

\* verify_raw_snp_report_signature_with_vcek; the reserved bytes are the signature's.
SignedBy(report, vcek) == report.signature = [key |-> vcek.key, reserved |-> 0]

-----------------------------------------------------------------------------
(* Appraisal by the hardware policy.                                       *)

\* family19h_tcb: bootloader, TEE, SNP and microcode.
Family19hTcb(tcb) == <<tcb[1], tcb[2], tcb[7], tcb[8]>>

TcbAtLeast(actual, minimum) == \A i \in 1 .. 4 : actual[i] >= minimum[i]

\* SnpHardwareFacts::from_report: what an authority keeps of an authenticated report.
FromReport(report) ==
    [report_version |-> report.version, cpuid |-> report.cpuid,
     current_tcb |-> Family19hTcb(report.current_tcb),
     reported_tcb |-> Family19hTcb(report.reported_tcb),
     committed_tcb |-> Family19hTcb(report.committed_tcb),
     launch_tcb |-> Family19hTcb(report.launch_tcb),
     current_version |-> report.current_version,
     committed_version |-> report.committed_version,
     platform_info |-> report.platform_info,
     launch_mitigations |-> report.launch_mitigations,
     current_mitigations |-> report.current_mitigations]

\* SnpHardwareFacts::reported_tcb: the eight bytes again, the reserved ones as zero.
ReportedTcb(facts) ==
    LET tcb == facts.reported_tcb IN <<tcb[1], tcb[2], 0, 0, 0, 0, tcb[3], tcb[4]>>

\* Arrays of three bytes compare like the words they spell.
VersionAtMost(v, w) ==
    \/ v[1] < w[1]
    \/ v[1] = w[1] /\ (v[2] < w[2] \/ (v[2] = w[2] /\ v[3] <= w[3]))

Appraise(facts, profile) ==
    /\ facts.report_version = 5
    /\ facts.cpuid = profile.cpuid
    /\ \A tcb \in {facts.current_tcb, facts.reported_tcb, facts.committed_tcb,
                   facts.launch_tcb} : TcbAtLeast(tcb, profile.minimum_tcb)
    /\ TcbAtLeast(facts.committed_tcb, facts.reported_tcb)
    /\ TcbAtLeast(facts.current_tcb, facts.committed_tcb)
    /\ VersionAtMost(facts.committed_version, facts.current_version)
    /\ profile.required_platform_info \subseteq facts.platform_info
    /\ profile.forbidden_platform_info \cap facts.platform_info = {}
    /\ profile.required_launch_mitigations \subseteq facts.launch_mitigations
    /\ profile.required_current_mitigations \subseteq facts.current_mitigations

\* appraise_snp_report.
AppraiseReport(report, profile) ==
    /\ AmdProductFromCpuid(profile.cpuid) = InspectReportProduct(report)
    /\ Appraise(FromReport(report), profile)

\* appraise_hardware: one of the chip's configurations passes as a whole.
ProfilesOf(policy, chip) == {p \in ToSet(policy.policies) : chip \in ToSet(p.chip_ids)}

HardwareAllows(policy, report) ==
    \E profile \in ProfilesOf(policy, report.chip) : AppraiseReport(report, profile)

FactsAllowed(policy, chip, facts) ==
    \E profile \in ProfilesOf(policy, chip) : Appraise(facts, profile)

\* validate_hardware_policy.  The chip ids of a group and the groups are in strict order;
\* a group's rank stands for its canonical text.
HardwarePolicyValid(policy) ==
    /\ policy.version > 0
    /\ policy.policies # <<>>
    /\ \A n \in DOMAIN policy.policies :
          LET p == policy.policies[n] IN
          /\ p.chip_ids # <<>>
          /\ \A i \in 2 .. Len(p.chip_ids) : p.chip_ids[i - 1][1] < p.chip_ids[i][1]
          /\ n > 1 => policy.policies[n - 1].rank < p.rank
          /\ AmdProductFromCpuid(p.cpuid) \in Products
          /\ AMD_PRODUCT_PROFILES[AmdProductFromCpuid(p.cpuid)].layout = "Family19h"
          /\ p.required_platform_info \cap p.forbidden_platform_info = {}
          /\ p.required_platform_info \cup p.forbidden_platform_info \subseteq KnownPlatformInfo

-----------------------------------------------------------------------------
(* AMD's certificates.                                                     *)

\* validate_vcek_extensions: which TCB extension holds which byte of the reported TCB.
TcbExtensions(layout) ==
    IF layout = "Family19h" THEN <<1, 2, 4, 5, 6, 7, 3, 8>> ELSE <<9, 1, 2, 3, 5, 6, 7, 8>>

TcbMatches(vek, layout, tcb) ==
    \A byte \in 1 .. 8 :
        LET oid == TcbExtensions(layout)[byte] IN
        /\ byte # 8 => tcb[byte] <= 127
        /\ oid \in DOMAIN vek.spl /\ vek.spl[oid] = tcb[byte]

\* The hardware id of a Family 1Ah part is the first eight bytes of its chip id.
HwidMatches(vek, layout, chip) ==
    IF layout = "Family19h" THEN vek.hwid = chip
    ELSE chip[2] = 0 /\ chip[1] # 0 /\ vek.hwid = <<chip[1]>>

\* amd_product_from_vcek_name: a product, or a product and a stepping.
AmdProductFromVcekName(name) ==
    IF name.product \in Products /\ name.stepping \in {"", "short"}
    THEN name.product ELSE "unsupported"

VcekExtensionsValid(vek, chip, tcb) ==
    LET product == AmdProductFromVcekName(vek.product_name) IN
    /\ product \in Products
    /\ vek.struct_version = AMD_PRODUCT_PROFILES[product].struct_version
    /\ TcbMatches(vek, AMD_PRODUCT_PROFILES[product].layout, tcb)
    /\ HwidMatches(vek, AMD_PRODUCT_PROFILES[product].layout, chip)

\* validate_report_product_binding: the product, or "invalid".
ReportProductBinding(vek, report) ==
    LET product == AmdProductFromVcekName(vek.product_name)
        seen == InspectReportProduct(report)
    IN  IF /\ product \in Products /\ report.version \in 2 .. 5
           /\ \/ seen = product
              \/ seen = "unknown" /\ AMD_PRODUCT_PROFILES[product].layout = "Family19h"
        THEN product ELSE "invalid"

\* verify_amd_certificates, for the interval that verify_platform takes from the three
\* certificates themselves: the pinned root, the names and the signatures.
CertificatesValid(ark, ask, vek, chip, tcb) ==
    /\ VcekExtensionsValid(vek, chip, tcb)
    /\ ark.key = AMD_PRODUCT_PROFILES[AmdProductFromVcekName(vek.product_name)].root
    /\ ark.issuer = ark.subject /\ ask.issuer = ark.subject /\ vek.issuer = ask.subject
    /\ ark.signed_by = ark.key /\ ask.signed_by = ark.key /\ vek.signed_by = ask.key

\* Validity::intersect and Validity::at.
Intersect(v, w) ==
    [start |-> IF v.start < w.start THEN w.start ELSE v.start,
     end |-> IF v.end < w.end THEN v.end ELSE w.end]

ValidAt(v, now) == v.start <= now /\ now < v.end

ChainValidity(ark, ask, vek) ==
    Intersect(Intersect(ark.validity, ask.validity), vek.validity)

-----------------------------------------------------------------------------
(* A bundle's collateral rows: parse_amd_collateral_entries, Store::verify *)
(* and verify_platform.  A row's der is the object itself, and genuine     *)
(* says that envelope, payload and digest agree.                           *)

\* Chip and TCB are given exactly for a VCEK; every key, and every object, is unique.
RowsParse(rows) ==
    /\ \A n \in DOMAIN rows :
          /\ rows[n].genuine
          /\ rows[n].type \in {"ark", "ask", "crl", "vcek"}
          /\ rows[n].type = "vcek" <=> rows[n].platform # <<>>
    /\ \A m, n \in DOMAIN rows : m # n =>
          /\ rows[m].der # rows[n].der
          /\ rows[m].type = "vcek" /\ rows[n].type = "vcek" =>
                rows[m].platform # rows[n].platform
          /\ rows[m].type = rows[n].type /\ rows[m].type # "vcek" => rows[m].ca # rows[n].ca

RowOf(rows, ca, type) == CHOOSE r \in ToSet(rows) : r.ca = ca /\ r.type = type

\* Every VCEK has the root, the intermediate and the list its row names, no other object
\* is carried, and each chain verifies.
StoreVerifies(rows) ==
    LET vceks == {r \in ToSet(rows) : r.type = "vcek"}
        common == ToSet(rows) \ vceks
    IN  /\ RowsParse(rows)
        /\ \A v \in vceks : \A type \in {"ark", "ask", "crl"} :
              \E r \in common : r.ca = v.ca /\ r.type = type
        /\ \A r \in common : \E v \in vceks : v.ca = r.ca
        /\ \A v \in vceks :
              LET ark == RowOf(rows, v.ca, "ark").der
                  ask == RowOf(rows, v.ca, "ask").der
                  validity == ChainValidity(ark, ask, v.der)
              IN  /\ validity.start < validity.end
                  /\ CertificatesValid(ark, ask, v.der, v.platform[1], v.platform[2])

\* Store::platforms: what is kept of each verified chain, by chip and reported TCB.
Platforms(rows) ==
    LET vceks == {r \in ToSet(rows) : r.type = "vcek"}
    IN  [key \in {v.platform : v \in vceks} |->
           LET v == CHOOSE v \in vceks : v.platform = key
               ark == RowOf(rows, v.ca, "ark").der
               ask == RowOf(rows, v.ca, "ask").der
           IN  [issuer |-> ark.key, ask_serial |-> ask.serial, vcek |-> v.der,
                certificates |-> ChainValidity(ark, ask, v.der)]]
=============================================================================
