\* Scans of honest browsers on honest lines, the odd ones included, with up to
\* two fields of the first tampered with, three scans of two devices, blobs of
\* two visits.
SPECIFICATION Spec
CONSTANTS
  None = None
  HandOverlay <- MCHandOverlay
  AutoOverlay <- MCAutoOverlay
  AsnClass <- MCAsnClass
  AsnCatalog <- MCAsnCatalog
  CipherFamily <- MCCipherFamily
  SafariOs <- MCSafariOs
  H2Family <- MCH2Family
  Baselines <- MCBaselines
  MinHardBreakN = 4
  LangCountries <- MCLangCountries
  Continent <- MCContinent
  LanguageList = LanguageList
  ListValues = {LanguageList}
  MaxVisits = 2
  RecentWindow = 1
  Corrupt = Corrupt
  Keys = {k1, k2}
  HonestScans <- MCHonestScans
  ReturningScans <- MCReturningScans
  Tamperings <- MCTamperings
  Alterations <- MCAlterations
  Unreadable = Unreadable
  AppleEgress <- MCAppleEgress
  MaxScans = 3
  TamperedScans = 1
  MaxTamperings = 2
INVARIANTS
  CleanRestsOnProbes
  HonestScanIsExcused
  ProxyVerdictIsNetworkOnly
  HistoryIsOfItsDevice
PROPERTIES
  EvidenceNeverHelps
SYMMETRY KeySymmetry
CHECK_DEADLOCK FALSE
