SPECIFICATION Spec
CONSTANTS
  Clients = {"latin", "utf"}
  Offers <- MCOffers
  Text <- MCText
  MaxCopies = 3
  MaxPending = 1
  MaxConnects = 1
  MaxUp = 1
INVARIANTS TextIntact AnswersFresh ClipboardsAgree SwallowedOnlyBehindText
PROPERTIES RequestAnswered
