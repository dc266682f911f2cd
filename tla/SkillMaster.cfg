\* Quotes, news and the knowledge bank, each by itself.
SPECIFICATION Spec
CONSTANTS
    None = None
PROPERTIES
    QuotesSound
    NewsSound
    KnowledgeSound
